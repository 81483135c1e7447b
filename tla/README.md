# bigmachine in TLA+

A TLA+ model of [bigmachine](../src), a Go toolkit for driving clusters of
machines: a *driver* process starts machines through a *system* (local
processes, EC2), uploads its own binary to each, registers services there, and
then calls them by RPC while it keeps each machine alive with a keepalive.
The modules model the concurrent and the fault-handling parts of it, TLC checks
them on small instances, and TLAPS proves their safety for every value of the
constants.

## The system

| Part | What it does | What is hard about it | Module |
|---|---|---|---|
| `Machine` (`machine.go`) | `start`, `loop`, `setState`, `setError`, `Wait`, `Cancel`, `Call`, `RetryCall`, `context`, `tryMonitorOOMs`, the tail goroutine | two goroutines set the state; the state is read, and channels are closed, outside the lock; calls race with a stop | `Machine`, `Lifecycle` |
| Keepalive (`machine.go`, `supervisor.go`) | `loop`'s keepalive with `retryCall`, `Supervisor.Keepalive`, `watchdog` | lost and late calls, deadlines at both ends that must fit, death of either side | `Keepalive` |
| Bootstrap (`machine.go`, `supervisor.go`, `rpc/server.go`) | `exec`, `Supervisor.Info/Setenv/Setargs/Setbinary/Exec/Register`, `Server.Register`, `maybeInit` | an expected network error; calls that take effect after they were given up; retried registration | `Bootstrap` |
| Cluster (`bigmachine.go`, `testsystem`, `cmd/bigpi`) | `Dial`, `Start`, `Machines`, `Shutdown`, and the program that uses them | entries of the table are removed and replaced by several goroutines; addresses come back | `Cluster` |
| RPC (`rpc/`) | `Client.Call`, its cached clients, `Server.ServeHTTP`, streams; the statistics | concurrent calls share and reset a client; errors are classified for retries | `Rpc`, `Stats` |
| Systems (`ec2system/`, `local.go`, `internal/authority`, `driver`) | `Init`, `Start`, `HTTPClient`, `ListenAndServe`, the cloud-init configuration, `authority.New` | drivers share a file; instances boot, reboot and outlive their driver | `CloudConfig`, `Provision` |
| Diagnostics (`profile.go`, `status.go`, `expvar.go`, `pprof` handlers, `internal/filebuf`, `supervisor.go`) | requests that gather from all machines at once | machines stop meanwhile, streams break, one profiler for each process | `Diagnostics` |
| Tee writer (`internal/tee`) | `Tee`, its goroutine, `cancel`, `Write` | writers race for a buffer; sinks block, fail or are canceled | `TeeWriter` |

The parts meet in the machine's `loop`: it bootstraps the remote process over
RPC, changes the `Machine` state that calls and waits depend on, and keeps the
process alive; the process's watchdog answers for the other side. The cluster
holds the machines, the systems create them, the diagnostics question them and
the tee writer carries their output. The modules are composed by assumption and
guarantee: `Lifecycle` is what `Machine` promises, and `Cluster` and
`Diagnostics` use a machine as `Lifecycle` has it; the fairness that `Provision`
assumes of a process without a driver is `OrphanExits` of `Keepalive`, that which
`Cluster` assumes of a machine without a process is `DetectsDeath`; what `Machine` and
`Bootstrap` assume of a network error is `NetIsLocal` of `Rpc`.

## Modules

A definition carries the name of the code it stands for where there is one.
Definitions introduced by "Faulty variant" are the code with a plausible mistake
in it, and appear in no specification: they show that the properties tell the
code from its mistakes. Each component has an `MC*` module for TLC; the `*Proofs`
modules hold the theorems. Components that are proved about side by side in one
such module (`Keepalive` and `Bootstrap` in `SupervisorProofs`, `Rpc` and `Stats`
in `RpcProofs`) keep their names apart: `KeepaliveSpec`, `StatsSpec`, `driverPc`,
`callPc` and so on.

### Machine and Lifecycle

`Machine` is one `Machine` value and the goroutines of the process that holds it.
A critical section of `m.mu` is one step, and nothing larger is: `setError` is two
(`setError`, then `setState`), and the channels that `setState` collected are
closed in a third (`closeTriggered`). `State` is read without the lock, so a
`Call` decides what to do (`CallSwitch`) before it takes the lock in `context`.
`loopPc` follows `loop` from boot ping and upload (`LoopExec`) over the pings
and registrations to keepalives, heap profiles (a `Call` of the machine on
itself, so `loop` is one of the clients) and the select on its context; `oomPc`
follows `tryMonitorOOMs`. RPCs are their outcomes. `m.owner` is a choice of
`Init`: a machine is started (`Owner`) or dialed.

`Lifecycle` is the abstract specification: the state that only increases, the
error that stays, waits released when their state is reached, calls that end with
the machine. `Machine` instantiates it as `L`, with `m.err` visible only once the
machine has stopped and a call pending for as long as it is retried.

### Keepalive

Both ends of a keepalive in discrete time: the driver's call, its attempts,
timeouts and pauses; the supervisor's `Keepalive` and `watchdog`; attempts that
are lost, answered late, or accepted after the driver gave up on them
(`AcceptLate`, the strays); the crash of the process and the end of the driver.
All deadlines are counted relative to now, so the state space is finite with no
bound on time. `Diags` are the durations that the heap profile (up to a minute)
and the expvars (retried for five, plus an attempt) of an unhealthy machine may
take before the loop goes on, and `diag` is the one it chose. `Tick` waits for whatever is due (`NothingDue`) except that the
watchdog may be `Stall` units late.

### Bootstrap

What `Machine` takes as the outcomes of `LoopExec` and of the registrations,
with both ends of each call: the driver in `loop` and `exec` (`pc`, the request
`req` and what has become of it, `rpc`), and the remote process with what its
supervisor was given (`conf`), its table of services and the instances that
`Init` was called on. A connection may break or a call time out before, while or
after it is handled (`Fault`), and a request that was given up may be handled
later (`late`, `HandleLate`), by the process that was listening then. `Exec`
replaces the process, `Crash` ends it. `BootKnows` tells the local system, which
starts the driver's own program, from EC2, which starts `ec2boot`: that one
cannot decode the services, which is what makes a registration with the wrong
process fail.

### Cluster

A session: `b.machines` (`table`) under `Dial`, the goroutine that removes a
dialed machine once it has stopped (`Forget`), `Start` and `Shutdown`; the
processes the system launches, which crash, exit and give their address to
another; and the program of `cmd/bigpi`, which starts machines, waits for them to
run, calls them and shuts down, or ends by `log.Fatal` without that. `Shutdown`
sends its calls in turn, with no timeout, and then waits for the logs up to a timeout, whose
channel a dialed machine does not have.

### Rpc and Stats

`Rpc` is a client's calls to one address and the server there. A call takes the
cached client (`getClient`), posts (`Post`, `PostFails`), turns what it gets into
its result (`Respond`, with `callResult` and `decodeError`) and resets the client
after a failure (`updateClientState`, which also closes the idle connections of a
client that is no longer cached). `ServeHTTP` finds the service, runs the method
and writes a reply, an error or a stream; `CopyEnds` and `ReadStream` are the two
ends of a stream. Errors are kind and severity, as that is what retries go by.

`Stats` is the tree of `rpc/stats.go`: `Child` looks a node up without the mutex
of its parent (`Child`), takes the mutex (`Lock`), looks again (`ChildLocked`) and
only then makes the node and unlocks (`MakeChild`); `max` compares (`maxRead`) and
sets (`maxSet`) in two steps. `tree` is the set of edges, so that a second node for
the same name would replace the first, as `Map.Set` does, with what was counted
there.

### CloudConfig and Provision

`CloudConfig` has the pure part of the EC2 system as operators: `sliceConfig`, the
block devices of `Start`, and the units and mounts of `cloudConfig` as each flavor
marshals them. `attached` is what EC2 makes of the devices: the instance sees the
volumes under the names asked for, or, with NVMe, under NVMe names given to the
data volumes in any order. `Provision` has drivers that share a host: `authority.New` with its
file, which one driver may read while another has truncated it; `Init`; `Start`
with its image cache, its request to run instances, its waits and its errors; the
`http.Client` that the RPC client keeps for each address until a call fails, its
certificate (`ec2HTTPClient`, `localHTTPClient`) and when that expires; and the instances, which boot under systemd, run
the bootstrap binary, reboot, and power off when their process ends. Start's many
calls to EC2 are external: each succeeds, fails, or takes effect and fails.

### Diagnostics

The requests of the HTTP handlers and of `loop` (`saveProfile`, then `saveExpvars`,
whose retried calls are one that may fail): each begins by asking machines, has one goroutine for each, and responds when all
have returned. `ask` is the state of each call, `open` the response bodies,
`files` the temporary files of `filebuf` and `fds` their descriptors; on the other side `stream` is what
`Supervisor.Profile` and `CPUProfile` write and `slot` the one CPU profiler of a
process.

### TeeWriter

`Write` ranges over the map, takes a sink's buffer or makes one, makes room by
dropping the oldest bytes, appends and sends the buffer back, each a step that
other writers and the sinks' goroutines can come between. `sync.Map.Range` may
or may not see what is stored or deleted while it runs, so `Tee` may add to the
sinks a `Write` in progress will visit, and a `Write` may visit a deleted one.
`cancel` deletes the sink and closes its channel in one step: between the two its
goroutine can only receive, which it may do after both as well.
A byte is `<<writer, index>>`, so loss, reordering and repetition are visible.

## Runs

| Run | Properties | Instance |
|---|---|---|
| `machine_owner` | `StoppedCancelsCalls`, `StoppedHasErr`, `NoLostWakeup`, `NoDoubleClose` | an owned machine with its OOM monitor, one caller besides the loop, one waiter, one log line that matches |
| `machine_live` | `CtxErrIsCallers`, `CancelStops`, `ImplementsLifecycle` | started and dialed machines without a monitor |
| `keepalive` | `LeaseBound`, `DriverGivesUpFirst`, `DetectsDeath`, `OrphanExits` | units of 30 seconds: lease 5m, grace 2m, tick 30s, period 1m, timeout 2m, RPC timeout and back-off 30s, diagnostics of 1m30s, 2m and 6m30s, one late tick, one stray |
| `tee` | `DropsOnlyWhenFull`, `ForwardingStops`, `WriteReturns`, `LastByteDelivered` | one writer of up to 4 bytes in writes of 1 and 3, two sinks, buffers of 2 |
| `bootstrap` | `ExecConfigured`, `ServicesServed`, `ServedIsInitialized` | two services, a boot program that does not know them, three faults, two attempts to register |
| `cluster` | `DialShares`, `NotForgotten`, `EstimateComplete`, `MainEnds` | two machines asked for, three `Machine` values, two addresses that are used again, five samples for two processors |
| `rpc` | `NetIsLocal`, `OkMeansRun`, `MethodErrorReaches`, `FailedClientGone`, `IdleReclaimed` | three calls, one of them a stream, two objects for the service, methods that return temporary errors of kind `Net` |
| `provision` | `StorageMatches`, `BootAfterMount`, `LaunchedOnce`, `MachineTrustsDriver`, `RefusedExpired`, `OrphansTerminate` | two drivers, one of which starts machines, twice; two instances that may reboot once; five configurations; certificates of one tick, two ticks; 14 sizes of the data space, six of them also for the devices |
| `diagnostics` | `NothingLeft`, `OneProfiler`, `Complete`, `RequestsEnd` | two machines; two requests for CPU profiles at once, one of which may be for a single machine, or one request of each other kind |
| `stats` | `CountsKept`, `MaxKept` | two calls of one method to one machine |
| `machine_state_goes_back` | `StateMonotonic`, violated | an owned machine with a monitor |
| `tee_write_blocks` | `WriteReturns`, violated | two writers, one sink |

What they show, in the words of a user of the code: a call to a machine that
stops ends with the machine's error, a wait ends when and only when its state is
reached, and `Cancel` stops the machine wherever its loop is; a driver and a
process that lose each other both find out in bounded time, the driver first if it
has the local system's timeouts and its last diagnostics were short enough; a
machine that EC2 started and that is `Running` serves every service, from the
uploaded binary; errors say truly whether a method or the network failed, unless
the method returned a stream with its error, and a success has run its method;
temporary files, response bodies, profilers and instances are given back whatever
fails, as are connections, but for those of streams, and descriptors, but for those
of files whose copy failed; programs and requests end, unless a machine they wait
for stays `Starting` for ever.

Bounds. In `Machine` the interesting races are between the loop, the monitor,
one call and one wait, each of which may begin at any moment and be repeated, so
one of each suffices. `MaxOOM` bounds the matching log lines: after one the
monitor is back where it was. In `Keepalive` nothing but the number of stray
attempts is bounded, one at a time; the timeouts keep the proportions of the local
system's, rounded up to units, and the diagnostics are the longest that fit the
lease, the next longer, and the longest there are. In `Bootstrap` three faults allow a call to be given up and handled
late, its retry to be lost, and the process to die; two attempts allow two
instances of a service. In `TeeWriter` a write of 3 bytes overflows a buffer of 2
by itself and two of 1 fill it. In `Cluster` three machines on two addresses make
two share one, which is when the table goes wrong; five samples are not divisible
by two. In `Rpc` three calls are two of one client and one of the next, or a stream
that outlives its client; the two plain calls are symmetric. In `Provision` the
second driver races for the file and a certificate expires while the clock still
goes, so that a driver may be refused twice in a row; the sizes are those around one slice and around 25, where `sliceConfig`
changes its rule. In `Diagnostics` two CPU profiles share both profilers, and only one of them
(`Singles`) may have an address; the other requests have nothing in common. In `Stats` two calls contend for every node. The
safety properties are all proved without these bounds, some under a hypothesis
that is named under Proofs.

Deadlock is checked for `Machine`: the only states without a step would be ones
where nobody can call, wait or cancel. It is not for the others, where a system
in which every process is dead, every call done or every byte written has stopped
for good.

Fairness is weak fairness of what the code's scheduling, its timeouts or another
module's theorem guarantee, and of nothing else.

* `Machine`: the steps of `loop`, of the setters, of a call that is not inside an
  RPC and of the tail goroutine, as goroutines run; the upload of a binary is not
  fair, because `exec` gives it no timeout, and callers' RPCs end only if their
  context does.
* `Keepalive`: time passes, the watchdog runs, and a late attempt is in the end
  accepted or dropped.
* `TeeWriter`: the goroutines of the package run; a sink's own writer may block
  for ever, except under the hypothesis `SinksKeepUp` of `LastByteDelivered`.
* `Cluster`: the program, `Start` and `Shutdown` run; a machine begins to start; a
  `Running` machine with nothing at its address stops (`DetectsDeath`). A machine
  need not leave `Starting`, since the upload has no timeout; nobody crashes, and
  no process ends, by fairness.
* `Provision`: the calls to EC2 are bounded by their waiters, systemd goes on, and
  the watchdog ends a process without keepalives.
* `Diagnostics`: handlers go on, a call to a machine that runs or has stopped
  returns, one to a machine that is starting only if it has a timeout of its own,
  and the timer of a CPU profile fires. No machine changes its state by fairness.

`Bootstrap`, `Rpc` and `Stats` are checked for safety only.

## Refinement

`ImplementsLifecycle` is the abstract `Lifecycle` with its fairness, under the
mapping `L` in `Machine`: TLC checks it, liveness included, on the instance, and
`Refines` in `LifecycleProofs` proves its safety part for any number of callers
and waiters: initial states map to initial states, and every step of the loop, the
setters, the calls and the waits is a step of `Lifecycle` or a stutter. It holds
for a machine without an OOM monitor; with one `Lifecycle` is violated, which is
what `machine_state_goes_back` shows.

## Proofs

The theorems hold for every value of the constants that satisfies the named
`ASSUME`s, which say that counts are naturals, that names do not collide and that
sets are finite where their size matters.

| Module | Theorems | Inductive invariant |
|---|---|---|
| `MachineProofs` | `TypeCorrect`, `StopCancelsCalls`, `StopHasErr`, `WakeupsKept`, `ClosedOnce`, `LoneLoopMonotonic` | `CallInv` (a client in an RPC has a canceled context or a registered canceler, and a stopped machine has no canceler left), which `context` and the critical section of `setState` together maintain; `ErrInv` (`m.err` is set before `Stopped` is on its way to `m.state`); `WaitInv` (a blocked goroutine's channel is in `m.waiters`, collected by a setter, or closed); `CloseInv` (it is in one of these places only); `LoneLoopInv` (where `loop` is determines the state) |
| `LifecycleProofs` | `Refines`, `WaitAndCallHonest` | those of `MachineProofs`, `WakeInv` (a channel is collected or closed only when its state is reached), `SimInv` (what a call knows of the state) |
| `SupervisorProofs` (`Keepalive`) | `KeepaliveTypeCorrect`, `WatchdogPrompt`, `GivesUpFirst`, `DeathDetected` | `AgeInv` (how old a call, an attempt and a reply can be); `SlackInv`, which adds up how much of the lease the driver can still use; `DeadInv` |
| `SupervisorProofs` (`Bootstrap`) | `TypeCorrect`, `ImageConfigured`, `OtherProgramReplaced`, `InitializedWhenRegistered` | `ConfInv` (a binary reaches the boot process, at once or late, only after the environment and the arguments); `TryInv` (the attempts to register the current service are numbered up to the current one, and those of later services have not begun); `ServedInv` (what has been registered is served, has an initialised instance, and the process that took it is the uploaded one) |
| `RpcProofs` (`Rpc`) | `TypeCorrect`, `OkIsRun`, `NetErrorIsLocal`, `ErrorsReach`, `FailedClientDropped`, `IdleIsReclaimed` | `RpcInv`: `ClientInv` (client, connection, request and response come in this order), `ServerInv` (the response agrees with what the method returned), `ResultInv` (the result with the response) |
| `RpcProofs` (`Stats`) | `NoCountLost`, `LongestKept` | `StatsInv`: `StatsTypeOK` (the edges are a tree), `WalkInv` (a call is on its path and what it has left completes it), `MutexInv` (who is between `Lock` and `Unlock` of a node is alone there, and the child it is about to make is missing), `CountInv`, `TopInv`, `RaceInv` (of calls between comparison and `Set` only those that raced can lower the maximum), `MaxInv` |
| `ProvisionProofs` | `TypeCorrect`, `StorageFits`, `MountedFirst`, `NothingLaunchedTwice`, `TrustsItsDriver`, `RefusedOnlyExpired` | `ProvisionInv`: `AuthInv` (a driver that is through `Init` has an authority and keeps it; a local driver's file has it), `OwnerInv` (batches and machines are the driver's own), `RunsInv` (an instance that has begun its script powers off rather than boots again), `PlanInv`; `ClientInv` (a local driver keeps no client for an instance that has just refused it); lemmas about `sliceConfig`, the devices and the units for every data space |
| `ClusterProofs` | `TypeCorrect`, `DialsShare`, `NoneForgotten`, `EstimateIsComplete` | `ClusterInv`: `LaunchInv` (what `system.Start` launched is nobody's until `B.Start` has it), `TableInv` (an entry is at its own address; a dialed machine is there with its goroutine, one for each address); `SampleInv`, which counts samples against the calls still out |
| `DiagnosticsProofs` | `TypeCorrect`, `ProfilerIsShared`, `NothingLeaks`, `ResponsesComplete` | `DiagnosticsInv`: `AskInv` (the calls a request can have where it is), `FileInv` (a body is open exactly while it is copied, a file exists exactly while its profile waits), `FdInv` (a descriptor is that of a waiting profile or of a failed copy), `OneProfiler`; `CompleteInv` (a profile that a request has was read to its end, a status has all three infos, and what was answered without an error lists what was gathered) |
| `TeeProofs` | `CanceledForwardsNoMore`, `BytesDroppedWhenFull` | `TeeInv` (types, what a sink has before `Tee` and after `cancel`, and that the bytes being written are the last ones); `RouteInv` and, from a cancel on, `Barred` (no byte written since is delivered, being copied, buffered, or in the hands of a writer that visits the sink); `FlowInv` (what is delivered, copied, buffered and held, in this order, has rising indices, and a full buffer follows every gap) |

Some theorems have a hypothesis the code does not always meet. The property
`DriverGivesUpFirst` of `GivesUpFirst` has it in itself: `FitsLease` is
`2*RpcTimeout + PauseOf(diag) + Timeout + Stall <= Lease`, which holds with the local
system's timeouts after a healthy reply and after diagnostics of up to 2m40s less
`Stall`, while they may take 6m25s. With EC2's it never does: its overall timeout
of 10 minutes is longer than the lease of 5, so a driver may still be retrying
when the watchdog has ended the process; `DeathDetected` says for how long.
`LoneLoopMonotonic`, `WaitAndCallHonest` and `Refines`
are about machines without an OOM monitor, so about all dialed ones.
`OtherProgramReplaced` (`RunsUploaded` and `ServicesServed`) and
`InitializedWhenRegistered` are about a boot program other than the driver's;
with the driver's own the first fails, see below. `BytesDroppedWhenFull` is about a
single writer: with two, a buffer that one of them holds can be overtaken by a
newer one of the other's. `LongestKept` leaves out a node where two calls were in
`max` at once, because the later `Set` may be the smaller.

`CanceledForwardsNoMore` is a temporal theorem that is not of the form
`[]Inv`: whenever a sink has been canceled and a byte is not yet written, that byte
is never on its way to the sink. It is proved from `RouteInv`, which makes `Barred`
true at that moment, and from the fact that `Barred` is preserved.

The paths of `Stats` have two or four names, so what the recursive function
`reached` yields for them is unrolled; no induction over paths is needed. The
lemmas about it are stated for any tree and hold of the tree before and after a
step. In the proofs about `TeeWriter` the effect of dropping and appending bytes is
worked out once, for any sequences (`Rising`, `Tight`), and then cited by each
action.

Only model-checked: liveness (`CancelStops`, the fairness of
`ImplementsLifecycle`, `OrphanExits`, `WriteReturns`, `LastByteDelivered`,
`MainEnds`, `OrphansTerminate`, `RequestsEnd`), which with
`ENABLED` is beyond the prover. Every other property of a passing run is a
theorem.

## What disagrees with the documentation

Two runs show it:

* `machine_state_goes_back`: "Machine states proceed monotonically"
  (`machine.go:52`). The monitor is started before `setState(Running)`; an OOM it
  finds at once stops the machine, and the loop then sets it `Running`. Besides,
  a stop by the monitor does not end the loop, whose later failure replaces
  `m.err`.
* `tee_write_blocks`: "Write is asynchronous" (`writer.go:54`); with two writers
  one can find the channel full again when it sends, and if the sink is stuck or
  canceled it never returns.

Others were met while modelling. The properties are worded so that they hold with
them, or the models leave them out:

* "The machine is stopped with an error of context.Canceled" (`machine.go:253`);
  during a keepalive it is stopped with an error that only has its text (451).
* The function `m.context` returns forgets the canceler and never calls it
  (`machine.go:547`): the derived context lives as long as the caller's.
* "the driver should call Keepalive again before replynext expires"
  (`supervisor.go:329`); the diagnostics of an unhealthy machine
  (`machine.go:483`) can take up to 6m25s (709, 730), and the watchdog then kills
  the process the driver is looking at. `DriverGivesUpFirst` says after which.
* The upload of the binary has no timeout (`machine.go:596`), so a machine may stay
  `Starting`; a `Shutdown` that calls it (`bigmachine.go:375`) and a request for its
  profile by address (`profile.go:126`) then wait as long.
* "We check at least that the error comes from the right place in the stack"
  (`machine.go:386`); a network error of any call of `exec` passes for that of
  `Exec`, and a local machine then runs without the upload, its arguments and its
  environment.
* "After registration, the service is also initialized" (`supervisor.go:118`); a
  retried registration initialises a second instance and the server keeps serving
  the first, whose `Init` may be running or have failed. `ServedIsInitialized` has
  this as its one exception.
* A method that returns an error and a stream sends the stream as the body of its
  590 response, which the client cannot decode (`server.go:275`).
* The idle connection of a stream outlives a client that was reset meanwhile
  (`client.go:107`).
* The server reads `requestBytes` before it has decoded any (`server.go:232`), so
  the statistic of `stats.go:59` is always 0.
* `HandleDebugPrefix` with another prefix than the usual breaks `pprofIndex`, which
  strips a fixed one (`bigmachine.go:276`, 313).
* `ContentType` tests for "profile" where `Marshal` has "profiles"
  (`profile.go:112`, 188).
* When the copy fails `filebuf.New` removes its file and does not close it
  (`filebuf.go:33`), as `NothingLeft` has it.
* The profile handler is said to gather "from all machines" (`profile.go:24`); a
  machine whose call fails is missing from the profile without a word of it, as
  `Complete` has it.
* "we always exercise the read path" (`authority.go:52`); an authority that was
  generated is used as it is and not read back, and an error of reading a file
  that exists is dropped.
* EC2's `Start` may return no machines and no error (`ec2machine.go:610`), which
  `B.Start` turns into an error; the retry for `RequestLimitExceeded` (553) is never
  taken, since `run` wraps the error it is tested for; beyond 25 slices the volumes have up to 24 GiB less than
  asked (661; 8375 of 8376), although `Dataspace` is said to be what is allocated
  (187), and `StorageMatches` says how much; a negative data space is converted to an unsigned one (713).
* `HTTPClient` is to return a client that can be used "to communicate from drivers
  to machines" (`system.go:43`). EC2's makes its certificate once (`ec2machine.go:891`):
  a driver that runs longer than it lasts cannot make new connections. The local one
  makes it for each client, and the RPC client keeps one for each address
  (`client.go:46`), so a driver is refused once, and its next call has a new one.
  `RefusedExpired` tells the two apart.
* `bigpi` divides the samples by the machines it asked for, and `Start` may return
  fewer (`bigpi.go:155`), as `EstimateComplete` has it.

## Not modelled

* Local and EC2 `Tail` and `Read`, the SSH session that `run` makes, and
  `readSshAgentKeys`: they pipe a command's output, and the concurrency of it is
  `TeeWriter`'s.
* `monitorSpotActions` only logs; tags, names and images are passed to EC2 as they
  are; the templates and the layout of pages and tables are text.
* `instances.go`, half of the repository's lines, is a generated table; CloudConfig
  has the classes of its entries that the code tells apart.
* `SystemEvent`, the rate limit of the RPC log, the counters of sizes and the ring of
  keepalive reply times are for logs and pages.
* `testsystem`'s `Wait`, `Index` and keepalive overrides, the regression programs
  and `ec2boot` are for tests or call `driver.Start` and nothing else.
* The cryptography of the authority, HTTP, TLS, systemd and EC2 are libraries and
  services: they are their outcomes.
