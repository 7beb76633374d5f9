# Verification of dockerized-lambda

TLA+ models, TLC configurations and TLAPS proofs for `dockerized-lambda`: a gateway
that gives each HTTP request a container with the lambda runtime, from a pool it
scales, tests, reaps and finally cleans up, and that runtime.

## 1. The system

| Component | State | Operations | Talks to |
|---|---|---|---|
| **QueueSet** `lambda-gateway/src/data_structure/queue_set.rs` | a `VecDeque` and a `HashSet` with the same members | `push_back`, `pop_front`, `clear`, readers | used by the port manager |
| **Port manager** `port/port_manager.rs`, `port/allocated_port.rs` | free ports (QueueSet behind a mutex), bounded release channel | `allocate_port`; `AllocatedPort::drop` (`try_send`); task `process_port_returns` | pool (calls), guards (channel) |
| **Host pool manager** `pool/pool_manager.rs`, `pool/host_instance.rs`, `pool/host_lease.rs` | `available_hosts`, `leased_hosts` under one async mutex; `shutdown_flag`; two bounded channels | `lease_host`; `HostLease::drop`; `HostInstance::drop`; tasks `process_host_lease_returns`, `handle_container_cleanup`, `reap_expired_hosts`, `run_scaling_policy`; `shutdown_all_containers` | Docker and port manager (calls), own tasks (channels, abort) |
| **Docker manager** `docker/docker_manager.rs` | none of its own; the daemon has containers with one published port each | create and start, stop, inspect, `GET /health` probe, list and stop all | the daemon, the runtime |
| **Pool configuration** `pool/config.rs` | constants | `validate` (never called by the program) | pool |
| **Gateway process** `main.rs` | which branch of `select!` ended | start, signal, cleanup | all |
| **Gateway HTTP server** `gateway/server.rs`, `error.rs`, `convert.rs` | one task per connection | `forward_to_lambda`: convert, lease with retry, forward under a timeout, return the host, read the body, map errors to statuses | pool (lease), lambda runtime (HTTP) |
| **Lambda runtime** `lambda-runtime/src/server.rs`, `handler.rs`, `lib.rs` | the listener's queue and the one connection being served | accept, route, parse, run the handler, answer | gateway's forwards and probes |
| **Hello lambda** `hello-lambda/src/` | none | a handler that echoes, fails or panics at random | runtime |
| **Models**, **tracing** | none | records; logging | |

### What is hard

* Every task suspends at awaits. `lease_host` reads `shutdown_flag`, then waits for
  the mutex; it takes the mutex a second time after a health wait of seconds.
  `return_host_internal` and the two spawners keep the mutex across Docker calls.
* Ownership is by guard: dropping a `HostInstance` sends its container for a stop
  and starts its port's way back in that order, by two different tasks, with
  `try_send` on bounded channels.
* A client that hangs up drops the future of its request at any await; shutdown
  aborts workers at any await. Docker calls in flight may or may not take effect.
* Lease entries exist before the guard that would release them (health wait).
* Shutdown overlaps all of it: the drain may time out with leases in use, and it
  counts leases, not requests.
* The gateway returns a host when the answer's head arrives, when its own timeout
  fires, or when its client hangs up; the runtime behind serves one connection at a
  time and learns of the last two only as a closed connection.
* A container may exit at any moment; a host once tested is leased without a probe.

### What makes it correct

* QueueSet and port manager: a port is in exactly one place; none is lost while
  the range fits the channel; a returned port is reused last.
* Pool: never more hosts than `max_instances`; one owner for each host, port and
  lease; a lease in use is the container it says; nothing is forgotten except where
  the code gives up on it; releases are processed; `min_instances` is restored;
  every call of `lease_host` is answered. Seen from outside: `LeasePool`.
* Shutdown: it ends, and unless something spoils it nothing keeps running.
* Gateway: the status tells whether the request may be repeated; no request runs
  twice; a lease lives as long as its use; two requests never wait for one
  container; every request is answered and a stuck handler gives its host back.
* Runtime: every accepted connection is served once, in turn, with an answer for
  what was sent on it, or learns that the process is gone.

`PROJECT.json` lists every hazard with its line and the properties on it.

## 2. Modules

| Module | Models | How it corresponds to the code |
|---|---|---|
| `QueueSet` | the two fields and the calls the program makes | `queue` and `set` are separate variables, so that their agreement is a result |
| `PortPool` | abstract: each port is free, held, returning or lost | `Acquire`, `GiveBack`, `Lose`, `Restore` |
| `PortManager` | the port manager in full | one action per critical section (none awaits inside); the task's `recv` and `push_back` are two actions with the port `in_hand` between them; the channel's `capacity` (the code's 1000) is any of `Capacities`, fixed when it is made |
| `MCPortManager` | a history variable for the rotation claim; fairness of the background task | |
| `SeqLemmas`, `PortManagerProofs` | lemmas and theorems | |
| `Docker` | the daemon: absent, created, running, exited; one published port; auto-remove | external; each action is what one call does; a health probe can only be answered by a container that is running on the port |
| `LeasePool` | abstract: each host is spare, leased to a request, returning or stray, at most `max_instances` of them; the phases of the process | what `lease_host`, `HostLease`, the background tasks and the shutdown do to a host's owner |
| `HostPool` | the host pool, its tasks, guards and the shutdown, over `Docker` and `PortPool`; implements `LeasePool` | see below |
| `MCHostPool`, `MCHostPoolShutdown` | symmetry; a history variable for what can spoil a shutdown | |
| `HostPoolProofs`, `HostGuardProofs`, `HostLeasePoolProofs`, `HostShutdownProofs` | theorems about `HostPool`: capacity and owners; ports, leases and containers; the refinement of `LeasePool`; the clean shutdown | |
| `Runtime` | one runtime server per container, the kernel's queue in front, any user's handler (hello-lambda's among them) | see below |
| `Gateway` | `forward_to_lambda` and its callers, over `LeasePool` and one `Runtime` server in every container | see below |
| `RuntimeProofs`, `GatewayProofs` | theorems about `Runtime`, and about the composed system | |
| `MCGateway` | symmetry | |

### HostPool

`pc[t]` names the await at which task `t` is suspended; an action is everything
from one await to the next. `lock` is the state mutex: a section without an await
inside needs it free, one with an await keeps it (places `port`, `create`,
`start`, `started` of a spawner, `inspect` of the return task).

| Code | Actions |
|---|---|
| `lease_host` | `LeaseHost` (flag read as false) → `LeaseAvailable` \| `MaxInstancesReached` \| `SpawnForLease` → spawn → `LeaseSpawned` → `HealthWait` → `MarkTested` \| `InvalidLease` \| `ContainerNotReady` |
| `spawn_new_host`, `create_container` | `AllocatePort`, `NoAvailablePorts`, `CreateContainer`, `CreateFails`, `StartContainer`, `StartRefused`, `StartReplyLost`, `NewHost` |
| `HostLease::drop`, a dropped request future | `DropLease`, `Cancel` |
| `return_host_internal` | `ReceiveLease` → `ReturnDrops` \| `ReturnTakes` → `InspectFails` \| `ReturnToPool` |
| `handle_container_cleanup` | `ReceiveCleanup` → `CleanupStops` |
| `reap_expired_hosts` | `ReapExpired` → `DropReaped` per host |
| `run_scaling_policy` | `RunScalingPolicy` → spawn → `ScalerAddsHost`, `NextRound` per round |
| `shutdown_all_containers`, `main` | `ShutdownSignal` → `Drained` → `AbortWorkers` → `CollectAllHosts` → `DropCollected` per host → `AllDropped` → `ListManaged` → `SweepStops` per container → `Exit`; `ListFails`, `ServerFails`; after the abort the workers only die (`ReturnDies`, `CleanupDies`, `ScaleDies`) |

Abstractions, each with its reason:

* `available_hosts` is a set: the deque's order decides which host is served, and no
  property depends on it.
* Container and lease names are taken again when nothing refers to them any more;
  the code's are unique, so this is only a way to keep the model finite.
  With no name left a creation fails (`CreateFails`), an error the daemon may
  answer anyway.
* Time is `expired` or not; the ticks of reaper and scaler may come at any moment,
  a drain timeout whenever the drain looks.
* The port manager is its abstract specification `PortPool` without `Lose`: the
  configured range in `main.rs` (8081..9000) is smaller than the release channel
  (1000), and `PortManagerProofs` proves `NoPortLeak` and the refinement.
* A refused start removes the container (auto-remove); a start whose reply is lost
  leaves it running, with nobody who knows it. A start that is cancelled leaves it
  created or running.
* A create, start or stop whose caller is gone takes effect at the moment it is
  abandoned, or never; the daemon may in truth carry it out somewhat later.
* `CONSTANT Events` names which of the environment's events an instance has.

### HostPool implements LeasePool

The mapping is `OwnerOf` (over `Owned`, the hosts whose entry a request has): a container in `available_hosts` is spare; one whose entry
belongs to a request (from the insertion before the health wait to the drop of the
`HostLease`) is that request's; one whose lease id is in the release channel or with
the return task is returning; an entry of `leased_hosts` that neither a request nor
the return path knows is stray. Hosts that the reaper or the shutdown is about to
drop have left the pool. `caller` is read off `pc`, `phase` off `sd_pc`. The mutex,
the channels, ports, Docker calls and reaping one host at a time are hidden.

`LeasePool` says what a caller may rely on: a spare host before a new one, never more
than `max_instances` hosts in all owners together, a host is leased to one request,
only `collect_all_hosts` takes it away, the drain ends with every host spare or by
its timeout. `NoLeaseLost` sharpens the `stray` alternative of `GiveBack`, which the
abstract pool allows at all times.

### Runtime

| Code | Actions |
|---|---|
| `run`, `run_sync`, `LambdaServer::start` | `Launch`, `Bind`, then `Accept` per connection; `AsyncHandler` tells `run` from `run_sync` |
| `handle_request`, `handle_health`, `handle_not_found` | `HandleHealth`, `HandleNotFound` |
| `handle_invoke`, `process_invoke`, `parse_request`, `error_response` | `ProcessInvoke` \| `InvokeRejected` |
| the handler and `build_http_response` | `HandlerReturns` with any of `Statuses`, `HandlerPanics` |
| `serve_connection` without keep-alive | `WriteHead` → `WriteBody`; `ClientLost` |
| process and kernel (external) | `Connect` (queued or refused), `HangUp`, `Die` (connections reset) |

`handler.rs:110-111` forwards whatever status the handler gives, so `Statuses` may be any
final ones, those that the runtime gives itself included: the tests' `routing_handler`
(`tests/usage/fixtures.rs:64`) answers 404 to an `/invoke` it has run. (1xx are left out:
hyper sends none as an answer.) A 404 by itself therefore tells a client nothing;
`AnswerTruthful` says what a status means for what was sent, and that the handler ran
once for a request that was answered by it and never otherwise.

A request arrives whole or not at all; one that is in the kernel's queue is served
even if its client has gone, because its bytes are there. A blocking handler notices
nothing until it returns. A panic ends the process: the accept loop runs in `main`'s
own task, and nothing catches the unwinding.

### Gateway

| Code | Actions |
|---|---|
| `handle_request`, `http_to_lambda_request` | `HandleRequest` → `Convert` \| `ConvertFails` |
| `lease_host_with_retry` | `LeaseHost` \| `ShuttingDown` → `GetHost` → `HostReady` \| `LeaseRefused` \| `ContainerNotReady` (three attempts) |
| the forward under `request_timeout` | `Forward` → `ReturnHost` \| `ForwardFails` \| `TimesOut` |
| `drop(host_lease)`, `body.collect` | `ReturnHost` → `Respond` \| `BodyFails` |
| a dropped connection of a client | `ClientHangsUp`, at any await |
| `GatewayError::status_code` | `status_code` |
| pool tasks, shutdown, end of the process | `PoolStep`, the steps of `LeasePool` |

`Gateway` uses `LeasePool` where the code calls `HostPoolManager`, which is justified
by the refinement. A container may be stopped as soon as it has no owner, and may
crash or panic earlier. That the port of a lease leads to the leased container is
`NoMisroute` of `HostPool`. A health probe is reduced to "the runtime listens": it
is sent only to hosts that have never been forwarded to, so it meets an idle server.
Bodies, headers and methods are not kept; an answer is its status.

## 3. Runs

| Run | Shows | Bounds |
|---|---|---|
| `ports` | conservation, no loss while the range fits the channel, rotation, return of ports, refinement of `PortPool` | 4 ports, channel 4 or 2: with 4 the channel can be full and ports in all places at once; with 2 two drops can fail |
| `pool_faults` | ownership of hosts, leases and ports; no misroute; leases and containers are lost only where the code gives up; refinement of `LeasePool` | 2 requests, max 2, min 2 (the scaler has rounds of two spawns), 2 ports, 3 containers, channels of 2: with crashes, hang-ups and every Docker failure; a port conflict with a container still to be stopped and a full cleanup channel are reachable |
| `pool_shutdown` | capacity with `PoolInv`, ownership at any moment of any shutdown, an unspoilt shutdown leaves nothing running, refinement of `LeasePool` | 1 request, max 1, min 1, 2 ports (one more than hosts, so that the limit and not the ports decide), 3 containers, 2 lease ids, all shutdown events |
| `pool_liveness` | calls answered, releases processed, minimum restored | 2 requests contend for 1 port and max 1, with crashes and expiry |
| `drain_timeout` | shutdown ends although a cancelled request leaked its lease, or the final listing fails | 1 request, 1 port; also the failing server |
| `runtime` | no connection lost, truthful answers, nobody starves | 1 server, 3 clients: one being served, two queued; every kind of request; blocking handler that may panic and answers 200, 404 or 500; hang-ups and kills |
| `gateway` | statuses mean what they say, no request runs twice, leases live as long as their use, one forward per host | 2 requests, 2 containers, max 2; handlers answer 200, 404 or 500; hang-ups, crashes, panics, shutdown with drain timeout |
| `gateway_liveness` | requests answered and hosts freed although a handler never returns | 2 requests, 1 host, so that one must follow the other; hang-ups, crashes, panics |
| `late_lease` | **violated** `NothingLeftRunning`: a call that read the flag before the signal starts a container after the sweep | |
| `cancel_leak` | **violated** `LeaseAccounted`: "leases will be automatically released when the HostLease goes out of scope" | |
| `drain_gap` | **violated** `DrainWaits`: the drain ends while a request still reads its answer's body, and the container is stopped under it | no drain timeout, so the drain itself is what ends |
| `no_keep_alive` | **violated** `KeepsAlive`: "HTTP/1.1 server with keep-alive support" (`lambda-runtime/README.md:11`), while `server.rs:73` sets `keep_alive(false)` and a connection ends with its first answer | 1 server, 1 client |

Why these bounds are enough to be interesting: two requests are the fewest that can
compete for a host, a lease id and the mutex; with one host the second depends on the
first's release; three container names let a dropped, a leased and a new container
meet. In `pool_faults` there are as many ports as hosts, so the limit of hosts says
nothing there; `PoolWithinMax` is checked in `pool_shutdown`, and proved; with one host there the
scaler never spawns twice under one lock, so that those rounds stay within the limit is
only proved. In `pool_shutdown` the drain may always time out, so that otherwise it ends
only when nothing is leased is only proved too (the refinement of `LeasePool`;
`drain_gap` runs without the timeout, over `LeasePool`). Names
are symmetric where no property tells them apart (never in a run with a liveness
property).

`CleanExit` says which shutdowns are clean: all in which the signal finds no call
between its look at `shutdown_flag` and its lock, the final listing works and each
of its stops succeeds. `spoilt` records the exceptions.

Facts a reader of the models meets, for which no run is kept because they need no
interleaving or are a choice of the code:

* `EveryClientAnswered` rests on `keep_alive(false)`: the accept loop serves one
  connection to its end, so with the advertised keep-alive (see `no_keep_alive`) one
  client that keeps its connection open would starve all others. `WriteBodyKeepAlive`
  is that mutant.
* `MinInstancesRestored` counts leased hosts as `run_scaling_policy` does, although the
  comment at `pool_manager.rs:94` speaks of available ones: a lease that is never
  returned counts towards the minimum for ever.
* When the server fails `main` returns without any cleanup (`ServerFails`).
* If the listing at shutdown fails, everything keeps running (`ListFails`): the
  cleanup task is aborted before the collected hosts are dropped, so the comment at
  `pool_manager.rs:426` ("Drop will handle container cleanup") does not hold.
* `InvalidLease` is reachable after a drain timeout, although the comment at
  `pool_manager.rs:177` says "This should never, ever happen".
* More than `max_instances` containers may run for a moment: a host leaves the count
  when it is dropped, not when its container is stopped.
* A request answered with 504 may still run afterwards, or be running; the gateway
  does not repeat it.
* `utils.rs` of hello-lambda says 2% panics and 8% errors in its comments and draws
  10% and 25%.

### Fairness

`HostPool!FairSpec` assumes: a task that can run is polled; Docker calls and health
probes end, as do requests that hold a lease (all have timeouts); steps that take the
mutex are strongly fair, because tokio's mutex serves waiters in order; the daemon
removes exited containers. Nothing forces requests, hang-ups, crashes, expiry,
signals or failures. The return task of the port manager is never aborted, so weak
fairness of it is enough there.

`Runtime!FairSpec`: the server's single task runs on, the handler returns or panics,
and a client that connected and sent nothing gives up in the end. The runtime has no
read timeout, so the last is needed; the gateway's clients justify it (5 s for a
probe, `request_timeout` for a forward).

`Gateway!FairSpec`: a request's future is polled and its timer fires, `lease_host`
returns (`LeaseAnswered` of `HostPool`), the runtime's task runs on. Nothing is
assumed of the user's handler. `RequestAnswered` starts when the request's
conversion does and assumes that the client finishes sending its body, which is read
without a timeout. Containers may crash or be stopped,
never must. The body of an answer is read without a timeout too; that it ends rests
on the runtime writing it in one piece, after the handler.

## 4. Proofs

All theorems hold for every value of the constants that satisfies the named
assumptions, which say only what the code's types and `validate` functions say, and
that the values standing for `None` and for places have names of their own.

**Ports** (`PortManagerProofs`, from `PortAssumption`: a finite range, a channel of
capacity at least 1):

* `TypeCorrect`, then `Conservation`: `PortConservation` is inductive together with
  the types. `SeqLemmas` supplies what `Append` and `Tail` do to the members and the
  injectivity of a sequence.
* `NeverLeaks`: if the channel is full when a guard is dropped, the ports in it and
  the one dropped are distinct members of the range, so the range has more members
  than the channel has slots (`FullChannelMeansLargeRange`).
* `Rotation` (`RotationGrace`), about `MCPortManager`: the ports a returned port has
  to wait for stand before it in the queue (`WaitsForTheFront`). `push_back` starts
  this, `pop_front` keeps it, and at the head there is nothing before.
* `Refinement`: every step is a step of `PortPool` or a stutter.

**Host pool** (from `PoolAssumption`: finitely many names, `min_instances <=
max_instances`, channels of capacity at least 1). One invariant builds on another:

* `PoolInvariant` (`HostPoolProofs`): `PoolInv` is inductive. `PoolWithinMax` alone is
  not: a host is added several awaits after the decision to add it. `LockHeld` says
  that the places between decision and addition are those of the mutex's holder, hence
  one task; `RoomKept` says what that task may rely on since it took the mutex (a
  request: nothing available and leases below the limit; the return task: a free slot,
  its own host's; the scaler: `scale_left` more fit). `LocalsSet` says which locals
  exist where. `PoolTypeCorrect` and `Capacity` (`PoolWithinMax`) follow.
* `Ownership`: `OneOwner`, with `SpawnsFresh` (a spawner's container is no host yet,
  and it has a port) and `CollectsOnce`. The proof reads `OneOwner` as a partition of
  the live hosts and shows what each action moves between its parts.
* `PoolUsesThePorts`: what the pool does with ports is a behaviour of `PortPool`, which
  `PortManager` implements. `HostPool` has no `Lose`; `NeverLeaks` is why that is
  enough when the range fits the channel.
* `GuardInvariant` (`HostGuardProofs`): `GuardInv` adds to these, in the order in which
  they depend on each other, `PortsUnique` (live hosts and the spawn under way have
  different ports, and exactly those are held), `TestedLive`, `QueuedGone` (a container
  queued for a stop is no host and nobody is starting it), `LeasesAlone` (a request's
  lease id is nobody else's and not on its way back), `LeasesHosted` (its entry is the
  host it was given, or gone after `collect_all_hosts`), `SpawnsOwn` and `RunsOwn`
  (what runs on a host's port is that host's container: the daemon publishes a port
  once, so the start that made the host excludes an older container, and a later one
  cannot start). From it `PortOwnership`, `LeasesBacked` and `NoMisrouting` (the
  properties `PortsOwned`, `LeaseBacked`, `NoMisroute`).
* `NoContainerIsLost` (`NoContainerLost`) needs `LocalsClean` besides: a task that is
  through with a container has forgotten it, so no stale local hides a loss.
* `LeasePoolRefinement` (`HostLeasePoolProofs`): `HostPool` implements `LeasePool`. The
  mapping needs `ReturnKept`: what the return task remembers names no entry, except
  while it waits for the mutex to remove it. `PlacesAssumption` says that no request
  is called like one of `LeasePool`'s places. `NoLeaseIsLost` (`NoLeaseLost`) needs
  `ReturnsKept`: a lease id is queued once and names an entry until the return task
  takes it; so at most as many are queued as there are leases, no more than
  `max_instances`, and a channel that large is not full when one more is dropped.
* `ExitsClean` (`HostShutdownProofs`, about `MCHostPoolShutdown`): `CleanExit`. Of an
  unspoilt shutdown, from the signal on nobody waits for the mutex to lease; once
  `collect_all_hosts` had the mutex nobody spawns and nobody will, the scaler being
  aborted; so what runs after the listing was listed; and the sweep ends when the list
  is empty (`ExitInv`). `GuardInvariant`'s lemma `OnlyStartsRun` says that only a spawner's
  start call makes a container run.

**Runtime** (`RuntimeProofs`, from `RuntimeAssumption`: `NoConn`, the code's `None`,
is no connection). `RuntimeInv` is inductive: besides the types, `HeldOnce` (a
connection is queued or served once, at one server), `Serves` (a server serves exactly
when it is not idle, and holds connections only while it listens), `Connected` (a
queued connection is untouched by the handler; the one being served is as far as the
server's stage says) and `Informed` (whoever has an answer was told the truth; whoever
waits is held somewhere). `CalledFor` bounds the handler's calls whatever the
connection's end is: once for an `/invoke`, never for anything else. From it `RuntimeTypes`, `NoConnectionIsLost`,
`AnswersAreTruthful`.

**Gateway** (`GatewayProofs`, from `GatewayAssumption`: those of `LeasePool` and
`Runtime`, which meet in the same names):

* `GatewayUsesThePool` and `GatewayDrivesTheRuntimes`: a behaviour of `Gateway` is one
  of `LeasePool` and one of `Runtime`. So what is proved of `Runtime` holds here, and
  `HostPool` may stand for `LeasePool`.
* `GatewayTypes`, `RetryIsSafe`, `HandlerRunsAtMostOnce`, `LeasesAreInUse`,
  `OneForwardAtATime` from `GatewayInv`: `RuntimeInv`; `CallerInv`, which ties `pc` and
  `on` to the pool's `caller` and `owner`, and says that two requests in a call or with
  a lease are never on the same container (`Sole`); and `Requested`, what each request
  has sent and heard by each place. A forward waits only while its request holds the
  lease of the container it waits at, hence `OneForwardPerHost`; a request connects
  at most once, hence `RunsAtMostOnce`.

Only model-checked: the liveness properties (fairness and ENABLED are out of TLAPS's
reach), namely `DroppedPortComesBack`, `LeaseAnswered`, `ReleaseProcessed`,
`MinInstancesRestored`, `ShutdownEnds`, `EveryClientAnswered`, `RequestAnswered` and
`HostFreed`. Every invariant and every action property of a passing run is proved.

## 5. Plan

1. Done: ports, Docker, host pool with shutdown, `LeasePool` and its refinement,
   runtime, gateway.
2. Done: every safety property that a passing run checks, as a theorem, the two
   refinements, and what ties `Gateway` to `LeasePool` and `Runtime`, and `HostPool`
   to `PortPool`.
3. Next: lemmas towards liveness that need no fairness (what a waiting task's way out
   is at each place).

Not modelled, and why:

* QueueSet's `clear` and its readers: `clear` is never called, the readers change
  nothing.
* The checks of `PoolConfig::validate` and `GatewayConfig::validate`: the program calls
  only the second, at start; the relations between `min_instances` and `max_instances`
  it demands are assumptions of `HostPool`. `lambda_startup_timeout` is configured and
  never read.
* Configuration defaults and which of the two signals arrived (`main.rs`); container
  options and labels (`docker_manager.rs`).
* Contents: headers, bodies, wording of answers and logs, tracing. The models'
  records have no behaviour.
* hello-lambda's probabilities and delays: its outcomes are choices.
