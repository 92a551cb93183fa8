# NetFusion in TLA+

Models of the parts of NetFusion whose correctness depends on order: readings,
cooldowns, locks, commands that fail half way, crashes, retries.  Every module is
translated from the Rust code (paths below are relative to `src/crates/`); each is
checked with TLC on a small instance, and every safety property and every refinement
that the runs check is also proved for all values of the constants with TLAPS.  `PROJECT.json` maps every definition to
the lines it stands for.

## The system

| component | state | operations | talks to |
|---|---|---|---|
| Interface scanner (`netfusion-core/src/discovery`) | the partial answers of the scan under way | five queries: links, addresses, routes, counters, details | netlink, `/proc`, `/sys`, `ethtool`, `iw`; the daemon stores the result in a shared list |
| Health monitor (`monitoring.rs`, `health.rs`, `HealthScore` in `netfusion-shared`) | smoothed score per interface, last byte counters, one last time | probe pass over the list, broadcast a `HealthUpdate` | reads the shared list; feeds steering and failover |
| Path steering (`routing/path_steering.rs`) | score cache, path of the traffic class, last decision | `on_health_update`, `reset` | fed by updates; broadcasts decisions |
| Bond manager (`bonding/manager.rs`) | bonds behind an async lock; kernel links and masters | `create_bond`, `delete_bond`, `update_membership` | `ip link` |
| Bond failover (`bonding/failover.rs`) | bad-reading counts, last announcement per bond | health update, interval tick | reads the bond map; broadcasts `FailoverTriggered` |
| Routing engine (`routing/engine.rs`) | list of managed routes; kernel routes and rules | add and delete route or rule | netlink, `ip` |
| Safe apply (`routing/safe_apply.rs`) | the phases of `execute`, a snapshot | validate, change, verify, commit or roll back | routing engine, `ping` |
| Tunnel manager (`tunnels/manager.rs`, `tunnels/wireguard.rs`) | configurations, tunnels, backoff, scores; kernel interfaces | add, start, remove, health check with reconnect | `ip`, `wg` |
| Relay (`netfusion-relay/src/server.rs`) | connection counter, a task per connection | accept, handshake, echo streams | QUIC peers |
| IPC (`netfusion-daemon/src/ipc`) | the shared list and configuration | one request and reply at a time per connection | TUI and other clients |
| Config watcher (`config_watcher.rs`) | the shared configuration | a reload task per file event | the file system; IPC writes the same store |
| State store (`state/store.rs`) | SQLite tables | bond state, events, health history, trim | disk |
| Balancers and QoS (`routing/balancer`, `qos`) | weights; in the kernel: routes, rules, an nftables table | compute weights, set up and tear down ECMP or packet marks, DSCP | `ip`, `nft`, `tc`; gateways from the scanner |
| Intelligence (`intelligence`) | readings, correlations | predict failures, adapt weights, report | none |
| TUI (`netfusion-tui`) | bounded buffers of samples and events | fetch loop, keys | IPC client |

Hard behaviours: one mutable path state fed by readings of many interfaces; stale
scores; `await` points inside operations that hold or do not hold a lock; sequences
of external commands each of which can fail; kernel state that outlives the process;
retries with backoff; loops that must not be held up by one peer or one interface.
`netfusiond` itself wires only scanner, IPC server and config watcher; monitor,
steering, bonding, tunnels and safe apply are library components, modelled with all
calls their interfaces admit, made as their own loops make them.

What makes each correct, in a sentence: the steerer's decision and path agree, and a
switch has a reason; bonds own their links and keep their members; announcements are
spaced and not lost; a rollback takes back what was added and nothing else; the manager
keeps nothing of a removed tunnel (a kernel link whose deletion fails outlives it) and
attempts to recreate a lost one; scores follow readings and no
interface starves; the steerer knows what the monitor knows; a scan shows each
interface its own data; the balanced set is the route in use, and a teardown leaves
nothing behind; a prediction needs two indicators; the relay bounds its tasks and
answers every peer; a reply answers what was asked.

## Modules

* **PathSteering** - one action per outcome of `evaluate_steering` (no viable path,
  initial assignment, cooldown, degraded reading counted, failover, switch, keep),
  `Reset` and the clock.  `path_states["default"]` is split into its fields, the
  interface `NoIface` standing for the empty map.  The bufferbloat branch of the code is
  unreachable (its condition implies the one before it) and has no action.
* **Bonding** - `create_bond` in its steps (link, enslave each member, insert),
  `delete_bond` in its steps under the lock, `update_membership` as one step, two
  callers interleaving, commands failing wherever the code only warns, crashes.
* **BondFailover** EXTENDS Bonding - the engine over the same map: its counts, cooldown
  stamps and announcements.
* **SafeApply** - routing engine and `execute` together: the kernel's routes and rules,
  the managed list, the phases.  `stuck` routes are those the kernel refuses to
  delete; `before` and `touched` are history for the properties.
* **Tunnels** - the four maps of the manager and, per name, the kernel interface and
  whether a handshake was seen.  `CheckHealth` is the whole check: scoring and all its
  reconnections, which the code runs without an `await`; `failing` are the tunnels whose
  questions go wrong (`ip link show` that does not start, `wg show` that fails), which the
  code scores 0 and recreates like those that are down.
* **HealthMonitor** - the probe loop with scoring.  `to_probe` is the part of the pass
  still ahead while the read lock is held.  f64 scores are integers of `0 .. Full`
  rounded down; u8 sums wrap as in a release build.
* **Relay** - accept loop and connection tasks.
* **IpcServer** - the daemon behind its socket: the list the rescan replaces and the
  task of one connection.  bincode is external: `CodecResults` says what its calls
  can return.  The requests are the four that the TUI sends; nothing in the repository
  sends the others.
* **Console** EXTENDS IpcServer - client, fetcher task (`fetch.at` is the `await` it
  stands at), update channel and the main loop with its three branches, one action
  each.  Keys come as they like; those of the Logs tab only mark dirty, since nothing
  fills the buffer they scroll.
* **MonitoredSteering** EXTENDS HealthMonitor and instantiates PathSteering, joined by
  `pending`, the updates the steerer's broadcast receiver has not taken yet.  A probe
  appends, `Deliver` runs one whole evaluation on the oldest.
* **SmoothedSteering** EXTENDS PathSteering - the abstract specification of that
  composition: one component, without monitor or channel, that smooths each raw score
  with the score IT cached last and evaluates it at once.  `SmoothedSpec` says that
  MonitoredSteering implements it, although there another component smooths, earlier,
  with a cache of its own, while older updates are under way.
* **Discovery** - the scan as five queries with the kernel changing in between, and the
  daemon's loop that replaces the list.  Links, addresses and routes are found by the
  kernel's index, counters and details by name: `NameToIndex` and `CollectDetails` look
  up who has the name at that moment.  The details of a link are three queries (ethtool,
  the driver, wireless data), each a step that may fail or find nothing; `NoEthtool` is
  the connection that fails and takes the first two with it.  A device keeps its name, and
  one that is up has an address and a default route.
* **Balancer** - weights, ECMP, packet marks and the nftables table.  `call` is the
  command loop of the call in progress (`todo` its remaining commands); `in_force` and
  `not_undone` are history for the properties.  Of `ip route` the model has what the
  kernel does: a replace hits the route of the same metric only, a delete without a
  metric the lowest metric whose first hop matches, and a route of several hops is
  dumped without an interface, so the scanner sees no gateway of it.
* **Predictive** - failure prediction on one interface, with the regression in integers:
  slope and r_squared are compared as fractions (`Rise / Denominator`,
  `Explained / Total`), which loses nothing but the float's rounding.  Readings are
  5 s apart, as the code assumes.
* **..._proofs** - the theorems: `Transport_proofs` of Relay and Tunnels,
  `Decisions_proofs` of Balancer and Predictive, `MonitoredSteering_proofs` of
  HealthMonitor and the composition, the others of the module they are named for
  (`BondFailover_proofs` with Bonding, `Console_proofs` with IpcServer).
* **MC...** - the instances TLC checks.  `MCTransport` has Tunnels and Relay, two programs
  that share nothing: a behaviour is of one of them.  Predictive needs none, its constants
  are numbers.

Interactions: BondFailover composes engine and manager; SafeApply composes flow and
engine; MonitoredSteering composes monitor and steerer and implements SmoothedSteering;
HealthMonitor includes the rescan of the daemon; Balancer takes its gateways from a
rescan of the routes it wrote itself.  Console composes TUI, client and server.  In PathSteering and BondFailover alone, readings
are arbitrary, which admits every behaviour the monitor has.

## Runs

| run | shows | bounds |
|---|---|---|
| `steering` | the five properties of `PathSteering` | 3 interfaces (current, best, a third), 4 scores around threshold and hysteresis, cooldown 2 |
| `bonds` | members conserved, links owned, announcements spaced and made | 3 bonds, two of which get one link name, shared members, 2 callers, 2 scores |
| `apply` | rollback removes what was added, touches nothing else; `execute` ends | 2 routes, 1 rule, 3 changes: add, delete and re-add are possible |
| `transport` | tunnels: maps consistent, backoff reset, a lost tunnel is attempted; relay: never more connection tasks than slots, every dial is answered | 2 tunnels, one reconnecting, delays 1, 2, 3 (the maximum cuts the doubling); 3 peers, 2 slots: full, and one waiting |
| `tunnels_forgotten` | (violation) a tunnel whose reconnection failed is never attempted again | the same |
| `console` | replies answer what was asked, selection in the list, nothing undrawn, a refresh ends | 2 interfaces, channel of 4 as in the code, a codec that may fail anywhere |
| `monitor` | scores in range, throughput never understated, no starvation | 2 interfaces, scores 0 to 4, weights of sum 100 and 300 |
| `steered` | the steerer's cache is the monitor's, a failing path is left, the composition implements SmoothedSteering | 2 interfaces, 3 scores, 2 updates waiting (one in evaluation behind, one newer of the same interface) |
| `steered_down` | (violation) traffic stays on an interface that is down | the same, 1 update waiting |
| `balancer` | the set in force is the preferred route, teardown removes it, rules are taken back, shares are fair | 3 interfaces of which 2 have gateways, scores 0 and 60, host routes at metrics 0, 100 and 600, 3 marks, 2 setups in a row |
| `discovery` | no inherited counters, one entry per index, the list becomes right | 3 devices: a modem that can be replaced under its name by one without a gateway, and an Ethernet card; `StatesOf` bounds the states of each (down and routed, on-link, routed) |
| `predict` | the regression is least squares, two indicators before acting, the window slides | 3 values, windows of 2 and 10, up to 11 readings: the 10 that anomaly and acceleration need, and one more |

Bounds: `consecutive_degraded`, `bad_readings` and all ages stop at the value above
which the code no longer tells them apart; `MaxChanges` bounds the caller's engine
calls.  A time of `Horizon` or more counts as `Horizon`, in the one clock of the code and in
the history of each interface alike, so rates over longer times are not told apart.

Deadlock is checked everywhere but in the console run, where the program may have quit
and the daemon stopped.

The `MaxReadings` and `MaxSetups` bounds only cut longer histories; `MaxPending` stands
for the 1024 updates a broadcast channel holds before a slow receiver loses some, which
the model does not let happen.  The run compares the fit with its definition for up to
six points, since the products outgrow TLC's integers; `LeastSquaresHolds` is about
every length.  `Ignored` is empty in the run; ignored names are left to the theorems.

Two runs expect a violation of a sentence in the repository.  The steerer makes "autonomous
routing decisions when" (`routing/path_steering.rs:9`) "An interface's health drops below
a configurable threshold" (line 10).  `steered_down` shows it never doing so for an
interface that goes down: `probe_interface` returns at `monitoring.rs:191` without an update, so the last good
score stays cached and no evaluation ever looks at another.  `FailingPathAbandoned` is
the same promise for an interface that stays up, and holds.

The other sentence is "Reconnect on failure." (`netfusion-shared/src/config.rs:357`, of
`auto_reconnect`).  `try_reconnect` drops the tunnel object before it recreates it
(`tunnels/manager.rs:285-289`); when that fails the name is no longer in `wg_tunnels`,
which are all that `check_health` looks at.  `tunnels_forgotten` shows
`FailedReconnectRetried` violated: the delay that was doubled for the next attempt is
never waited for.  What the code does keep is `DownTunnelAttempted`: a held tunnel that is
down is attempted, whatever losses it had before; the failure of an attempt is what the
property exempts.

Observed while modelling; the models have all of it, as the code does:

* Relay: `max_connections` is "Maximum concurrent client connections."
  (`netfusion-relay/src/config.rs:26`), but the counter never goes down, so after that
  many accepts in all every peer is turned away.
* Safe apply: "Rollback to the previous state." (`safe_apply.rs:152`) restores neither
  deleted routes nor rules, and reports success.
* Tunnels: the delay never doubles more than once, since one failed attempt is the last.  A
  handshake of any age counts as healthy, and a working tunnel that could not be asked is
  torn down and recreated.
* IPC: the protocol's enums are internally tagged, which bincode 1 cannot decode; the
  server drops what it cannot decode and the client waits without a timeout, so the
  TUI's fetcher polls once and never again.  `console` admits every result a codec can
  have, this one included.
* Health: `failover_candidate` compares the new score with itself
  (`monitoring.rs:220-227`) and is never set.
* Steering: the hysteresis is measured from the score at assignment time, so a path that
  has improved since is left for one hardly better, and one that has got worse is kept.
* Bonds: bad readings are counted and the count is never asked; `failover_active` is
  never cleared, so a bond is announced again after every cooldown; with equal scores
  `update_membership` fails over on every call; a link whose deletion failed blocks its
  name for ever.
* ECMP: several hops are written at metric 0, a single one at 100.  When a set shrinks to
  one interface the old set stays and stays preferred; `BalancedSetPreferred` therefore
  speaks of sets of several hops.  Once such a set is up the scanner finds no gateways,
  so the next `generate_routes` is empty.  A teardown can delete the host's own default
  route.
* Packet marks: the marking ruleset is not valid nftables syntax, a refusal is only
  logged, and the routing tables the rules name are never filled.  A second setup doubles
  the rules.  `teardown_balancing` and `remove_dscp` delete each other's chains.
* Discovery: a default route without gateway is listed with the gateway `""`; details
  may be those of a successor of the same name until the next scan.
* Prediction: a steady decline alone reaches a confidence of 0.5 and is never acted on at
  the threshold of 0.6; an outlier upwards counts as an anomaly.
* Config watcher: it spawns its reload from a thread without a runtime, which panics.
  TUI: fetch errors are stored and never drawn, and it loads for ever when no daemon
  runs at its start.

## Fairness

Only loops and clocks are fair, never the environment.  The monitor ticks and pings
have two timeouts, so probes end and updates reach the steerer (weak fairness per
interface, any score; in MonitoredSteering of the probe, of the delivery and of the clock);
the rescan goes on and its queries return, with whatever result; clocks advance; the tunnel check runs every ten seconds; the
accept loop takes attempts in arrival order; tokio runs ready tasks and `select!` picks
among ready branches at random, so the fetcher, the connection task and each branch of
the main loop go on; `execute` goes on because every command
in it ends.  `IntervalTick` of the bond engine is strongly fair: deletions take the
lock again and again, and tokio's lock queues its waiters.  Callers of a bond
operation go on (weak fairness of the commands that hold the lock).  Nothing assumes
that users call anything, that peers answer or that commands succeed.

## Proofs

`PathSteering_proofs` proves, for all interfaces, scores, thresholds and cooldowns
allowed by `SteeringAssumption`:

* `TypeCorrect`: `Spec => []TypeOK`
* `DecisionCorrect`: `Spec => []DecisionMatchesPath`
* `CountCorrect`: `Spec => []DegradedCountConsecutive`
* `SwitchesJustified`: `Spec => SwitchJustified`
* `ScoreRises`: `Spec => ScoreToBeatRises`

The argument: `IInv` is the three invariants and the fact that the current path is one
of the scored interfaces, which `DegradedCountConsecutive` and the reading of
`health_scores[active_interface]` need and which none of the three says.  `StoreProperties`
and `BestIsViable` say what the cache and the choice of the best give; `TakePathInv` says
that writing a path re-establishes the invariant and is used for the assignment, the
failover and the switch; `HealthUpdateInv` has one step per outcome.  `SwitchesJustified`
follows from the invariant and `StepJustified`, which looks at one step.  `ScoreRises` is
the step argument of `NoEndlessFlapping`: the hysteresis is measured against the score at
assignment, so between failovers and resets every switch raises the score the next one
has to beat by more than the hysteresis, and no sequence of reports makes it go round.

`MonitoredSteering_proofs` has the monitor's theorems and those of the composition.
`MonitorTypeCorrect` rests on `ComputeType`, `EmaType` and `MbpsType`: a probe yields a
score of `0 .. Full` although sums of weights wrap and counters fall.
`ThroughputCorrect` needs that the shared `last_time` is never older than an interface's
own last reading (`ElapsedLeast`), which is what makes a throughput too large and never
too small.  `CacheCurrent` says nothing of an
interface with an update under way and is not inductive; `CacheInv` adds that the newest
such update carries the monitor's score.  `ImplementsSmoothed` is the refinement: a
delivery maps to one `Reading` of SmoothedSteering, every step of the monitor to a stutter.
It needs more than `CacheInv`, since a score was smoothed before the updates ahead of it
were evaluated: `ChainInv` says that the updates of an interface are a chain, each smoothed
with the one before it and the first with the score the steerer caches.  A probe appends a
link (`ChainProbe`, where `CacheInv` ties the monitor's score to the end of the chain), a
delivery takes the first off and moves the cache along (`ChainDeliver`).  From `CacheInv` follows also `SwitchesCorrect`: every switch
is right by the monitor's own smoothed scores (the new path viable, the old one not or
worse by more than the hysteresis), unless an update of that interface still waits.

Three theorems are about the monitor's arithmetic.  `SmoothingCorrect`: a probe leaves the
smoothed score between what it was and what was measured.  `ScoreMonotone`: readings that
are no better in any respect never score higher, for any weights, also those whose sum
wraps around 256; the weights are the same on both sides, and each component is monotone
(`PartMonotone`).  `CandidateNeverSet` proves a defect for every threshold:
`failover_candidate` is never true, because `monitoring.rs` (208-226) stores the new score
before it reads the previous one.

`BondFailover_proofs`: `TypeCorrect`, `MembersCorrect`, `LinksCorrect`, `SpacingCorrect`,
`MastersCorrect`.
`LinkOwned` speaks of bonds in the map and of creating tasks, and is not inductive: a
deleting task has taken its entry out of the map while its link still stands, and a
create in that window must fail because of it.  The invariant `LinksHeld` therefore
counts deleting tasks among the holders of a link, which are all different and whose
link exists; `delete_bond` moves the link from the map to a task, `InsertBond` from a
task to the map, and only `DeleteLink` lets go.  `Stamped` gives the spacing: what the
engine remembers of a bond's last announcement is what subscribers saw of it, through
evaluations of both kinds, steps of the clock, and crashes, after which engine and
subscribers start anew.  For `MembersConserved`, the lemmas on `Without` say what
`retain` keeps: its result is injective and has every member but one.  `MastersCorrect`
(no interface is enslaved to a link that is gone) needs `LinksHeld` again: a create that is
still at work on its members would otherwise enslave one to a link another call deletes.

`Discovery_proofs`: `CountersCorrect`, `TypeCorrect`, `QuietScanExact`,
`RightListStays`.  The invariant says that a listed device had appeared by the time its
counters were read, so a device that takes a name over later has another index, which is
not in the list of links.  `ScanTyped` says in which order the queries come, which the
types of the partial answers depend on.  The last two are the safety half of
`ListConverges`, for behaviours in which from some moment between two scans no device
changes and no query for the list fails: `ScanFaithful` says that each partial answer is
then true of the present devices, so what is published is right.  Detail queries may go
on failing; details are then missing, and of no other device.

`SafeApply_proofs`: `TypeCorrect`, `ListCorrect`, `RollbackComplete`,
`RollbackHarmless`.  While `execute` runs, `SnapshotOfBefore`, `AddedAreListed` and
`OwnRoutesUnlisted` tie the list to the kernel's routes of before: whatever the changes
added is listed and not in the snapshot, whatever the snapshot or the host had is not
among what a rollback deletes.

`Transport_proofs`: for the relay, with any finite set of peers and any limit,
`RelayTypeCorrect` and `ConcurrencyCorrect`.  The bound on live connections is not
inductive, since the code tests the counter and not the connections: `RelayInv` puts the
counter between the two, and `GotoLive` says which steps make an attempt live.
`RelayRunsDry` proves what the missing decrement (`server.rs:160`) does: after
`max_connections` accepts no attempt becomes a connection again, whatever ends.  For the
tunnels `TypeCorrect`, `MapsCorrect` and `BackoffCorrect`; the three together are
inductive, one lemma per operation of the manager.  `CheckActs` is the step behind
`DownTunnelAttempted`: the first `check_health` that finds a tunnel down, a tick or more
after its last attempt, attempts to recreate it, as a tunnel that is held has the shortest
backoff.  `FailedNeverRetried` is why `FailedReconnectRetried` is violated, for any tunnels
and delays: once an attempt has failed, no check changes anything about the tunnel.

`Console_proofs` proves, for any channel capacity, list length and codec, `TypeCorrect`,
`SelectionCorrect`, `RepliesCorrect` and `NothingUndrawn`.  `ReplyIsForRequest` needs
`ClosedStreamEmpty` (a fetcher that gives up on a closed stream leaves no request
behind), the types need `SendsSomething`; one lemma per actor (`ServerInv`, `FetchInv`,
`MainInv`) has one step per action.

`Decisions_proofs`, the balancer: `TypeCorrect`, `SetCorrect`, `TeardownCorrect`,
`RulesCorrect` and `SharesCorrect`.  The second and third rest on the set being at metric
0, the least there is, and on teardown deleting the least metric of a matching first hop;
the fourth on the remaining marks of a teardown accounting for the rules above
`not_undone`, and it assumes `Cardinality(Ifaces) <= LastMark`: the 16 of the code's loop
is not tied to the number of interfaces.  The last needs a theory of sums: rounding moves
each share by less than one part and the least weight adds at most one, so the sum of any
number of shares is within one part for each of its total.

`Decisions_proofs`, the predictive engine: `PredictiveTypeCorrect`, `FitCorrect` and
`DeclineCorrect`, for all readings, windows and thresholds.  They rest on theorems about
every sequence of integers: `LeastSquaresHolds` shows the normal equations and the split of
the squares, `DenominatorPositive` that the slope never divides by zero.  From the
latter comes Cauchy's inequality (`ExplainedBounded`: r_squared is at most 1), so that a
trend carries at most half of the confidence and no indicator alone the threshold of 0.6
(`TwoIndicators`).  That something really fell (`FallHasDescent`) is Chebyshev's inequality
(`AscendingRise`): of readings of which none is below the one before it the slope is not
negative.

The sums are folds of the community modules, for which there is no library of theorems.
`SumUnfolds` gives each its recursion on the subsets of its domain, and `SubsetInduction`
(a family of subsets that has the empty set, and each set if it has it less one element,
has them all) replaces the library's induction rules, which take an operator as parameter:
it is stated with a set for the property, and proved by a smallest counterexample.
`SumClose`, `SumType` and `SumLinear` follow from it.

Only model-checked: liveness (`NoEndlessFlapping`, `DegradedPathAbandoned`,
`FailingPathAbandoned`, `FailoverAnnounced`, `ExecuteEnds`, `RefreshEnds`,
`DownTunnelAttempted`, `EveryDialAnswered`, `UpInterfaceReported`, `ListConverges`), since
fairness and ENABLED are out of the prover's reach.  What is proved of `NoEndlessFlapping`,
`DownTunnelAttempted` and `ListConverges` is what a step or an undisturbed stretch does
(`ScoreRises`, `CheckActs`, `QuietScanExact`); that the steps come is fairness.  No module uses RECURSIVE operators.

## Plan

Done, in this order: PathSteering and its proofs, Bonding and BondFailover, SafeApply,
Tunnels, Relay, HealthMonitor, IpcServer and Console, MonitoredSteering with the refinement,
Balancer, Discovery, Predictive, and the proofs of all of them.  Left:

1. BondFailover fed by the monitor, as the steerer is.
2. An atomic apply that SafeApply implements as long as the changes only add routes.
3. StateStore - bond state, events and health history across restarts.
4. Adaptive weights as operators against a reference definition.

## Not modelled

The configuration and event types, TLS and certificates of the relay, `tc` commands and
rendering keep no state.  The config watcher never completes a reload as it stands.
The state store is one SQL statement per call.  The statistics of analytics and the
adaptive weights are floating-point formulas.  The keyboard threads of the TUI are the
runtime's: Console lets every key arrive or get lost.  A broadcast receiver that lags by
more than 1024 updates loses some; MonitoredSteering bounds the updates instead.  Of the
WireGuard commands only the effect on the interface is modelled; of a ping its three
numbers; of a health score the overall value; of the nftables rulesets the chains.
