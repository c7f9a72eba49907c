# A TLA+ model of the CEX device plug-in for Kubernetes

The plug-in offers the crypto adapters (CEX) of an IBM Z or LinuxONE compute node
to containers. One process runs on every compute node. It announces the APQNs
(adapter, domain) of each config set as devices to the kubelet. When the kubelet
hands one of them to a container, the process builds a zcrypt device node and a
shadow sysfs for it, and it destroys both when no container uses them any more.

A second program, the exporter, runs once per cluster: it adds up what the
plug-in processes report and shows the sums to Prometheus.

This directory holds TLA+ specifications of both programs, TLC configurations
that check them on small instances and TLAPS proofs of their main safety
properties for all instances.

All paths below are relative to `src/cex-device-plugin/` unless they say otherwise.

## Inventory

| part | state | operations | hard behaviour | correct when |
|---|---|---|---|---|
| Allocate (`plugin.go`, `zcrypt.go`, `shadowsysfs.go`) | zcrypt nodes in the kernel, shadow directories on the host | Allocate: test, create, configure, build shadow, live link; undo on error | runs as a gRPC handler beside the pod lister without a lock; fails half way; the process dies half way | a container gets a configured node and a complete shadow, and keeps them |
| Pod lister (`podlister.go`) | `zcryptnodemap`, `sysfsshadowmap`, connection to the kubelet | doLoop: scan, List, refresh, sweep; connect | decides by age and by an answer that may be outdated or missing | nothing in use is destroyed, everything unused is |
| Configuration watcher (`cryptoconfigs.go`) | `cc`, `tag` under a read-write mutex | updateConfig, GetCurrentCryptoConfigSet | two reads of a file that changes; readers that poll | the active configuration is a verified one and follows the file; readers follow it |
| Verification and lookup (`cryptoconfigs.go`) | none | Verify, GetCryptoConfigSetForThisAPQN | quadratic comparisons with wildcards, one-way comparisons of lists | no APQN of a machine is in two sets; a change is seen |
| Device plug-in (`plugin.go`, `ap.go`) | `p.ccset`, `p.tag`, `p.apqns`, `p.devices`, `stopChan`, `changedChan`, `wgChChan` | Start, Stop, checkChangedLoop, checkChanged, ListAndWatch, Allocate | four kinds of goroutines share the fields without a lock; unbuffered channel; wait group | the kubelet is told the current devices; Stop returns and is final |
| Discovery and manager (`plugin.go`, the dpm library) | list of set names | Discover, NewPlugin | a blocking send between two loops of different pace | every set has one plug-in, no two claim one APQN |
| Metrics collector (`metricscollector.go`) | `csetmap` under a mutex | six notifications, doLoop | notifications from three components in any order, uses that end unnoticed, counters that cannot be read | counts match use, now and in the end |
| Exporter (`src/cex-prometheus-exporter/`) | per node data, cluster aggregate, gauges | handleConnection, updateClusterMcData, promLoop | two locks, handlers that overtake one another, expiry | gauges show the sum of the live nodes |
| Start-up (`main.go`) | none | main, getenvint | dies if the first steps fail | |

The parts interact as follows. The configuration watcher publishes a
configuration that each device plug-in polls. The device plug-in notifies its
ListAndWatch handler through `changedChan`. The kubelet calls Allocate for the
devices it was told of, and answers List with the allocations it has recorded.
The pod lister and Allocate meet only in the file system, where both see nodes
and shadow directories by name. Device plug-ins and pod lister report to the
metrics collector, which pushes to the exporter.

`PROJECT.json` lists the hazards of this code line by line, with the property
that covers each.

## Modules

| module | models |
|---|---|
| `ResourceLifecycle` | Allocate, zcrypt nodes, shadow directories, pod lister, and as environment the kubelet, crashes and time |
| `ResourceLifecycle_proofs` | theorems about it |
| `ConfigRegister` | what the configuration watcher promises: a register that follows the file |
| `ConfigWatcher` | the watcher and its readers; implements `ConfigRegister` |
| `ConfigWatcher_proofs` | theorems about it |
| `DevicePlugin` | one config set's plug-in with manager, handlers and kubelet |
| `DevicePlugin_proofs` | theorems about it |
| `MCDevicePlugin` | three configurations for TLC |
| `CryptoConfig` | verification, lookups, screening and the comparison of APQN lists as operators, beside what they are measured against |
| `ApqnScreening` | from the file and the AP bus to the devices of each set, over `CryptoConfig` |
| `ApqnScreening_proofs` | theorems: verification, lookup, screening and the comparison of APQN lists are exact |
| `MCApqnScreening` | configurations and hardware lists for TLC |
| `PluginManager` | Discover, the manager and the running plug-ins; composes `ConfigWatcher` and `CryptoConfig` |
| `PluginManager_proofs` | theorems about it, the watcher's carried over |
| `MCPluginManager` | configurations and hardware for TLC |
| `MetricsCollector` | the metrics collector with plug-ins, Allocate and pod lister as its callers |
| `MetricsCollector_proofs` | theorems about it |
| `PromExporter` | handlers, store, aggregate and gauges of the exporter |
| `PromExporter_proofs` | theorems about it |
| `MCPromExporter` | reports of two nodes for TLC |
| `Sums` | lemmas for the proofs: induction over numbers and finite sets, sums over finite sets |

An operator whose comment says *mutant* is no part of the specification: it is a
variant of the operator of the same name with a plausible mistake, and the
project checks that the mistake violates a property.

### ResourceLifecycle

`node[d]` is absent, bare (created, masks not all written) or ready; `shadow[d]`
is absent, partial, lacking (returned as complete without a live card's file, whose
error the code loses) or ready; `alloc[d]` is the stage of an Allocate call or
free or held. Each step of Allocate ends where the handler next touches something the
pod lister may destroy. `Abort` is an error return with its deferred
`zcryptDestroyNode`. The two maps of the pod lister hold an entry per device.
The code keeps two timestamps, but reads the first only while the second is
zero, so one age and a kind (unused, used) say the same. The pod lister's round
is `Poll`, `ScanNodes`, `ScanShadows`, `List`, the sweeps of nodes and of shadows
entry by entry, in any order, as Go iterates over maps.

The kubelet is external: it hands a device to one container at a time and
records the allocation after the reply, which is what makes List lag behind
Allocate. A fault is a crash of the process, a destroy the kernel refuses, a
directory that cannot be read, a live card's file that cannot be written, a
shadow that cannot be removed, or a failed call or connection to the kubelet.

`Tick` is one unit of a coarse clock. Two facts about real time are in its
guard: List's answer and the sweep after it fall into one unit (the sweep makes
no blocking call), and an Allocate call spans `AllocTime` units at most. The
only assumption on the constants is `AllocTime <= IfUnused`: an Allocate call
polls for udev for at most 6.4 s and `RESOURCE_DELETE_NEVER_USED` is never below 30 s.

`unknown` is no variable of the code: it records the devices for which the pod
lister had no entry when Allocate tested for the node.

### ConfigWatcher

A configuration is abstracted to the content of the file it came from; so is
the SHA-256. `ccGetTag` and the rest of `updateConfig` are two steps, because
the file is opened twice. `up` says that the initial update has succeeded; until
then a failure ends the process. `EditsDuringUpdate` is a parameter: whether the
file may change between the two reads. The mount is swapped by the kubelet at
any time, so TRUE is what the code meets; with FALSE the model shows what the
watcher guarantees when that race does not happen.

A file that cannot be opened (`Missing`) is noticed in `ccGetTag`, before the
lock, and the old configuration stays. `ConfigRegister` says so too: its register
changes with a content that is there. Only if the file vanishes between the two
reads (`MayVanish`) is the configuration lost. The documentation says it is
always lost; `config_missing` shows the disagreement.

### DevicePlugin

Hardware is a state per APQN. `filterAPQNs`' tests of machine id and card
generation are in the constant `Defs`. A config set is its APQNs and its
overcommit value: `-1` fresh from Verify, the limit after `checkChanged` has
adjusted it. `_overcommit` and `_livesysfs` are unexported fields that JSON
decoding never fills, so no other value occurs. `livesysfs` takes its values
together with overcommit. The set's object is shared between watcher and plug-in;
`new.same` says that the fetched set is `p.ccset` itself. That a plug-in made anew
for a configuration whose set its predecessor has already adjusted starts
with the adjusted value is left out.

`checkChanged` is four steps (`Fetch`, `Compare`, `AssignApqns`,
`AssignDevices`), since handlers and Stop read and write the same fields without
a lock. `Stop` is three steps: clear, close, return when the wait group is
empty. The send on `changedChan` is a rendezvous with a waiting handler. Handlers
of former kubelet sessions are counted in `stale`: they wait on the same channel
until the plug-in stops. `pending` is a tick that came while the loop was busy:
it lets the loop check once more after `stopChan` has been closed, as `select`
chooses among ready cases at random. A panic ends the process; `Restart` is
Kubernetes starting it again.

### CryptoConfig and ApqnScreening

`CryptoConfig` has a configuration as the sequence it is in JSON, definitions of
APQNs with their machine id, and the functions of `cryptoconfigs.go`, `plugin.go`
and `ap.go` that are pure: `checkapqns`, `Verify`, the lookups, `filterAPQNs`, `makePluginDevsFromAPQNs`, `apEqualAPQNLists`. Lists stay lists:
several of these functions compare one way and by length, which is right only if
nothing occurs twice. Beside them stand declarative definitions of what they
decide (`WellFormed`, `Eligible`). `Equal` is left out: the program compares
tags, and only tests call it. The generation of a card is a
number, and `GenBelow` is what the comparison of the strings `cex<n>` does to it.

The assumptions on the constants say what the inputs are: JSON decoding gives
lists of sets with the structure's fields, the definitions name machines of the
cluster or none, and a scan, which walks the directories of cards and queues,
lists an APQN once and shows generations of one digit.

`ApqnScreening` drives these operators: a file is edited, verified or refused;
the hardware changes; the plug-in of each set checks at its own pace. Goroutines
and tags are left to the other modules: each function is one step.

### PluginManager

The plug-ins are the readers of `ConfigWatcher`, but only those that run read.
`Discover` compares the names of the current configuration with those it
announced last; its send is a rendezvous (`Receive`) with the manager, which
then makes and starts plug-ins of new names and stops those of old ones, one by
one, while the configuration goes on changing. The manager is the dpm library,
external and modelled from how `plugin.go` uses it. Start succeeds and Stop
returns here; `DevicePlugin` has the other cases.

`hw` is what the AP bus shows and `apqns[r]` the list of a plug-in. `Check` is a
check of a running plug-in. With an unchanged tag it screens with the set it has.
Otherwise it fetches set and tag, and stores them if the list of APQNs changes; if
not, the code stores them only when the overcommit or livesysfs value differs,
which is so for a fresh object until a check has adjusted it. Which sets have been
adjusted is `DevicePlugin`'s subject: here a set that gives the same list is stored
or dropped, and fairness is asked only of checks that change the list
(`CheckOfChange`). A plug-in may thus keep an old set and an old tag for ever;
`RunningServeCurrent` says that the APQNs it serves are nevertheless the current ones.

### MetricsCollector

One action per notification, each a critical section under the collector's
mutex. A plug-in tells its APQNs and its devices in two calls, and what it
tells is out of date until its next check. Allocate may be called for devices the
kubelet does not yet know to be gone, and its reply may get lost. The pod lister
tells of running containers under the set that the configuration current at that
moment gives the APQN, which need not be the set whose plug-in allocated it.
Answers of the kubelet may be missing, any number in a row. Ages count units of a
coarse clock, while the code compares nanoseconds: a use whose age is exactly the
limit may have expired or not (`AtLimit`). A device stands for
itself and its APQN (no overcommitment), and APQNs neither fail nor
go offline. A counter that cannot be read is zero, and zero is also how the
code marks a start value it does not have; the counters begin above zero.
`seen` and `first` are no variables of the code: the set under which a running
container was last noted, and the true counter when an APQN was told. `seen` is
forgotten when, after a missing answer, the next one is due: from then until its
notice the code may drop a running container from the report.

### PromExporter

A handler works in three critical sections: store the report, purge and add up
(node lock), publish (cluster lock). Other handlers, of the same node too, may
come in between and overtake. The three numbers of a report are treated alike by
the code and are one number here. `promLoop` sets totals and gauges under the
cluster lock in two steps, so that a missing lock would show; Prometheus reads
gauges without a lock, and may see a state between the two.

The unit of time is the interval of the pushes (`METRICS_POLL_INTERVAL`, default
15 s). The guard of `Tick` says that handlers and loop are quick compared
with it and that each running node has pushed, or failed to, at most `MaxLosses`
times in a row. A push that was slow lets the ticker fire twice in a row, hence
`MaxPushes`. A report whose age is exactly `Lifetime` may be purged or not
(`AtLimit`), since real pushes come a little after their unit begins. Hence
`RunningNodeKept` needs `MaxLosses + 1 < Lifetime`, the condition of its theorem.
A reader should know that `METRICS_POLL_INTERVAL` may be set to 60: then the 60
seconds are one unit, and a running node may be purged without any loss. The
numbers of a report are integers: a plug-in sends a negative request count
when a counter cannot be read.

## Runs

| run | result | shows |
|---|---|---|
| `resources_faults` | pass | two faults of any kind: a device new to the pod lister outlives every sweep, no bare node is handed out, losses only of unlisted devices, everything unused is reclaimed |
| `resources_reuse` | violation | a reused device may lose node and shadow |
| `plugins_follow` | pass | the watcher implements `ConfigRegister`; the running plug-ins are those of its sets and keep coming back to the APQNs that configuration and hardware give them; two in step never claim one APQN |
| `config_aba` | violation | a file changed and changed back during an update leaves the wrong configuration active |
| `config_missing` | violation | a file that can no longer be opened leaves the old configuration active |
| `crypto_config` | pass | Verify, the lookup, the screening and the comparison of APQN lists agree with their declarative definitions |
| `plugin` | pass | Stop is final, no notification is lost in a first session, the announcement converges |
| `plugin_stop` | violation | Stop may wait for ever |
| `plugin_limit` | violation | the overcommit limit is not announced on a quiet machine |
| `plugin_allocate` | violation | Allocate may dereference a nil config set |
| `metrics` | pass | running containers stay counted while answers of the kubelet come, counts settle in the right set, request counts are never invented |
| `exporter` | pass | no running node is purged, totals agree with the gauges, the gauges converge to what the running nodes report |

The violations are disagreements between the code and what its documentation or
comments say; `PROJECT.json` quotes both under `findings`.

Bounds. `resources_faults` has one device, because devices meet only in the
sweep, which handles them one by one, and its safety properties are proved for
any number. It has `IfUnused = 3`, `AllocTime = 2`, so that calls, entries and
timeouts have different lengths, and two faults: one that leaves something behind
and one that hits its removal. `plugins_follow` has valid contents with one
set, both, an APQN that moves and a change of the project only, which no check
need store, a content that Verify refuses, a missing file, two states of the
hardware that alternate without end, and three edits: enough for good, bad and
same or other good in a row; `EditsDuringUpdate` is FALSE, since `config_aba` shows what
happens otherwise. `crypto_config` has configurations of up to two sets with up
to two definitions, with and without machine ids, against four hardware lists,
and one edit, so that a plug-in meets the next configuration with what the former
left it. `plugin` has two APQNs, configurations with one, two and no APQN of the
set, two changes or failed scans and one kubelet restart, and any number of
Start/Stop cycles. `metrics` has two sets and a device that moves twice, so that it
comes back or goes on, `PollTime = 1` (only the order of the ages matters) and one failed read or
lost reply. `exporter` has two nodes, two handlers at a time and two changes (of a report, a
node or the exporter), with `MaxLosses = 1` the largest that `Lifetime = 3` permits.

`CHECK_DEADLOCK FALSE` stands in the plug-in's configurations because the system
does stop there, in the deadlock `plugin_stop` shows and after a panic without a
valid configuration.

Fairness. Goroutines are not starved (weak fairness of each loop and handler)
and tickers keep firing. `Tick` of `ResourceLifecycle` has strong fairness: real
time does not stop because sweeps and new Allocate calls keep holding back the
coarse clock. `LoopExit` has strong fairness: a `select` whose two cases are
ready again and again takes both sooner or later. The kubelet takes every
reply and connects to every plug-in that registers. In `PluginManager` the
tickers of watcher, Discover and plug-ins fire, scans succeed and the manager's
starts and stops return; a plug-in whose list is out of date long enough checks. In
`ConfigWatcher` nothing is assumed of the readers. In `MetricsCollector` the pod lister's and the collector's tickers fire,
rounds end and plug-ins keep checking. In `PromExporter` nodes push; `Publish`
has strong fairness, because Go's mutex passes to the longest waiter and so does
not starve a handler although `promLoop` takes it again and again; so has `Tick`, for the
reason above. No change of hardware,
file or configuration, no crash, no Stop and no allocation is assumed to happen.

## Proofs

`ResourceLifecycle_proofs` proves, for any set of devices, any timeouts with
`AllocTime <= IfUnused` and any number of faults: `TypeCorrect`,
`UnknownDevicesAreSafe`, `NodesAreConfigured` and `LossesAreUnlisted`. They rest on
the inductive invariant `IInv`. `UnknownDeviceIsSafe` alone is not inductive: that the
sweep spares a device must follow from the age of its entries. `InFlightIsYoung`
says that entries made during an Allocate call are at most as old as the call,
hence not expired by `TimeAssumption`; `SweepSpares` carries this, and the
refreshing of listed devices, through a sweep in whose middle the kubelet may
record the allocation; `UnknownHasResources` says what exists at each stage.
`BareIsBeingConfigured` is the strengthening for `NoBareNodeHandedOut`.
`LossesAreUnlisted` is an action property and follows step by step from `IInv`.

`ConfigWatcher_proofs` proves `TypeCorrect` (only verified configurations are
ever active), `ImplementsRegister` (the safety part of the refinement, for both
values of `EditsDuringUpdate`; without edits during an update a file whose tag was
taken is still there when it is read, `FileIsThere`) and, if the file does not change during an
update, `TagsAreContents` and from it `ReadersInStep`: a tag names the content it
is stored with.

`PluginManager_proofs` proves `ImplementsWatcher`, that the composition is a
behaviour of `ConfigWatcher`, whereby the watcher's theorems hold in it
(`PluginsInStep`, part of `ManagerTypeCorrect`). `ManagersInStep` says that what
runs is what Discover compares with; its invariant follows the list through
rendezvous, starts and stops. `PluginsAreDisjoint` is the point of the
exercise: two plug-ins with the same tag hold the same verified
configuration, and in a verified configuration no APQN of a machine is in
two sets, so they never claim the same one.

`ApqnScreening_proofs` proves the four invariants of `crypto_config`, for any
machines, configurations, hardware lists, names and limits. `VerdictIsRight`: the
pairwise comparison with wildcards accepts exactly the configurations in which
no machine has an APQN in two places, because two definitions clash if and only
if some machine has both. The other three rest on `ScreeningInv`: the
configuration in use is verified, a plug-in's list names no APQN twice, and its
devices are made of its list. None of the three is inductive without it, since a
plug-in meets the present configuration with a list an earlier one left it. The
argument is one of counting. In a verified configuration (`OnePlace`) an APQN
passes at most one definition of a set, so `FilterIsExact`: filterAPQNs returns the
eligible APQNs, each once. Lists without repetitions have as many
elements as their length says (`InjectiveCount`), so a one-way inclusion with
equal lengths is equality: `ChangesAreSeen`. `LookupIsRight` follows because the only set
that defines an APQN of this machine is also the first one, and `DevicesAreUnique`
because a device id names an APQN and an index. What `FlattenSeq` returns
(lemma `Flatten`) is proved by induction over its recursion.

`MetricsCollector_proofs` proves `TypeCorrect`, `RunningStaysCounted` and
`NoRequestInvented`, for finite sets of config sets and devices and any poll time,
moves, requests and failed reads. `RunningIsCounted` needs `CountInv`: a device
noted under a set belongs to it, has a holder and is in use, is not about to be
told as gone, and the age of its last notice is bounded by the time since the last
answer of the kubelet, plus one round if that answer was missing; by `NotedIsYoung`
that is below the expiry, so that the age test cannot go wrong at its limit. `RequestsAreReal` is an
action property of `doLoop`, which reads all counters before it reports. It needs
`CountersAreOrdered` (what was recorded of a counter is never above its present
value, and a start value is missing or was read when the APQN was told or
later), and that sums are monotone.

`Sums` holds what these proofs need of numbers. The library's induction
theorems take the statement as an operator, which the provers cannot instantiate;
`InductionOverNat` and `InductionOverSubsets` take the set of the cases that hold
instead, and follow from the theorem that every non-empty set of numbers has a
least element. With them, the recursions of the community modules' sums and of
`FlattenSeq` are shown to define a function, and facts about it are proved by
induction: a sum stays in a set closed under addition, and sums are monotone.

`PromExporter_proofs` proves `TypeCorrect` (aggregate, total and gauges are
integers, for finitely many config sets), `TotalsAreSums` and
`NoRunningNodePurged`, for any nodes, reports and number of connections, the last
if `MaxLosses + 1 < Lifetime`. The second rests on `TotalMatches`: between the two
steps of promLoop the published aggregate is the one the total was made of,
which is what the cluster lock is for. The third rests on `RunningIsYoung`: the
stored report of a running node is no older than the pushes it has lost in a
row, plus one while it has not pushed in this unit.

`DevicePlugin_proofs` proves `TypeCorrect`, `StopFinal` and
`NotificationsArrive`. The type invariant is inductive with one relation that is
not a type: stale handlers are at most as many as the sessions that have ended.
`StopFinal` rests on `StopInv`: the wait group counts the loop from its first select to its
exit, and a loop that starts only after Stop has returned has no tick to act on,
because its ticker is younger than the closed channel. `NotificationsArrive` adds
`FirstSession`: without a restart no stale handler competes for notifications.

Only model-checked: the liveness properties (`Reclaimed`, `PluginsFollow`,
`RunningServeCurrent`, `UseSettles`, `Converges` of plug-in and exporter, the liveness
part of `FollowsFile`), since they need fairness, which is beyond the prover.
Every invariant and every action property of a passing run is also a theorem.

## Not modelled, and known limits

- A crash between the creation of a node and its last mask leaves a bare node
  that the next Allocate accepts. The model has this behaviour;
  `NoBareNodeHandedOut` is stated for behaviours without faults.
- With live sysfs on, the error of writing a card's file is lost
  (`shadowsysfs.go:299-310`: the loop of links assigns `err` anew) and a shadow
  without the file is handed out. The model has this behaviour (`lacking`);
  `UnknownDeviceIsSafe` promises the shadow that was built, not a complete one.
- `filterAPQNs` does not look at the mode of an APQN, although
  `docs/getting_started_with_the_cex_device_plug_in.md:97-99` says that APQNs of
  another mode than the set's are discarded. `CryptoConfig` is faithful to the
  code: `Eligible` leaves the mode out as well.
- After a kubelet restart a stale handler may take the notification of the new
  session. The model has this behaviour; `Converges` and `NotificationNotLost` are
  stated for first sessions.
- A check under way when Stop clears the fields may tell the metrics collector
  the devices of a stopped plug-in. `DevicePlugin` has this behaviour;
  `MetricsCollector` takes the last list told to be the plug-in's.
- When the last running node stops pushing, nothing purges its report and
  the gauges keep its numbers; `Converges` of the exporter asks for a running
  node. In the first ten minutes the gauges of vanished sets stay as well.
- After an answer of the kubelet that is missing, a running container may be absent
  from a report made between the time the next answer is due and its notice;
  `RunningIsCounted` leaves this gap out.
- With `METRICS_POLL_INTERVAL` at 60 a running node may be purged between two
  pushes that both arrive; `RunningNodeKept` is about shorter intervals.
- `CryptoConfig.Equal`, which only tests call.
- Health of APQNs and overcommitment in `MetricsCollector`, and the node totals
  of its report, which the exporter ignores.
- JSON decoding, the parsing of `/proc/sysinfo` and of sysfs files, the framing
  of pushes, registration of gauges and the http server: data or library code.
- Contents of sysfs files, file modes, masks, logging, flags: data no property
  tells apart. StopConfigWatcher, PodLister.Stop and MetricsCollector.Stop run
  at the end of the process only; so does the end of the manager, which leaves
  Discover in its send.

## Plan

Done, in this order: `ResourceLifecycle`, `ConfigRegister` and `ConfigWatcher`,
`DevicePlugin`, `CryptoConfig` with `ApqnScreening`, `PluginManager`,
`MetricsCollector`, `PromExporter`, each with the proofs above.

Left:

1. The total of the exporter's aggregate as the sum over the nodes of what each
   reports, from a lemma that a sum does not depend on the order of its terms.
2. Step lemmas for the liveness properties: what keeps each helpful action
   enabled or its effect in place, so that only the fairness argument itself
   is left to TLC.
