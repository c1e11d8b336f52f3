# TLA+ models of TronHawk

TronHawk loads sandboxed plugins into Electron applications. A Core service on
the machine holds the policy and the installed plugins; an injected bootstrap
connects a Runtime inside each target application to it; the Runtime runs the
plugins the plan grants, per process and per window; a Manager is the user's
interface. This directory holds models of these parts, the model-checking runs
over them, and proofs.

Paths below are relative to the repository's root; `index.js` stands for
`crates/runtime/js/src/index.js`, `daemon.rs` for `crates/core/src/daemon.rs`.

## Inventory

| Component | State it keeps | Operations | Interacts with | What is hard | What makes it correct |
|---|---|---|---|---|---|
| Renderer-plugin loader (`index.js` 3017-3350, 3656-3722) | plan, windows, registered and loading plugins, refusals, disabled plugins | apply a plan, create/load/destroy a window, finish a load, settle an async activate, disable, quit | plan polling, Electron events, QuickJS, the close path | continuations that run after the world has changed; a cap shared by registered and loading plugins | only wanted plugins are registered; the first eight win; no VM lost or disposed twice |
| Window close (`index.js` 3352-3654, 3935-4023) | close queue, batches with cursor and slices, subscribers | destroyed transfer, pump turn, end of a slice, `will-quit` sweep | loader, main plugins' subscriptions | slices in flight while others are served or swept; wake-ups without a trailing schedule | teardown before unload, each once, fairly, eventually |
| Manifest style sheets (`index.js` 284-406) | generations, keys, the page | reconcile, insert, remove with retries | plan, page, Electron | overlapping asynchronous calls on one page | every sheet has one owner, the last plan wins |
| Main plugins and CPU budget, host APIs, lifecycle events, overlay, shim (rest of `index.js`) | main plugins, op table, observers, subscriptions | load, reconcile, deferred kill, host calls, events | plan, VMs, page | settlement after sealing or disposal, re-entrant callbacks | no handle in a dead VM, each event once |
| Session transport and log queue (`crates/injector/assets/bootstrap.js`) | token and its age, renewal chain, queue | log, send a batch, renew, retry | Core | lost and late answers, expiry, one retry, a bounded queue | events are delivered in order or counted as dropped; the queue drains |
| Core's log (`crates/core/src/log_store.rs`) | active file, archives, sequence | append, rotate, recover, query | Core's handlers | death in a write or between two renames | what was written stays, in order |
| Core policy and plan (`daemon.rs` 1110-1677, 1921-2061) | `state.json`, recorded drops | register, levels, developer mode, policies, configuration, plan | Manager, Runtime, plugin store | seven requests with checks of their own | no stored policy that would be refused today |
| Plugin store (`daemon.rs` 1679-1919, 2245-2303) | installed directory, transaction directories, snapshot cache | install, remove, start-up sweep, read | file system, policy | death between two renames, a second Core | a plugin is one version or the other; grants never pass to another version |
| Network proxy (`daemon.rs` 752-1108, 2131-2201) | the exchange under way | authorise, send, follow redirects, audit | plan, servers | redirects under a whitelist read once | no hop leaves the whitelist, credentials stay with their host |
| Core's start (`crates/core/src/main.rs`, `storage.rs`, `daemon.rs` 2356-2532, `core_client.rs` of the Manager) | files of the old and the new storage root, startup gate, processes | migrate, read or create state and token, bind, verify, spawn, cancel | Manager, Windows | several starters, several processes, deaths in the middle of a copy | data is kept; every command ends |
| Package format (`crates/package/src`) | the archive, the output file | validate, pack, inspect, extract | Core's install, authors | an archive checked in several passes; a directory that changes while it is packed | what is loaded is what was checked |
| Launcher (`crates/injector/src/bin/launcher.rs`, `asar_merge.rs`, `launch_session.rs`, `attach.rs`) | cache slots, links, sidecar | merge, link, obtain a token, spawn or activate and attach | Windows, Core, targets | launchers that run at once and die anywhere | a target runs as the application it is |
| Registration with Windows (`crates/injector/src/registry.rs`, `crates/core/src/iefo.rs`) | one IFEO entry per file name | register, unregister | elevation prompt, registry | values written one by one, overlapping requests | another program's `Debugger` survives and comes back |
| IPC framing, Manager's pages, SDK, vendored electron-hook | connections; UI state; none; hooks | frames, editing | all | byte handling, UI | covered by unit tests |

`PROJECT.json` lists each with its status, and under `hazards` the places in the
code that are hard to test, with the properties that cover each.

How they interact: the Manager and the Runtimes send requests to Core over a
local port; handlers of Core run under one state mutex, except the network
exchange and the IFEO write, which let go of it. Runtimes poll the plan and
apply it. Launchers are started by Windows (IFEO) or by the Manager and ask Core
for a launch token. Core's processes share only files, and the port.

## Modules

| Module | Models |
|---|---|
| `RendererPlugins` | the renderer-plugin loader |
| `WindowTeardown` | what closing a window promises (`docs/SPEC.md:182-191`), with no queue, pump or slice |
| `CloseTeardown` | the close path, shown to implement `WindowTeardown` |
| `CssReconcile` | manifest style sheets in one window |
| `LogStore` | Core's log, as operators on a log |
| `LogDelivery` | queue, transport and token in a target, and Core's handling of its requests; EXTENDS `LogStore` |
| `CorePolicy` | policies and the execution plan |
| `NetworkProxy` | a plugin's network request, while policies change; EXTENDS `CorePolicy` |
| `PluginRegistry` | what the store promises (`docs/PLAN.md:17`): plugins and their grants, changed in single steps |
| `PluginStore` | install, removal, sweep and cache, file operation by file operation; shown to implement `PluginRegistry` |
| `CoreStartup` | how Core comes up: the Manager's gate, processes, migration, state and token |
| `PluginManifest` | the rules for a manifest, as operators |
| `PackageFormat` | archives, extraction, `tronhawk-pack`; EXTENDS `PluginManifest` |
| `AsarMerge` | the archive a target is started with, as operators |
| `IfeoRegistration` | registration with Windows, value by value |
| `Launch` | launchers, cache slots, sidecar; EXTENDS `AsarMerge` and `IfeoRegistration` |
| `Selection` | `Array.prototype.filter` for a set, as a recursive function; used by `CloseTeardown`, `LogStore` and `PluginManifest` |
| `RendererPlugins_proofs`, `CloseTeardown_proofs`, `CssReconcile_proofs`, `Launch_proofs` | theorems about the module of that name, proved with TLAPS |
| `Core_proofs` | theorems about `CorePolicy`, `NetworkProxy`, `CoreStartup` and their composition in `MCCore` |
| `LogDelivery_proofs` | theorems about `LogDelivery` and `LogStore` |
| `Packages` | `PluginStore` and `PackageFormat` side by side |
| `Packages_proofs` | theorems about `PluginStore`, its refinement of `PluginRegistry`, `PackageFormat`, and both together |
| `Selection_proofs` | lemmas about `Selection`, and induction over the natural numbers |
| `MC...` | instances for TLC; `MCCore` puts `NetworkProxy` and `CoreStartup` into one run, `MCLaunch` launches and registrations, `MCPackages` the instances `MCPluginStore` and `MCPackageFormat` |

A definition named "Faulty variant" is a plausible mistake in the definition
that follows it. No specification uses it; `PROJECT.json` pairs it with the
property that detects it when it takes that definition's place.

### RendererPlugins

The Runtime is one JavaScript thread, so an action is one run of an event
handler or promise continuation, in full: `ApplyPlan` is `applyPlan` with the
reconcile of every loaded window, `FinishLoad` is `onReady` with
`cleanupRendererPlugins`, `Continue` is the `.then` of `getQuickJS()` from the
identity check to the registration. Between two actions anything may happen.

An *attempt* is a call of `runRendererPlugin` that got past its guards. Plugin,
window, plan generation and window generation identify it, so one record serves
as the reservation in `pendingRendererPlugins`, the context and the entry in
`rendererPlugins`. What the plan wants of a plugin is a fingerprint or `Absent`;
`RawFingerprints` are those with `runtime.unsafe`, which register at once and own
no context.

The loop of `reconcileRendererPlugins` over the plan has an effect at each
plugin on the slots the next ones see. `Admits` states it as a fixed point: the
set `H` of keys taken in the end is such that each plugin is in it exactly when
its turn of the loop, with earlier plugins as in `H` and later ones as the
squeeze left them, would keep or add it. As each turn depends on earlier ones
only, there is exactly one such `H`.

Choices stand for guest code and its timing: which loads fail, which deactivate
or callback exhausts the CPU budget, which activate returns a promise and how it
settles, which host call throws. `leaked`, `redisposed` and `excuse` are history
variables: the first records the contexts lost by the catch handler at
3257-3262, whose `cleanupCallbacks` is not in scope.

### CloseTeardown and WindowTeardown

`Destroyed` is the transfer, `Pump` a turn of `pumpCloseQueue` (serve the first
eligible batch, rotate it, then unload what is complete), `SliceEnds` the end of
a deactivate that returned a promise, `WillQuit` the sweep. A slice that is
synchronous ends in the microtasks of its turn, after the turn's unload loop:
`FireUnloads` therefore passes over the batch just served, and the pump is
scheduled again. A callback that fails unregisters itself when first called,
which later batches of the same turn already see.

`WindowTeardown` knows only phases, what is owed and who is due. The mapping
(`Promise`) takes as owed the plugins of the window that are neither serviced
nor swept.

### CssReconcile

A *sheet* is an inserted key, named by the generation that obtained it. A *job*
is one promise chain: an injection that first removes the old sheet, a
revocation, or the removal of a superseded insertion. `insertCSS` and
`removeInsertedCSS` take effect when they settle, in any order, and reject on
destroyed contents. Navigation, which discards the page's sheets in Electron, is
not modelled: the code does not react to it.

### LogStore and LogDelivery

An event is an identity, a source and a form; sizes are counted in records. Of
the form there is what Core tells apart: a message may make the frame that carries
it unparsable (-32700), as a surrogate pair cut in two by `boundedMessage` does
(`bootstrap.js:26-33`), or give the batch invalid parameters (-32602). Notices and
warnings are the client's own, and well formed. In the
target, `call` is the one delivery under way (`deliveringLogs`): `Ensure`, `Send`,
`ForceRenewal` and the resend are the steps of the transport, with the renewal chain's
backoff. A request lies in `wire` until Core handles it; the answer is taken with
the handling, unless nobody waits any more (`late`), so an answer lost on its way
is a request that is handled late. A request nobody settles is `Hung`. A token is
its age, in the classes the code distinguishes (540 s, 600 s, 24 h).
`OtherRenewal` is the plan poll, which shares the token.

`LogStore` appends to a log that may end in a partial line (a death or a failed
write), shifts archives file by file, and recovers at start-up.

### CorePolicy and NetworkProxy

Every handler runs under the state mutex and ends in one write of `state.json`
that is all or nothing, so an action is a handler. Of a manifest there is what
policy and plan depend on. `installed` is what lies in the plugins' directory,
`cache` the snapshot Core holds, and `Served` the manifest it goes by: while some
directory does not load (`damaged`), that of the last good snapshot
(`daemon.rs:1851-1874`), even of a plugin that has been replaced since, as an
install whose backup cannot be removed returns before the cache is dropped
(1756-1761). `Published`, `NotPublished` and `RemovalCutShort` are how an install
or a removal may leave manifests and policies, each at once; `PluginStore` takes
them apart. `misread` is history: the policies that were set against a manifest
that was no longer the installed one. `NetworkProxy` takes the exchange apart, as Core lets go of
the mutex for it: a hop is sent, and answered with a redirect, an end or an error,
while policies change and Core restarts.

### PluginStore

One action per file operation of `install_plugin`, `commit_staged_plugin` and
`remove_plugin`; `op` is the next one. Each may fail, with the code's attempt to
put things back, which may fail as well. `Restart` is a death at any point with
the sweep of the next start, `SecondCore` another process that sweeps before it
finds the port taken. Policies remember, as history, the version they were
checked against.

`PluginRegistry` knows no files: a plugin is granted something, reset, replaced or
removed in one step. Under the mapping (`Registered`) a plugin whose directory a
handler has moved aside, and may yet put back, is still installed; it is replaced by
the rename that publishes, and removed by the write that drops its policies. `Lose`
is the only other way for a plugin to go, and takes an operation in which more went
wrong than one file operation (`excused` in `PluginStore`).

### CoreStartup

A command of the Manager queues at the gate, verifies Core, spawns a process if
it must, polls, and calls. A Core process goes through `started`, `copy`, `moved`,
`state`, `write`, `token`, `fill`, `bind` and `serving`, reading and writing the
files it shares with others. `LeftHalf` is what a copy that stops leaves behind.
`loose` is history: some process was spawned while another, that nobody waited
for, was still alive.

### PluginManifest and PackageFormat

Text is abstract: a path is a sequence of segments, a host a sequence of labels,
an identifier or a version is well formed or not. An archive is the sequence of
its central directory's records; extraction is `Written`, which applies `Write` to
one after the other on a file system without case. Case is folded twice: by `Key`,
the loader's key for collisions, which folds ASCII letters only
(`crates/package/src/lib.rs:1574`), and by `Folded`, the file system, which folds
every letter; names that differ under the one and not under the other share a file
(`SharesFile`). `Command` is a command line; a
pack is the steps `StartPack`, `WriteEntry`, `RoundTrip` and `PublishPack`, between
which the directory may change (`Edit`) and the process may be killed.

### Launch, AsarMerge, IfeoRegistration

A launcher goes through the steps of `launcher.rs`; an archive is written in
place (`WriteBegins`, `WriteEnds`), so a reader or another writer can meet it half
written. `AsarMerge` defines the merged archive by what a path leads to. The
registry entry belongs to a file name and is written value by value by an
elevated launcher that may stop anywhere. A value that cannot be read (no access,
another type) is taken for none (`get_value(..).ok()`, `registry.rs:59` and 97), so
`ReadsValue` may return none for any value; `missed` is history: a launcher has
misread a value.

## Runs

| Run | Instance | Distinct states | Shows |
|---|---|---|---|
| `RendererPlugins` | 2 plugins, 2 windows, cap 1, 2 plans, 2 revisions, 3 loads in all, 1 throwing load | 808,182 | registration, cap, order, ownership of contexts |
| `CloseTeardown` | 3 windows, 2 sandboxed plugins and a raw one, rosters of two, 1 subscriber | 289,755 | safety, termination and refinement |
| `CssReconcile` | 1 plugin, 2 sheets, 3 attempts, 5 generations | 393,868 | ownership and agreement |
| `Core` | 2 applications, 1 plugin in 2 versions, 3 hosts, 3 requests, 1 network request with up to 2 redirects; 2 commands, 2 Core processes, 1 fault | 517,760 | policy, proxy and start |
| `Packages` | 2 plugins, 2 versions, 1 application, 4 operations, 2 policies, 3 faults; about a hundred archives, 6 trees, 2 edits, 2 packs | 1,026,624 | grants and files under failures; refinement; archives and packs |
| `Launch` | 2 launchers, 2 applications (1 packaged), 3 sources, 1 update; 2 requests under one file name | 1,238,429 | launches and registrations |
| `LogDelivery` | 3 events, queue and batch of 2, files of 2 records, 2 archives, 2 troubles or ill-formed messages | 456,025 | delivery and log |
| `DisabledReload`, `CssStale`, `InstallCrash`, `PackageCase`, `ReRegistration` | as above | stop at the violation | findings |

Deadlock is not checked: each bounded instance ends, and every part may be idle
for ever.

**Bounds.** With cap 1, two plugins fill, overflow and squeeze a window; the two
plans exchange their ranks, keep one fingerprint and turn the winner raw or
back. Two revisions suffice for a plan that supersedes a load of the first; three
loads let a window navigate while the other loads. In the close path a batch of
two is the smallest with a served, a running and a swept position, and three
windows are needed for one to overtake another while a third is running. Style
sheets of different plugins share nothing; five generations allow a removal, its
retries and three further reconciles to overlap. In the store, four operations
are an install, a policy, a replacement and a removal of the one plugin with one
of the other in between; three faults are a failed operation, its failed
restoration and a death. For policies, three requests register an application,
grant, and change one thing (either version of the plugin may be installed from
the start); two applications show that "every application" is every one, and
`Core_proofs` has no bound at all. Two redirects leave a host and come back. Two commands
are a starter and a waiter; a third Core process would meet nothing new, because
a process reads what any earlier one left. A queue of two is the smallest in which
a batch in flight and a dropped event meet, and two troubles are a lost answer
and a second fault during its repair, or an event that blocks the queue and a fault. Two launchers are what a race needs; two
requests are a registration repeated or undone.

In `MCCore`, `MCLaunch` and `Packages` each part is explored with the other at rest. They
share no variables, so this loses no behaviour of either part, and the invariants
speak of one part each. In `MCCore` a start on an empty disk is left out: it
takes the steps of one that finds a backup, with fewer things to lose.

**Properties.** Loader: `RegisteredIsWanted`, `CapHeld`, `RefusalsInOrder` (the
limit per window and its order, `docs/SPEC.md:192-194`: `FirstInPlanOrderWin`,
`RefusedStaysOut`), `ContextsOwned` (`VmsAccounted`, `NoSecondDispose`),
`DisabledNotRegistered`, `WantedAccounted` (a wanted plugin that does not run has a
known reason). Close path:
`TeardownInOrder`, `RoundRobin`, `SweepLeavesOnlySlices`, `EveryWindowUnloads`,
`ImplementsPromise`. Style sheets: `SheetsAccounted`, `SettledAsWanted`. Store:
`GrantsFollowVersion`, `SurvivesOneFailure`, `ReadsAreCurrent`,
`ImplementsRegistry`. Core:
`StoredPoliciesAcceptable`, `NothingGrantedUnasked`, `HopsAreSafe`, `RequestsEnd`,
`StartKeepsData`, `CommandsEnd`. Packages: `InstalledIsCoherent`, `PublishedInstalls`,
`InspectAgrees`. Launches: `SlotIsItsApps`, `RunsAsItself`, `ForeignKept`. Logs:
`DeliveredInOrder`, `LogKept`, `QueueDrains`.

Some say what the code achieves rather than what one would wish; each excuse is
named in the property and comes from the code: a second Core sweeps away a
transaction (`SurvivesOneFailure`), a damaged directory is served from the last
good snapshot, and a policy set against it exceeds what is installed
(`GrantsFollowVersion`; `misread` in `StoredPoliciesAcceptable` and
`NothingGrantedUnasked`), two entries share a file (`InstalledIsCoherent`), a
registry value cannot be read (`ForeignKept`, `UnregisterRestores`), an event that
Core refuses blocks the queue (`QueueDrains`), a start outlives its starter
(`StartKeepsData`), a failed write spoils the line after it (`LogKept`), a launch
that failed leaves its sidecar (`RunsAsItself`). `Unseen` lists what `inspect`
accepts although it does not install (`InspectAgrees`; `lib.rs:1187-1189` promises
agreement): a file in the place of a directory, a payload declared as `null`, a
payload that is not text, an entry that shares the manifest's file.

**Fairness.** Three runs have liveness properties.

- `CloseTeardown`: a scheduled `setImmediate` runs, and a slice in flight ends,
  which `asyncDrainThenableResult` enforces by its 2000 ms deadline. Windows need
  not close, sweeps may recur. The conditions are weak fairness written out
  (`[]<>~enabled \/ []<><<A>>_vars`), which TLC evaluates far faster; so are
  those of `Core`.
- `LogDelivery`: timers fire, the client takes its next step, Core handles a
  request somebody waits for, and the one-second rate window passes (strongly
  fair: it passes whenever the budget is in use). `QueueDrains` assumes besides
  that from some time on Core runs, the plan stays as it is, the token can be
  renewed and no request hangs; each assumption is needed, as the code gives up or
  waits for ever without it. Its conclusion is that the queue is empty or `Blocked`:
  an event in its next batch is one that Core refuses every time, because its plugin
  is not in the plan or its message is ill formed. Nothing else may stop it.
- `Core`: the thread of a network request goes on and a hop ends by
  `REQUEST_TIMEOUT`; the Manager's futures are polled, its calls time out
  (`RPC_TIMEOUT`, `LAUNCH_TIMEOUT`), and a starter that waits long enough reaches
  `STARTUP_TIMEOUT` (strongly fair, as its polls interrupt the wait). Of Core's
  processes nothing is assumed.

## Findings

- `DisabledReload`: `applyPlan` clears the disabled plugins for "one clean
  reload under the new plan" (`index.js:3714-3715`), but a renderer plugin whose
  entry the new plan leaves unchanged keeps its exhausted VM and does not run.
- `CssStale`: a removal that fails for good should leave the sheet to the next
  reconcile (`index.js:398-399`); a reconcile that runs during the removal bumps
  the generation, and the sheet stays on the page for good.
- `InstallCrash`: installs are called transactional (`docs/PLAN.md:17`), but a
  Core that dies between the two renames (`daemon.rs:1730-1739`) leaves the prior
  version in a backup, which the next start sweeps away.
- `PackageCase`: the key for collisions is said to mirror how a name resolves on
  Windows (`crates/package/src/lib.rs:1531-1533`), but folds ASCII letters only:
  `É.js` and `é.js` pass the check, and the second overwrites the first.
- `ReRegistration`: "the previous `Debugger` is backed up and restored on
  unregister" (`crates/injector/src/registry.rs:10`), but registering twice backs
  up our own launcher, and unregistering restores that.

Weaknesses that contradict no promise, or that a property excuses, are in
the models all the same: contexts leaked by the catch handler (`leaked`), sheets
lost when the removal of a superseded one fails (`lost`), wanted plugins that stay
out after a cancelled quit (`excuse = "quit"`); a copy of old data cut short, which
is never tried again once `state.json` exists (`CopyFails`, although
`storage.rs:101` counts on the next run); a token file created but not yet
written, after which no Core starts (`ReadOrCreateToken`); a second Core that
removes another's unfinished state file (`CommitState`) or serves a state it read
before the port was its own (`Bind`); a batch that names a plugin no longer
planned, or holds a message that cannot be parsed, and blocks its stream
(`Blocked`); a notice of dropped events that is itself pushed out and takes its
count with it (`Notice`); a policy checked against a manifest that has been replaced
(`misread`); a foreign `Debugger` that cannot be read and is overwritten without a
backup, or not put back (`missed`); a refused redirect without an audit
record (`RefuseRedirect`); a removal that leaves policies behind
(`RemovalCutShort`).

## Proofs

A theorem holds for every value of the constants that its module's assumptions
admit: any number of plugins, windows, applications, processes or launchers, and
whatever the bounds of the runs are. Each proof has the same shape: an invariant
that TLC has checked on the instance of the run, an `Init` lemma, a lemma for each
action, and the properties as consequences. What follows says what is proved, what
has to be assumed, and why the property alone is not inductive.

| Module | Theorems | States |
|---|---|---|
| `RendererPlugins_proofs` | `TypeCorrect`, `RegisteredIsAlwaysWanted`, `ContextsAlwaysOwned`, `RefusalsAlwaysInOrder`, `DisabledNeverRegistered`, `CapAlwaysHeld`, `WantedAlwaysAccounted` | every property of the run |
| `CloseTeardown_proofs` | `TypeCorrect`, `TeardownAlwaysInOrder`, `PumpIsRoundRobin`, `SweepSparesOnlySlices`, `PumpKeepsThePromise` | every safety property, and the refinement of `WindowTeardown` |
| `CssReconcile_proofs` | `TypeCorrect`, `SheetsAlwaysAccounted`, `AlwaysSettlesAsWanted`, `InsertionOverwritesNothing` | every property of the run |
| `Packages_proofs` | `TypeCorrect`, `GrantsAlwaysFollowVersion`, `OneFailureLosesNothing`, `ReadsAlwaysCurrent`, `StoreKeepsTheRegistry` | every property of `PluginStore`, the refinement of `PluginRegistry` included |
| | `PackageTypeCorrect`, `PublishedAlwaysInstalls`, `InstallsAreCoherent`, `InspectAlwaysAgrees` | every property of `PackageFormat` |
| | `PackagesTypeCorrect`, `PackagesAreSafe` | every property of the run, of the whole |
| `Core_proofs` | `PolicyTypeCorrect`, `StoredPoliciesStayAcceptable`, `GrantsAlwaysTakeEffect`, `GrantsAreAlwaysAsked`, `HopsAreAlwaysSafe`, `StartsKeepData`, `CoreTypeCorrect`, `CoreIsSafe`, `CoreGrantsNothingUnasked` | every safety property, of the parts and of the whole |
| `Launch_proofs` | `TypeCorrect`, `ForeignAlwaysKept`, `SlotsAlwaysTheirApps`, `TargetsAlwaysThemselves`, `LaunchesAreSafe` | every property of the run, of the parts and of the whole |
| `LogDelivery_proofs` | `TypeCorrect`, `InOrderAndOnce`, `LogAlwaysKept` | every safety property of the run |

**The loader.** Assumed: `Plugins` is finite, windows are numbers (they are visited
in order of creation), `Absent` is not a fingerprint, the cap is positive, and the
plans are plans, which give no two wanted plugins one place. Ownership rests on
`Inv`:

- `PendingIsWanted`: a reservation that is still in the map carries the current
  generations and fingerprint; reconciliations and navigations remove all others.
- `KeysUnique`: a key is taken once among registered and loading plugins
  together, so that a registration never meets an entry with its key.
- `OneHand`: an attempt is loading, registered, handed to a close batch, or
  leaked, and only one of these; so what is disposed of is always there.
- `NotFromTheFuture`: no attempt carries a generation not yet reached, so that
  the attempts of a reconciliation are new; this is what makes `OneHand`
  inductive.
- `RefusalsAreRecent`: a refusal recorded in the past cannot name the generation
  a new plan starts, so a plan may keep what an earlier one refused.

`ReconcileResult` reduces a reconciliation to what it does to ownership, and
`ReconcileKeepsInv` shows once, for `ApplyPlan` and `FinishLoad` together, that it
preserves `Inv` where its numbers are new (`Fresh`).

The cap and the order of the plan need a count. `CapHeld` is not a matter of
comparing one number with `Cap`: a plugin that is added sees earlier plugins as the
loop has left them and later ones as the squeeze has left them, so nobody ever
counts the final set. `LoopFits` is the argument: of the plugins the loop leaves,
those kept have ranks below the cap, of which there are at most `Cap`
(`FewRanks`); if any was added, the last one added in plan order counted all the
others. `FirstInPlanOrderWin` is the converse: a plugin of rank below the cap that
is refused would have counted `Cap` plugins of rank below the cap beside itself.
`FullInv` adds to `Inv` what carries this over other steps: `RefusedRankLow` (the
property, of windows that are not loaded too, as `FinishLoad` reconciles one of
them under the old generation) and `PlanIsPlan` (before the first plan nothing is
wanted, so that 0 in `capped` means "never refused", although it is also the first
generation). `WantedAccounted` then follows because every attempt that ends without
a successor (`Fails`) writes an excuse.

**The close path.** Assumed: raw plugins are plugins, a roster lists a plugin once,
and `NoSlice` is none. `BatchOK` ties what a batch says of its window to the history
of that window: the slices before the cursor have been started once, those behind
it not, every other VM is gone except that of the slice in flight. `QueueOK` puts
one such batch into the queue for each closing window. `Queued` is what fairness
rests on: a window that has been overtaken stands before those that overtook it,
because a batch that is served goes to the end.

The refinement is proved step by step: under the mapping of `CloseTeardown`, each
action is a stutter or a joint step of the windows in `WindowTeardown`
(`NextImplements`), with `Inv` before and after it. `PumpKeepsThePromise` covers the
safety part, `Spec => Promise!Spec`; that windows do unload is `EveryWindowUnloads`,
which TLC checks.

The pump filters its queue. `SelectSeq` is recursive, and its properties are beyond
the prover; so the model says `Kept` (module `Selection`), which is the same filter
as a recursive function. `Selection_proofs` derives induction over the natural
numbers from the well-foundedness of `<` (`NatSetInduction`, with a set in the place
of a predicate), unfolds `Kept` with it, and characterises the result by an
increasing map of its positions into those of the original (`KeptProperties`).

**Style sheets.** Assumed: `NoCss` and `NoSheet` are no values, there is at least
one attempt. `SheetsAccounted` needs to know that what a chain inserts is new:
`OneChain` says that a generation has one chain, and no sheet as long as its
insertion is due. `CurrentInjection` says that the entry an insertion writes is
empty, which `InsertionOverwritesNothing` states as an action property: the code
writes `keys` without looking, and a registered key that it overwrote could never be
removed again. `OnItsWay` is the part of `SettledAsWanted` that holds at any time.

**The plugin store.** Assumed: the markers are no values. The bounds appear in
guards only. `PoliciesReset` records what an install has done before it publishes,
and what a removal would put back; `KeptSomewhere` follows the one copy of the prior
version through staging, backup and place; `CacheSound` says that a snapshot not
marked stale is of the directory its fingerprint was taken from.

The refinement needs `Places` besides (checked by TLC, then proved): a suffix is never
used twice, so an install that has not yet backed anything up finds no backup to be
its own, and while a directory is aside nothing lies in its place. With it, each file
operation is one step of `PluginRegistry` or a stutter (`NextImplementsRegistry`).
The steps that decide are few: `PublishSucceeds` is `Install`, where `PoliciesReset`
shows that the grants are gone; `DropPolicies` is `Remove`; a failed restoration, a
death and a sweep are `Lose`, and `FailuresCounted` and `DisturbanceCounted` show
that each was the second thing to go wrong, or a death or a second Core. The
registry says of behaviours what no invariant of the store says of states: a version
changes by a whole installation only, and a plugin that was removed, or lost, comes
back by no other way.

**The package format.** Assumed (`FormatAssumption`): archives and directories are
such, "." and ".." are cut like every name that ends in a dot, and what is missing
has no body. `PackageInv` ties a pack to its steps: from the round trip to the rename,
what lies in the temporary file installs (`ReadyInstalls`), so the directory may
change as it likes, and what is in the output was there before or came that way.
Inspections and installations are the results of one archive (`LastOK`), which
reduces `InstalledIsCoherent` and `InspectAgrees` to lemmas about operators on any
archive. `TreeHoldsFiles` shows by induction over the records that a later record
overwrites none before it: `WriteKeeps` for one record, where a directory cannot
take the place of a file, and `~Collides` for names with one key; only entries that
share a file are left out. Of those `TreeHasEveryFile` and `WriteLeavesBodies` show
that something of the archive is in their place, which is all that the presence of
payloads needs.
`OneManifest` makes the manifest that was checked the one that is loaded, and
`AcceptedExtracts` follows each of the loader's conditions back to a check of
`inspect` or to `Unseen`. `Written` is a recursive function, unfolded with
`NatSetInduction` (`WrittenDefined`).

**Core.** Assumed: manifests and requests have their types, origins and methods are
such, and markers are no values. `StoredPoliciesAcceptable` is inductive with the
type invariant, but not because every handler checks all of it: the checks of one
handler are undone by the next (a lower level, developer mode withdrawn, another
manifest), and each of these must repair every policy. It speaks of the manifest that
is installed, the handlers check against the one that is served, and a snapshot may
lag behind: the invariant says of a policy that is not `misread` that it fits the
first, and, if it grants anything, that the snapshot has the same manifest
(`Current`). `Fits` states the condition
for one policy by its values, so that two lemmas carry all actions:
`OnePolicyChanged` for a handler that writes one policy, and `AllPoliciesChanged`
for one that changes the applications' policies together with developer mode or a
manifest. `DeveloperCapabilities` is the fact behind the revocation: developer mode
adds `runtime.unsafe` and nothing else. `GrantsAlwaysTakeEffect` draws a
consequence: the three filters of the execution plan take nothing away from a stored
policy that is not `misread`, so that a planned plugin runs with exactly the grants
the Manager shows.

`NothingGrantedUnasked` compares two states: what a plan allows may shrink in any
step, but grows only in a `setApplicationPluginPolicy`. The plan hides grants as well
as the handlers revoke them (it intersects with the level, developer mode and the
manifest), and a hidden grant would come back by itself. `AllowedIsGiven` shows from
`Fits` that none is ever hidden: what is allowed is what is stored. After that each
handler has to be looked at only for what it stores (`NoMore`), and
`NetStepIsPolicyStep` carries the result to the composition.

`SafeHop` strengthens `HopsAreSafe` to exchanges that wait for their answer.
For `StartKeepsData` the invariant says, place by place, what a process has in
memory and how far the move of the old data is. Its three parts have conditions of
their own (a backup existed; no process was started beside another; no start was cut
short), because each of those faults breaks one part and leaves the others
standing. `Waited` shows that only the holder of the gate has a process it waits for;
from it `OneAlive` follows.

`NetworkProxy` and `CoreStartup` are proved by themselves and then in the composition
`CoreSpec` that the run explores, where each is at rest in the steps of the other.

**Launches and registrations.** Assumed: `Requests` is finite; the markers are no
sources or applications; an archive links none of the files it overrides (they are
files of the source, written anew by the merge). `ForeignKept` counts requests;
`Once` says the same by equality, and `EntrySafe` follows the foreign value from the
key to the backup and back, with what each request has read so far, exact unless it
has `missed` a value. For the
launches, `Knows` says what a launcher relies on at each step, `TornIsWritten`
and `SidecarIsLeft` who is to blame for a torn archive and a sidecar, and
`TargetsAreThemselves` what a target has been started with; once it runs, only the
owner of a slot may change it. That the merged archive stands in for the
application's is a lemma about the operators of `AsarMerge`.

**Log delivery.** Assumed: sizes are positive, the rate admits a batch, messages may be
well formed ("good"), and what stands for a damaged line is no record. The invariant has four parts.

- `Control`: types; somebody waits for at most one request, that of the delivery
  under way, and it carries the delivery's batch (`OneAwaited`); every warning has
  had a trouble of its own (`WarningsAccounted`), so that warnings never run out of
  numbers and the queue outgrows its size only by events and warnings that were
  counted (`LengthAccounted`).
- `Data`: `DeliveredInOrder` speaks of what is written, but the order of writing is
  decided when a batch is selected. So `BatchesCover` says of every batch, the
  client's and those in requests, late ones included, that whatever it overtakes is
  written, dropped, or before it in the same batch; `StoredCovers` says it of what is
  written. Both quantify over all events that are around (`Around`), which takes
  `KnownIds`: one number, one event.
- `Copies`: an event has at most one copy more than there were troubles, counting
  those written, those in requests nobody waits for, and the one the client may still
  send. A retry moves a copy; only a trouble leaves one behind.
- `LogType` and `LogSound`: while Core runs every line is a record, and after a
  crash all but the last one of the active file; without that line the log `Keeps`
  the last of the events that were written, under ascending numbers below the next.
  Recovery relies on this: cutting back the active file removes nothing that was
  acknowledged, and the greatest number left is below the new one (`AfterAll`).
  `FlatShifted` shows that a rotation, wherever it stops, loses nothing but the lines
  of the oldest archive.

The queue is described by positions (`PushedIs`, `LeftIs`, `BatchIs`), the log by
the recursion of `FlattenSeq` and of `AppendedAll`, unfolded with `NatSetInduction`.

**Only model-checked.** Every invariant of every run is proved, and the refinements
are, as safety properties. What stays with TLC is liveness under fairness
(`EveryWindowUnloads`, `QueueDrains`, `RequestsEnd`, `CommandsEnd`), which needs
`ENABLED`, for which the prover has no rules. The five findings are behaviours that
TLC exhibits. What a recursive definition computes is proved where a property needs
it (`Kept`, `Written`, `FlattenSeq`, `AppendedAll`); `TotalOf`, the size of an
archive, is an unspecified number to the proofs, which hold whatever the limits let
through.

## Not modelled

- Main plugins (`runMainPlugin`, `reconcileMainPlugins`, the deferred
  `killMainPlugin`), the other lifecycle events, and the host APIs of guests: the
  most valuable next step, in that order. The first has the shape of
  `RendererPlugins` without windows; the last needs the order of events inside a VM.
- The window-controls overlay, the adapters and the `require` shim: their state
  is mostly Electron's.
- Framing, the limit on connections, header syntax, ZIP and ASAR byte layouts,
  signatures of tokens: data, not control. A probe may fail while Core serves,
  which is what the limit on connections can cause.
- `setCoreAutostart`: one registry value behind a trait.
- The Manager's pages and file pickers, the SDK, the vendored electron-hook.
