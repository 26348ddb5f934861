# Formal models of tender

TLA+ models, TLC runs and TLAPS proofs about `tender`, the command line that
makes GitHub Actions runners out of libvirt virtual machines, and `distaff`,
its agent in the guest. All paths are relative to the repository.

- [1. The system](#1-the-system): inventory of components, state, interactions, hazards
- [2. Modules](#2-modules): what models what
- [3. Runs](#3-runs): what TLC checks, bounds, fairness
- [4. Proofs](#4-proofs): what TLAPS proves and how
- [5. Disagreements](#5-disagreements-between-the-code-and-what-is-said-of-it)
- [6. Abstractions and limits](#6-abstractions-and-limits)
- [7. Plan](#7-plan)

## 1. The system

Nothing in `tender` is a daemon: every command is a process with its own
libvirt connection, which makes a sequence of libvirt calls and ends. All
lasting state is libvirt's. What makes the program hard is that these
sequences run concurrently (two terminals, a cron job running `health`, a CI
job running `create`), that every call of a sequence can fail, that the process
can be killed between two calls, and that the machines act on their own.

| component | code | state it keeps | operations | interacts through |
|---|---|---|---|---|
| command line | `cmd/tender/main.go` | none | create, start, stop, destroy, list, status, wait, health, console, images | calls everything below |
| runner manager | `internal/runner/manager.go`, `config.go` | paths of the cached artifacts, the event map | EnsureInfrastructure, CreateWithCloudInit, Start, Stop, Destroy, WaitForPhoneHome | libvirt calls; vsock |
| libvirt domains | `internal/libvirt/domain.go` | (libvirt) domains by name and uuid | CreateDomain, StartDomain, StopDomain, DestroyDomain, ListDomains | shared by all processes and by the host's other tools |
| runner volumes | `internal/libvirt/storage.go` | (libvirt) `<name>.qcow2`, `<name>-seed.img` in the `default` pool | CreateSeedVolume, CloneVolume, DeleteVolume | shared, found by name |
| images pool and caches | `internal/libvirt/storage.go` | (libvirt) the `images` pool, one volume per base image and per tools ISO | EnsureImagesPool, CacheImage, CacheRunnerTools | shared, found by name; downloads |
| health checker | `internal/health/checker.go` | map of statuses, stop channel | HealthCheck (used by the command), Start/Stop (a loop no command uses) | restarts machines through the manager |
| phone-home | `manager.go`, `internal/phonehome/phonehome.go`, `cmd/distaff/main.go` | event map, vsock port; the guest's attempts | listen, accept, wait; dial, send, read, retry | vsock between guest and the creating process |
| cloud-init, ISO | `internal/cloudinit`, `internal/isoimage` | the guest's script: how far it is | templates, image files | the seed tells the guest its port and its token |
| image catalog | `internal/images` | the listing so far | list, filter, sort and select images; latest runner release | HTTP, page after page |
| GitHub tokens | `internal/github` | the token, which ages | registration token through an App or `gh` | HTTP, a command |
| network, connection, configuration, logging, repo-check | | none that matters | | |

What makes each part correct:

- **Lifecycle.** A command never deletes or disturbs what belongs to another
  runner; what is half made or half destroyed has a command that did not
  succeed to blame for it; a destroyed runner leaves nothing; "Ready" is said
  only after a report that names the runner.
- **Caches.** An image that a create goes on with is the published one; a
  failing create takes away its own upload and nobody else's; the pool comes
  up; concurrent first creates do not all fail.
- **Phone-home.** A create succeeds only on a report in the name of its runner, a
  guest that was acknowledged is recorded, both ends come to an end. A report is
  filed under the name it gives (`manager.go:107`) and nothing compares that name with
  the sender, so "Ready" means that the *own* guest reported only as far as nothing on
  the host's guests gives another runner's name. The code assumes that and
  the models do not: they contain such reports, say what create promises in spite
  of them, and prove what the assumption adds (disagreement 3).
- **Health checks.** Runners that stopped are restarted. That nothing else is, the code
  does not achieve: it restarts any machine of the host that is shut off (disagreement 4). A
  status that an older check overwrote comes right again; a stopped checker comes
  to rest; the one-shot check reports on all it found.
- **Catalog.** A listing is complete or fails; the selected image is of the newest
  release that matches, is there, and is supported.
- **Provisioning.** "Ready", on the report of the own script, means that the runner serves; the token outlives what
  comes before its use; create ends, and trying again helps.

The `hazards` in `PROJECT.json` list, line by line, where these can go wrong.

## 2. Modules

### RunnerLifecycle, StorageOrder (with MCRunnerLifecycle, RunnerLifecycleProofs, StorageOrderProofs)

create, start, stop, destroy and health as interleaved processes. One step is
one libvirt call, so `pc[p]` is the call an invocation makes next:

| variable | in the system |
|---|---|
| `domain[n]` | the domain of a name: `uuid` (identified with the invocation that defined it, or `Host`), `active`, `persistent` (has a definition), `seed` (who wrote the seed it booted from) |
| `volume[k][n]` | who made the disk or the seed volume of that name, or `Nobody` |
| `pc`, `cmd`, `name` | where a process is, its subcommand, its argument |
| `handle[p]` | the uuid in the `libvirt.Domain` value it looked up |
| `phoned` | reports in the name of its runner that a create received: `to` the create, `from` the machine it made, or `Nobody` if somebody else sent it |

| action | code |
|---|---|
| `CreateSeedVolume` | `storage.go:271`: look up, replace, create, upload (and path), discard on failure |
| `CloneVolume` | `storage.go:173`: look up, replace (error dropped), clone, resize (discard on failure), path (no discard) |
| `CreateDomain` | `domain.go:42`: look up, destroy and undefine a namesake (errors dropped), define |
| `StartDomain` | `domain.go:146`: look up, start; shared by create, start and health |
| `WaitForPhoneHome` | `manager.go:52`, in outline; PhoneHome has the details |
| `StopDomain` | `domain.go:154` |
| `Destroy` | `manager.go:240`: `DestroyDomain` (`domain.go:170`), `DeleteVolume` twice (`storage.go:233`) |
| `Begin` | a process starts; a health check starts once per machine its listing shows as shut off (`checker.go:103-118`) |
| `CallFails` | any call returns an error; `OnFailure` says where the code goes |
| `Killed`, `GuestPowersOff`, `GuestPhonesHome` | a signal, the machines |
| `OtherwisePhonesHome` | a machine in `Open`, whatever it booted from, reports the name of any runner to the create that waits for it (`manager.go:88-118`) |

Two facts of libvirt carry the interleavings: a domain handle resolves by uuid,
so it misses a machine that was replaced, but a volume handle resolves by pool
and name, so it finds whatever is there now; and undefining a running domain
leaves it running without a definition until it loses power.

`StorageOrder` is the abstract specification of the commands together: a name's
volumes are made once and before its machine is defined, the definition is made
with all of them and goes once, volumes are deleted after that, and nothing comes
back. It knows which faults there may be: after a failed upload a create discards the
volume and gives the name up, an error or a kill signal makes it give the name up, and
only where calls may fail (the dropped errors of `domain.go:176-178`) are volumes deleted
under a definition that stayed. `KeepsStorageOrder` states that the commands implement
it: `Stage(n)` maps the definition of a name and the creates of it to `machine`,
`Storage(n)` the volumes to `storage`; lookups, starts, power-offs, uploads and everything
a lost race makes a command do are stutters.

`KeepsPromise` states that every create of the lifecycle implements `Rendezvous`, with
what it tells its user as the outcome (`Verdict`), the reports of its own machine as what
was reported, and those of anybody else in its name as what was claimed.
PhoneHome implements the same specification with the retries, deadlines and ports that RunnerLifecycle leaves out, so the two meet in it.

### ImageCache, SharedCache (with MCImageCache, ImageCacheProofs)

`Manager.EnsureInfrastructure`: `EnsureImagesPool` brings both pools up (defining
and building `images` if it is missing, undefining it when the build fails),
`CacheImage` and `CacheRunnerTools` look a volume up by name and make it when it
is missing. `pool` has the pools, `cache[a]` the volume of each artifact: who
makes it and what it holds (`"partial"` from its creation until its upload
ended, then `"good"` or `"bad"`). `DiscardVolume` is the deferred deletion of
both functions. `troubled` is a history variable: some call failed by itself, a
download was bad, or somebody was killed.

`SharedCache` is what creates promise each other about the two volumes: one that its
maker has let go of (`Kept`) stays as it is, and it is whole unless something went
wrong by itself. ImageCache implements it (`KeepsCache`, with `Volume(a)` as what the next
create finds), and so does Provisioning, which has one step where ImageCache has ten
calls: a step of Provisioning never does to a volume what the calls could not.

### PhoneHome, Rendezvous (with MCPhoneHome, PhoneHomeProofs)

The vsock exchange between the process of a create and distaff in its guest.
`host[p]` and `WaitForPhoneHome` are the polling loop (`CheckDeadline`,
`ReadEvent`), `acceptPhoneHome` the goroutine of a connection (`StoreEvent`, then
`Acknowledge`), `send` the retry loop of the guest (`Dial`, `WritePayload`,
`ReadReply`, `GiveUp`). A connection survives the attempt that opened it: the
handler goes on with a payload whose sender gave up. Ports are handed out again
when their process has ended, so a guest may report to a later create.
A guest runs distaff once with the name of its own seed (`RunDistaff`); in a guest of `Open`
somebody else may run it instead, with any name and any port (`RunOtherwise`). `told[g]` is
the name guest `g` gives, and `StoreEvent` files the report under the name in the payload,
as `manager.go:107` does. `claimed` collects the names given by others.
`Rendezvous` is what create promises all the same (ready only after a report in the name of
this runner, decided once); `KeepsPromise` states that PhoneHome implements it. A create that
is killed, or fails before its wait, is `"failed"`.

### HealthChecker (with MCHealthChecker, HealthCheckerProofs)

The checker of `internal/health`: a loop whose every tick starts a goroutine for
each machine of a listing (`checkAll`) and never waits for them, a one-shot
`HealthCheck` that does wait, and the map of statuses both write. `checks[k]`
counts the goroutines in the same situation `k`: which machine, who started
them, and what they do next (`"recover"`, `"address"`, `"poll"`, or store
`"healthy"` or `"unhealthy"`), which is all that tells them apart. What a
goroutine does depends on what the *listing* saw (`Branch`), while `machine[m]`
goes on changing. `Runners` are the machines that the tool made: the code never asks for
it, only the properties do. Failing calls are actions of their own (`ListingMisses`,
`CheckFails`), so that a property can say "when calls stop failing".

### Versions, ImageCatalog (with MCImageCatalog, ImageCatalogProofs)

`Versions` is `compareVersions` on tuples of numbers, stated as the order it computes
(`Above`) and not as its loop, and the text of a build identifier as ranks of
characters, so that `sort.Strings` is the same comparison of other tuples.
`ImageCatalog` is one listing or selection, one page read per action, against publishers
that change between two pages:

| variable | in the system |
|---|---|
| `request` | distribution, release, architecture, format, LTS; list or select |
| `pc`, `todo` | the page asked for next; publishers still to be asked |
| `noted`, `rest`, `found` | what the earlier pages said: support of each release, Debian releases to search, the build the search returned |
| `listing`, `chosen` | `result` of `listImages`; the first of `matches` |
| `offered`, `status` | what the publishers have at this moment |
| `steady`, `ever`, `was` | history: whole artifacts offered all along, those offered at some moment, statuses a release has had during the listing |

| action | code |
|---|---|
| `listImages` | `catalog.go:62`: the sources of a distribution |
| `ReadIndex`, `ReadCatalog`, `ReadDates` | `ubuntu.go:50`, with `parseUbuntu` |
| `ReadLifecycle`, `Search`, `debianImage`, `SearchEnds` | `debian.go:48`: the supported releases, for each the latest build, its details |
| `ReadCurrent`, `ReadArtifacts` | `fedora.go:37`, with `parseFedora` |
| `RequestFails` | any page: `http.go:11-51`, no second try |
| `selectImage`, `ListImages` | `catalog.go:131`, `58`: filter, sort, take the first |
| `Publish`, `Withdraw`, `EntersPeriod` | the publishers |

The history variables say what can be expected of a listing that takes a while: it owes
nothing about an artifact that came or went meanwhile, and everything about one
that was there all along.

### Provisioning (with MCProvisioning, ProvisioningProofs)

`tender create` as its user sees it, from the options to a runner that serves, tried
again until it succeeds, against a clock. It composes what the other modules have in
detail: one step stands for each of EnsureInfrastructure's volumes (ImageCache), for
building the machine (RunnerLifecycle), for the choice of the image (ImageCatalog), for
the report (PhoneHome). What it adds is time, the token and the guest's script.

| variable | in the system |
|---|---|
| `command` | `--token` or App or `gh`; whether an organization and a repository are given |
| `pc`, `spent` | what createCmd does next, and how long it has been doing it |
| `token`, `age` | where the token came from, and how old it is |
| `volume`, `downloads` | what the images pool holds of the newest releases; what this create downloaded |
| `guest` | the command of the cloud-init script that comes next, or why it stopped |
| `registered`, `serving`, `event` | what the script has achieved: GitHub knows the runner, its service was started, create has the report |
| `events`, `troubled` | failures so far (bounded); whether one hit this create |

| action | code |
|---|---|
| `Connect`, `getInstallationID`, `GetInstallationToken`, `GetRunnerRegistrationToken`, `RunGh` | `main.go:95-124`, `app.go`, `cli.go`; the App takes an answer without a token, `gh` does not |
| `NeverAnswered` | `http.Client{}` (`app.go:85`, `124`, `155`) and `gh` have no deadline |
| `Lookup`, `Download`, `LeftAsItIs` | `storage.go:495-572`, and what a create that fails or is killed leaves of a download; the image is compared with a digest, the runner archive with nothing |
| `Validate` | `config.go:38`, `manager.go:189`: options and token are looked at here, after the downloads |
| `StartMachine`, `ReadEvent`, `WaitTimesOut` | `main.go:144-160` |
| `RunCommand` | `cloudinit/config.go:70-81` under `set -eux` |
| `Pass`, `PassForGuest` | time, in the steps that may be long: a download, the wait, the guest |

## 3. Runs

| run | instance | what it shows |
|---|---|---|
| `lifecycle_faults` | 3 invocations, all commands, 2 runner names, 1 machine of the host; calls fail, processes are killed, reports in any name from every machine (`Open`); 436 970 states | `KeepsStorageOrder` and `KeepsPromise` (refinements), `OnlyOwnStorage`, `NoSilentLeak`, `DestroyedStorageIsGone`, and the inductive invariant `IInv` |
| `lifecycle_calm` | 4 invocations, 1 runner name, 1 machine of the host, kill signals but no failing calls; 1 008 790 states | `KeepsStorageOrder` with `MayFail` false: no volume goes while a definition refers to it; `QuietConsistent`: at rest a runner is whole or gone; and the invariant `CalmIInv` |
| `lifecycle_stopped` | finding 1 | `DeletesOnlyStopped` is violated |
| `cache_faults` | 3 overlapping creates; failures, kills, bad downloads; 10 962 states | `OnlyMakerDiscards`, `BadImageTraced`, `PartialToolsTraced`, `PoolUsable`, `RaceHasWinner`, `KeepsCache` (refinement), and the inductive invariant `CacheIInv` |
| `cache_overlap` | finding 2 | `DeliveredIsVerified` is violated |
| `phone_home` | 2 creates on 1 port, 2 attempts per guest, every dial, write and read may fail, one guest may report any name to any port; 221 261 states | `KeepsPromise` (refinement), `AckedIsStored`, and the liveness properties `GuestEnds`, `StoredIsSeen`, `CreateEnds` |
| `phone_home_claimed` | finding 3 | `ReadyHasReported` is violated |
| `phone_home_timeout` | finding 5 | `TimeoutMeansSilence` is violated |
| `health` | 1 runner, 3 goroutines of the loop, one-shot checks, failing calls; 46 200 states | `HealthCheckCovers`, `HealthIInv`, and the liveness properties `StoppedGoesQuiet`, `HealthCheckEnds`, `Recovered`, `Converges` |
| `health_foreign` | finding 4; 1 runner and 1 machine of the host | `RestartsOnlyRunners` is violated |
| `catalog` | 5 releases of 3 distributions, 9 artifacts, 8 requests, 2 changes by the publishers; 437 733 states | `NothingLeftOut`, `NewestRelease`, `SelectedIsSound`, `Orderly`, and `CatalogIInv` |
| `provisioning` | 7 combinations of options, 3 failures or releases, a clock of quarters of an hour; 36 398 states | `ReadyMeansServing`, `RefusedMeansCold`, `OnlyAgeFails`, `KeepsCache` (refinement), `ProvisionIInv`, and the liveness properties `CreateEnds`, `RetryHeals` |

**Bounds.** Three invocations are enough for every interaction of RunnerLifecycle: a
create, a command that acts on its machine, and a third that comes between two
of its steps; two names and a foreign machine let commands work on different
machines at once. What breaks the order of one runner's storage happens to one runner, so
`lifecycle_calm` has a single name and a fourth invocation instead: a create, two
destroys and something that starts the machine between them. In ImageCache the third create meets what the race of two
others left behind. In PhoneHome one port suffices for the interesting
case, a port handed on from one create to the next while the first guest still
dials; creates on different ports do not meet. `MaxAttempts` is 2 instead of 10:
one attempt that is given up and one that is made while its handler still runs.
One open guest is enough for a report in the name of the other runner, before or after that
runner's own, to the create of either; in `lifecycle_faults` every machine is open,
that of the host too. `lifecycle_calm` is about volumes and definitions, which reports do
not touch, and has none open. `health` has a runner only, since `Recovered` owes nothing to
other machines.
In HealthChecker a goroutine touches one machine and its own entry of the map, so
the liveness of each machine is checked on one; what does span machines, that a
call covers all it found, is proved for every number of them. Three goroutines
of the loop overlap on it with the one of a call (`MaxChecks` guards a round).
In ImageCatalog two releases of Ubuntu and Debian each make a choice, one of
Fedora suffices because it is listed by the same sort; two changes are enough for one
on each side of a page that depends on an earlier one. In Provisioning the unit is a
quarter of an hour: a token lives for 4, a download may take 2, the wait 1, so that
one download and the wait leave time and two downloads do not (`TimesKnown` asks
only for `TokenLife > DownloadTime + WaitTime`). Three events are enough for a create
that fails, a damaged volume, and a failure of the create after it.
The proofs do not depend on any of these numbers.

**Symmetry.** Invocations and runner names are permuted in the runs without
liveness; `phone_home` has none, and in `catalog` and `provisioning` the constants are records.

**Deadlock.** `CHECK_DEADLOCK FALSE` everywhere: commands are finite, and when all
have ended (and guests with them) nothing more happens. In `provisioning` this is the create
that is ready and whose guest has ended its script.

**Fairness.** RunnerLifecycle and ImageCache state safety only: a command is a
finite sequence of calls without loops. PhoneHome has loops. Its `Fairness` is
weak fairness of the waiting loop of create and of the loop of distaff, each of
one running goroutine that the Go runtime and the kernel schedule. Nothing is
assumed of the goroutines that serve connections (a guest's end must not depend
on the host) nor of machines being started. `StoredIsSeen` holds without a
clock; `CreateEnds` has the progress of the clock as its premise. Every read
deadline and the guest's context may end any wait, so they are part of `send`.
HealthChecker assumes that the ticker fires, that goroutines run and that
deadlines pass; a select that finds its stop channel closed and a tick ready
picks one at random, so it does not overlook the closed one forever. `Recovered`
and `Converges` have as their premise that calls fail only finitely often.
Provisioning assumes that calls return or reach their deadline (`Create`, `Pass`), that
the guest's script goes on (`RunCommand`), and that the user tries again (`Begin`);
calls to GitHub have no deadline, so `NeverAnswered` ends a create in `"hung"`, which
both liveness properties have to except, as `RetryHeals` has to except a damaged volume.

**Type invariants.** Every module has a `TypeOK`, proved by itself. In most runs TLC checks it as
the first conjunct of the inductive invariant (`IInv`, `CacheIInv`, `PhoneIInv`, `HealthIInv`,
`CatalogIInv`, `ProvisionIInv`).

**Mutants.** For every property of a passing run, `PROJECT.json` names a faulty
variant of a definition (an operator marked "Faulty variant" in the modules, used
nowhere else) with which that run finds the property violated.

## 4. Proofs

All for any sets of invocations, names, machines, releases, runners and ports, and for
either value of the switches unless stated. The constants are assumed to be what the
named ASSUMEs of their modules say and nothing else.

| module | inductive invariant | properties proved | abstract specification implemented |
|---|---|---|---|
| RunnerLifecycleProofs | `Ownership` | `OnlyOwnStorage`, `NoSilentLeak`, `DestroyedStorageIsGone`, `ReadyIsOwn`; own reports only if no machine is open (`ClosedMachinesReport`) | Rendezvous (`CreatesKeepPromise`) |
| StorageOrderProofs | `IInv`, and `CalmIInv` if `~MayFail` | `QuietConsistent`, `DeletesOnlyUndefined` if `~MayFail` | StorageOrder (`CommandsKeepOrder`) |
| ImageCacheProofs | `CacheIInv` | `BadImageTraced`, `PartialToolsTraced`, `PoolUsable`, `RaceHasWinner`, `OnlyMakerDiscards` | SharedCache (`CreatesKeepCache`) |
| PhoneHomeProofs | `PhoneIInv` | `AckedIsStored`; `ReadyHasReported` of a runner if no other guest is open (`ClosedGuestsReport`); safety halves of `GuestEnds`, `StoredIsSeen`, `CreateEnds` | Rendezvous (`WaitKeepsPromise`) |
| HealthCheckerProofs | `HealthIInv` | `HealthCheckCovers`; safety halves of `StoppedGoesQuiet`, `HealthCheckEnds`, `Recovered`, `Converges` | |
| ImageCatalogProofs | `CatalogIInv` | `NothingLeftOut`, `NewestRelease`, `SelectedIsSound`, `Orderly`; `LatestUbuntuBuild` if `TextAgrees` | |
| ProvisioningProofs | `ProvisionIInv` | `ReadyMeansServing`, `RefusedMeansCold`, `OnlyAgeFails`; safety halves of `CreateEnds`, `RetryHeals` | SharedCache (`ProvisioningKeepsCache`) |

Each also proves type correctness. A refinement is proved as initial states that map to
initial states and steps that map to steps or stutters, from the inductive invariant.

**RunnerLifecycleProofs.** None of the safety properties is inductive by itself;
`Ownership` adds what connects the pieces. The model gives no name to two creates
(`GeneratedName`): the command line draws names from 64 random bits.

- `OneCreate`, `VolumeMade`, `DomainDefined`: of every name at most one create, which
  made its volumes and its domain. So the unconditional replacement in
  CreateSeedVolume and CloneVolume finds nothing but its own.
- `HandleDefined`: what a handle holds was defined by a create that is past its
  definition and never touches storage again. So a destroy that looked a machine
  up has both volumes before it, and nobody makes one behind its back
  (`DestroyProgress`, hence `DestroyedStorageIsGone`).
- `Accounted`: storage without a definition belongs to a create that has not
  defined its domain or failed, or to a destroy that has not succeeded. This is
  `NoSilentLeak` with `persistent` in place of existence, which is inductive
  because only an undefine of a destroy, or a power-off after it, changes it.
- `BootedOwnSeed`, `PhonedOwn`: a machine boots only from the seed of its own
  create, so the report of its script goes there; any other report in the name of the
  runner is somebody's claim. So a ready create has one or the other (`ReadyIsOwn`), and
  `CreatesKeepPromise` needs no more: a verdict changes only when its create ends.
  `ClosedMachinesReport` adds that without open machines there are no claims, so that ready
  means the own machine reported: names and seeds are never mixed up by the
  commands themselves, whatever races and failures there are.

**StorageOrderProofs**, on top of it. `Inductive` adds `CreateBuilds` to `Ownership`:
exactly which volumes exist at each call of a create, also on the error paths (`MadeBy`),
and that the calls that replace something are never reached. That is what a step of
StorageOrder needs, so `CommandsKeepOrder` has no assumption on the faults. The rest
assumes `~MayFail` and nothing of kill signals. A destroy gets past its undefine only
without a definition (`UndefinedByThen`, from it `DeletesUndefined`), and none comes back,
because its maker is past defining. What is defined is whole (`DefinedIsWhole`), and what is
not is being built, or some destroy has yet to come to the volume, or somebody was
killed over it (`BuiltOrDestroyed`): even when two destroys race, the one that stays
behind deletes what is left. From it `RestIsWhole` (QuietConsistent).

**ImageCacheProofs.** `CacheIInv` has three parts. `MakerIInv`: whoever is between the
creation and the end of an upload is the maker of the volume (`MakerHolds`), and no step
takes an active pool down. `ContentKnown`: half a volume is never taken for done, and a bad
one was a bad download. `RaceIInv` names, for each state of the pools and volumes, where a
create stands that has not lost (`Leading`), and that there always is one unless
something went wrong by itself; so one of them wins (`RaceIsWon`), for any number of
creates. `CreatesKeepCache` needs the first two: the only calls that change what counts
are the last of a successful maker, and the failed deletion or death of another.

**PhoneHomeProofs.** `PhoneInductive`: what a handler holds after decoding was sent,
what it answers was stored, a name that was stored was given by its own guest or claimed by
another, and a connection leads to the listener of the port its guest was told, because a
port has one listener and is freed only by its end. From it `AckMeansStored` and `WaitKeepsPromise`. `ClosedGuestsReport`: where no
guest but possibly that of the runner itself is open, ready means that its own guest has
sent its report, although ports are reused and reports late, because a guest gives no name
but its own. `AttemptsRunOut`: each step of
distaff lowers `StepsLeft` (three for an attempt, one to give up) and no step of the
host or of another guest raises it. `LookEndsWait`: a waiting create keeps its event and
its expired deadline, and its next look at one of them ends it.

**HealthCheckerProofs.** `HealthInductive`: during a call, a machine it found has a
status or a goroutine of the call, because a goroutine that goes on keeps its
machine (`ProceedKeeps`) and one that ends has stored a status. From it
`CallerSeesAll`, whatever the loop writes meanwhile. `GoroutinesWindDown`: once the loop
has ended nothing starts goroutines of its rounds, nor of a call while it waits, and
every step of one lowers the steps they have left together; `EndIsFinal`: the loop does
not come back. `DoubtsRunOut`: while a machine stays up, the goroutines that may still call
it unhealthy get no more, and each such result costs one of them, so older checks
overwrite its status only finitely often. `RecoveryIsKept`: a recovery of a machine that is
off does not end while it stays off. Both have the absence of failing calls as their premise, as
the liveness properties have.

**ImageCatalogProofs**, for any releases, artifacts and requests. `VersionsAreOrdered`:
`compareVersions` is a total preorder of tuples of any lengths. `CatalogInvariant`:
what a page said was true when it was read (`ReadWasTrue`), an image that is not listed
is on a page still to be read (`NotYet`, `Covered`), the build that was found is the latest
(`FoundIsLatest`), of each product one image is listed (`ListedOnce`), of Ubuntu the one
whose build is last as text (`LastInText`). From it
`ListingIsComplete`, `SelectsNewestRelease`, `SelectsSoundImage`, `ListingIsOrdered`.
They assume of the publishers what `IdentifiersTell` says: no two builds of a product have
one identifier, and file names tell products apart. `LatestWhereTextAgrees` says what the
code needs for the latest build of Ubuntu to be the one it lists: texts and numbers must
order the builds of each product alike, which they do below ten builds a day.

**ProvisioningProofs**, for any limits with `TokenLife > DownloadTime + WaitTime` (the code's
are an hour, which is GitHub's, against 30 and 15 minutes). `ProvisionInductive`: a token is
no older than the downloads of this create and its present step (`AgeOfToken`), each
volume is downloaded at most once and only when it is missing (`DownloadsMissing`), the
guest has done what comes before its present command (`ScriptInOrder`). From it
`ReadyServes`, `OneCacheSuffices`, `FailureIsExplained`, and `ProvisioningKeepsCache`.
`FailureFillsCache` and `CachedIsUsed` are why trying again helps: a create that gets a
token and fails without trouble leaves both volumes, and the next one downloads neither, so that its token
lasts by `OneCacheSuffices`. `CreateRunsOut`: nothing takes a create back to an earlier step,
and a step that may be long uses up its limit.

**Only model-checked:** the liveness properties themselves (`GuestEnds`, `StoredIsSeen`,
both `CreateEnds`, `StoppedGoesQuiet`, `HealthCheckEnds`, `Recovered`, `Converges`,
`RetryHeals`), since they rest on fairness, whose ENABLED the prover does not have. What is
proved of each is the safety half: a measure that every step of the waiting process lowers
and nobody raises, or a condition that stays until it is looked at. What fairness adds, that
the step is taken at all, is TLC's part.
No definition about which something is proved is recursive by operator; what
a recursive function computes (`digits`) enters the proofs only through the
assumption that it is a tuple of numbers (`ArtifactsKnown`).

## 5. Disagreements between the code and what is said of it

1. `lifecycle_stopped`: destroy powers a machine off, then undefines it. If a
   health check (or the create itself) starts it in between, the undefine leaves
   it running, and its disk is deleted under it (`domain.go:175-178`,
   `manager.go:246`). DIG.md:324-325: "delete only after confirmed shutdown+undefine".
2. `cache_overlap`: a volume another create is uploading counts as cached
   (`storage.go:500-503`). storage.go:488: "CacheImage downloads and verifies an image
   on first use". The same happens after a create was killed in its upload
   (`BadImageTraced` names the culprit), and to the tools ISO (`PartialToolsTraced`), whose
   content is never compared with a checksum at all (`storage.go:349`).
3. `phone_home_claimed`: a report is filed under the name it gives (`manager.go:98-107`),
   so one of another guest makes create say "Ready" (`cmd/tender/main.go:157`) of a runner
   that has not reported. DIG.md:326-327 demands "authenticate phone-home"; FINDINGS.md:79 (#7)
   describes it.
4. `health_foreign`: a check starts every machine of the host that is shut off
   (`checker.go:110-118`, listed by `domain.go:260`). checker.go:148: "HealthCheck performs a
   one-time health check on all runners"; FINDINGS.md:18 (#1) describes it.
5. `phone_home_timeout`: an event that is stored during the last two-second sleep is
   never looked at (`manager.go:54-63`), and create says "VM started but never phoned
   home" (`cmd/tender/main.go:155`).

Remarks, which no run refutes:

- DestroyDomain drops the errors of its power-off and its fallback undefine
  (`domain.go:170-179`), and destroy goes on to delete the volumes: a definition can survive
  its storage (FINDINGS.md #2). `StorageOrder.Delete` therefore allows that where calls may
  fail (`MayFail`), and no property of `lifecycle_faults` objects; that failed calls are
  the only way to it is what `lifecycle_calm` and `DeletesOnlyUndefined` say.
- A create killed between `StoragePoolDefineXML` and the build leaves a pool without a
  directory, which later creates start without building it, and fail (`storage.go:64-72`,
  `101`), until somebody undefines it. `PoolUsable` says that none of them goes on with such a
  pool.
- Ubuntu's builds are sorted as text (`ubuntu.go:92-93`): of "20260731.2" and "20260731.10" the
  former is taken for the latest, while Debian's builds are compared by number
  (catalog_test.go:143). The invariant of ImageCatalog says which build is listed
  (`LastInText`), the theorem `LatestWhereTextAgrees` when it is the latest.
- The storage layer replaces a volume of the same name, whoever made it
  (`storage.go:180-183`, `276-279`), where DIG.md:324 wants to "reject duplicate names". No
  command can be given a name, so it never happens; the mutant `GeneratedNameRepeats`
  of `OnlyOwnStorage` shows what it would do.
- `Stop` of the health checker is not final: checks in flight, or of a tick that the
  select preferred, still restart machines (`checker.go:54`, `79-86`, `117`).
  `StoppedGoesQuiet` is what does hold. A second `Stop` panics.
- One publisher that does not answer fails `images list --distro all` as a whole, and
  `images select all` always fails, since no image has that distribution
  (`catalog.go:135`). A Debian release whose newest build is incomplete disappears
  (`Hidden`). An empty answer of the lifecycle page panics (`debian.go:112`).
- `--repo` alone passes Validate, but the script registers with an organization only
  (`cloudinit/config.go:78`), so such a create ends in its timeout. Options are looked
  at after the downloads, an empty token of the App too.
- FINDINGS.md:138-145 knows that the token is obtained before the downloads.
  `RefusedMeansCold` says when that matters, `RetryHeals` that a second try helps.

## 6. Abstractions and limits

- A libvirt call is atomic and, when it returns an error, had no effect; except
  that the build of a pool may leave its directory. An answer that is lost after
  the call took effect is not modelled.
- The path of a seed is asked for in the step of its upload, the autostart mark of
  a pool is read and set in one step, the image is requested in the step that
  creates its volume: errors of either lead to the same place.
- A health check of several machines, which runs a goroutine for each, is one
  invocation per machine in RunnerLifecycle. The goroutines share only the status
  map, which HealthChecker has.
- In HealthChecker a listing is one step, and so are a lookup by name and the
  call after it: names are not given to a second machine, so a machine that
  goes in between makes both fail alike. The order of `LastCheck` is left out.
- A plain undefine may be refused at any time (a domain with an NVRAM file).
- The contents of a seed are who wrote it. A machine's own report goes to the create whose
  seed it booted from, while that runs.
- Reports that reach a create under the name of another runner are left out of
  RunnerLifecycle: they are stored under that name, which this create never looks up, and
  the event map ends with the process. PhoneHome has them.
- In PhoneHome a guest runs distaff once, with one name, whether its script does it or
  somebody else. `Open` says in which guests somebody else may. Provisioning has a
  single guest, which reports only through its script.
- `StoredIsSeen` counts a timeout as an end of the wait: that a stored event is *used* is
  what `TimeoutMeansSilence` asks, and the code does not do it.
- A name of a machine of the host has a disk volume of the same scheme (as
  virt-manager names them) and no seed volume.
- All creates select the same image and the same runner release: the caches hold
  one volume each. Other names would be other, independent volumes.
- PhoneHome does not measure time. The deadlines may pass whenever the code
  waits; that ten attempts of 13 seconds exceed the two minutes of the context
  is therefore covered but not quantified. A payload is the name it gives.
- ImageCatalog: names of releases, architectures and file names are values; a page is
  read at one moment; of a page's content only what its parser looks for remains
  (`whole`). Numbers too large for an `int`, and more than the 50 results a Debian
  search returns, are left out. Debian's search asks for amd64 whatever is requested.
- Provisioning: time passes in downloads, in the wait and in the guest, not in the short
  requests. One create at a time, repeated with the same options; overlapping
  ones are in ImageCache. The guest of a create that failed is out of the model when the
  next one begins. Commands of the script that fail are one action; packages that cloud-init
  cannot install do not stop the script. Whether a damaged volume harms the guest, and
  where, is left open. The cached volumes of older releases are never deleted by the
  code and do not matter here.

### Not modelled

- **Reading commands** (list, status, wait, console) and `ForceStop`, which no command calls.
- **Network and connection** (`network.go`, `client.go`): a lookup-or-start that no command
  calls; one connection per process.
- **Configuration, logging**: read once, written only; nothing else depends on them.
- **ISO writer and the other templates** (`isoimage.go`, meta data): formatting without state.
- **repo-check**: a development tool outside the system.

## 7. Plan

Done: every component with state or control of its own, with an inductive invariant and
proofs of its safety properties; three abstract specifications (StorageOrder, Rendezvous,
SharedCache), the last two each implemented by two modules, so that the modules meet in
them; the liveness properties checked by TLC and their safety halves proved. What could
be added:

1. Connection of RunnerLifecycle's wait to PhoneHome's ports in a composed module, so
   that the port a seed names is the one PhoneHome hands out.
2. The page limit of the Debian search, when a release has more than 50 builds.
