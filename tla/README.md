# WMesh: specifications, model checking and proofs

WMesh consists of one WAN server (`global/server`) and one server per factory
(`factory/server`), both in Go over PostgreSQL, with React front ends. The WAN holds
the directory: which factories exist, which field devices ("clients", "pads") belong to
which factory, which releases of the software there are, and a library of platform
assets (welding processes, and projects that pin processes). A factory works on when the
WAN is out of reach: it has its own people, units, pads and library, follows the
directory when it can, and receives the platform assets granted to it. The
specifications here are about what an order of events nobody wrote a test for can do to
that: overlapping requests in a database at READ COMMITTED, MQTT sessions and bounded
queues, background rounds, retries, and restarts on both sides.

## The system

| part (source directory `internal/` of the server) | state | operations | touches |
|---|---|---|---|
| WAN client directory (`global store/client.go`, `service/client.go`) | owner and binding revision of a client | register, bind, rebind, unassign, assign, rename: commit, audit, notify | publishes to factories |
| WAN factory directory (`store/directory.go`, `service/directory.go`, `service/pull.go`) | status, lifecycle revision; `channel_connected_at` | disable, enable, retire; answer the index | publishes, drops sessions |
| WAN MQTT broker (`platform/mqttbroker/broker.go`) | sessions and undelivered instructions (in memory), connection table, parked questions | publish, call, drop; hooks on connect and disconnect | writes the directory's presence |
| factory WAN channel (`wanchannel/hold.go`, `software.go`) | queue of accepted instructions, dirty set, round in progress, software jobs | receive, apply, first round, background rounds, reconcile, leave | HTTPS pulls, factory database |
| factory channel loops (`hub/channel.go`, `wanchannel/lease.go`) | the channel's context, online flag | dial again, renew the lease, stop after retirement | lifecycle row, lease |
| factory binding table (`store/node.go`, `service/node.go`) | clients: bound or void, revision | accept, void, void by revision, reconcile | credentials of devices |
| factory lifecycle row (`store/lifecycle.go`, `service/lifecycle.go`) | status, revision, names | apply, close from WAN, put name, put short code | gate of the factory's logins |
| content lease and keys (`global store/content_lease.go`, `factory store/crypt.go`, `contentkey`) | lease key at the WAN; wrapped master key, keys in memory, sealed bodies | issue, apply, rotate, seal left-overs, clear | every asset body |
| software releases (`global service/update.go`) | release rows and objects | publish, finish, prune, serve | announces to factories |
| software of a factory (`factory service/update.go`, `wanchannel/software.go`) | replica rows, objects, part files | announce, download and resume, verify, confirm, prune | the update files |
| self-update (`platform/appupdate`, `service/update.go`) | pending, package and result files, recorded installation | confirm, load, switch, report, prune images | the server's container |
| weld figures (`service/stats.go`, `wanchannel/weld.go`, `global service/stats.go`) | a pad's outbox, the factory's facts, the WAN's summary | flush, merge, push, ingest | HTTPS posts |
| tenant hub and enrollment (`hub/hub.go`, `global service/enrollment.go`) | open databases, enrollment code, public keys | claim, open, draw a key, close | starts the channel loops |
| device channel (`platform/clientmqtt`, `service/node_channel.go`) | sessions of pads, roster of people online | connect, take over, end, kick | presence |
| accounts and sessions (`service/auth.go`, `store/account.go`) | people, grants, sessions | log in (pad and browser), enable, disable, grant, revoke, reset password, change unit | |
| organisation (`service/org.go`, `store/org.go`) | units and their parents, members | create, hang elsewhere, disable, enable, delete | |
| asset governance of the WAN (`global service/asset.go`, `store/asset.go`) | rows with revision, weld kind, dependencies, content | create, promote, patch, bind, copy, delete | delivery |
| asset governance of a factory (`factory service/asset.go`, `app.go`, `store/asset.go`) | own rows, replicas of platform assets | as above, and share, content from pads | |
| delivery (`global service/notify.go`, `closure.go`, `template.go`; `factory service/distribute.go`, `template.go`) | grants, announcements; replicas, retractions | announce, pull, apply a closure, retire, full round | the channel |
| directory trees (`service/fs.go`, `store/fs.go` of both) | a tree per area: parent, name | insert, rename, move, copy, delete, prune, send and apply a layout | assets |
| legacy import (`service/legacy.go` of both, `legacyimport`) | a batch of old files, the library | plan names and identities, write processes, map references, write projects | governance, trees |
| authorisation, WAN administrators, signing, HTTP APIs, blob stores, front ends | | | not modelled, see below |

What is hard, and the properties about it (the full list with lines is under `hazards`
in `PROJECT.json`):

* **The channel.** Publishes outside the lock that ordered the commits; redelivery; a
  full queue; a WAN restart that forgets undelivered instructions; rounds that end by
  voiding what a stale index does not list: `BindingFollowsContract`, `OwnerKnows`,
  `OwnerLearns`, `FactorySettles`, `IInv`. A mutex, a timer and a one-slot channel shared
  by three goroutines: `NoneStranded`, `NeverTooSoon`, `WantServed`, `LossTried`. A
  shutdown that joins goroutines which wait for each other: `HoldEnds`.
* **One row, two writers.** Unlocked read-modify-write of the lifecycle row:
  `LifecycleInv`, `StatusArrives`, `BootCloses`; of an asset: `NoLostUpdate`; of two
  assets that have to agree: `DepsExist`, `WeldKindsAgree`, `SourcesUnique`, `FactoryInv`;
  of several accounts: `AdminsKept`, `NewestPadStays`; of a unit and its members:
  `ReferencesExist`; of a tree: `PTreeInv`, `FactoryTreeSound`.
* **Hooks and sessions.** Old and new connections end and begin side by side:
  `ShownIsConnected`, `GhostEnds`, `RosterIsConnected`. Answers cross timeouts:
  `OwnAnswer`.
* **Delivery.** What was pulled is applied after the world has moved: `RoundMirrors`,
  `AssetsArrive`, `LayoutTaken`, `SameContent`, `NewestComplete`, `LatestArrives`,
  `FiguresArrive`.
* **Keys and crashes.** `BodiesOpen`, `ClaimedOnce`, `NotDisturbed`, `Settles`.
* **Naming.** Names, paths and serial numbers cross in one batch, which is imported
  again: `RefsAreFiles`, `NoCopies`.

## Modules

| module | models | checked by | proofs in |
|---|---|---|---|
| `ClientRegistry` | the client directory and the admin calls between commit and last publish | | |
| `FactoryBinding` | one row of a factory's clients table: what accept, void and reconcile do to it | | |
| `BindingContract` | abstract: what following the directory means, without messages | | |
| `BindingSync` | the first two composed through sessions, queues and rounds; implements `BindingContract` | `binding_faults`, `binding_live` | `BindingSyncProofs` |
| `Resync` | the dirty set and its goroutine in detail (in `BindingSync` it is one bit) | `resync` | `ChannelProofs` |
| `Lifecycle` | the status row, the two goroutines that write it, stopping the channel | `lifecycle` | `ServicesProofs` |
| `Presence` | the broker's hooks, connection table and the presence row | `loops` | `LoopsProofs` |
| `HoldJobs` | what a connection leaves running, and how `Hold` joins it | `loops` | |
| `WeldPush` | figures from a pad's outbox to the WAN's summary | `loops` | |
| `SelfUpdate` | the factory server's replacement of itself, with its updater | `loops` | `LoopsProofs` |
| `ContentLease` | lease key, master key, sealed bodies | `services` | `ServicesProofs` |
| `FactoryCall` | questions over the broker, parked until answered | `services` | `ServicesProofs` |
| `Enrollment` | a factory is claimed, opened and connected | `services` | `ServicesProofs` |
| `Accounts` | people, super-admin grants, sessions | `services`, `services_admin` | `ServicesProofs` |
| `OrgUnits` | units, parents, members | `services` | `ServicesProofs` |
| `PadPresence` | the factory's own broker and its roster | `services` | `ServicesProofs` |
| `PlatformAssets` | the WAN's library under several administrators | `platform` | `PlatformAssetsProofs` |
| `FactoryAssets` | a factory's library under people, pads and deliveries | `assets` | `AssetsProofs` |
| `LegacyImport`, `PlatformImport` | the import at a factory; at the WAN, where names are cut | `assets` | `AssetsProofs` |
| `DirTree` | one tree: the transactions of `store/fs.go` as operators | | `TreesProofs` |
| `PlatformTree`, `FactoryTree`, `TreeSync` | the WAN's tree; a factory's two trees (extends it); both together | `trees` | `TreesProofs` |
| `Releases`, `SoftwareSync` | releases at the WAN; the factory that follows them (extends it) | `software` | `SoftwareSyncProofs` |
| `Delivery` | grants, commands, rounds, replicas of assets and templates | `delivery` | `ChannelProofs` |

`MCLoops`, `MCServices` and `MCAssets` put several of these side by side for TLC. Their
variable `part` is chosen in the initial state and never changes; only the chosen part
takes steps, so the reachable states are the disjoint union of the parts' own, and each
part is checked as if it were alone. The parts share nothing. Where such a root states
fairness, one condition names an action of several parts (`InHold(Job) \/ InWeld(Dial) \/
...`): as at most one of them can ever be enabled, it is one condition for each of them.
The other `MC` modules add symmetry sets only.

A definition introduced by the comment "a plausible slip" (such as `AcceptSameRevision`
or `TakeKeepsArmed`) is used by no specification: it is the mutated form of the
definition below it, kept to show that a property depends on that part of the code.
Symmetry is used in runs without a temporal property only.

### State and code

**ClientRegistry.** `owner`/`rev` are `clients.factory_id` and `binding_revision`,
`fstate` is `factories.status`. An entry of `calls` is an admin call after its commit:
stage "audit" before `s.audit`, then "void" and "bind" before the two publishes of
`notifyClient`. `drops` are calls that owe `bus.Drop`. A failed audit ends the call
(`AuditFails`), a failed drop too (`DropFails`); `untold` is a history variable with the
factories such a call has left uninformed. `RegisterClient` with a factory is
`CreateClient` followed by `BindClient`, as in the code (two transactions).

**BindingSync.** `session` is what the broker holds for a factory's persistent MQTT
session, `known` whether it has one; `inbox` is Hold's `down` channel; `dirty` is the
dirty set; `round` is a round in progress, with `bindLog` as its `seen`. `conn` says
whether the first round (which runs before the main loop) or the main loop is on.
`Leave` is every return of `Hold`. `HandleCmd`, `ApplyIndexEntry` and `Reconcile` are
atomic because all of them hold Hold's handler mutex.

**Resync.** `marks` is `full` and `kinds`, `want`, `armed`, `fails`, `wait` are the
fields of `dirtySet`, `timer` includes the tick waiting in the timer's channel, `wake`
is the one-slot channel. `pc` is the goroutine; the label "woken" is the gap between
the `select` and `take` in which others can still mark. `fresh` is a history variable.

**Lifecycle.** `row` is the factory's one lifecycle row, `wan` the history of what WAN
decided at each revision. `pc` has one label per point between two database accesses
of the goroutines "hold" (`holdChannel`, `dialHold`) and "lease" (`keepLease`); `snap`
is the row as a transaction read it, `arg` what it is to write. `cancelled` is their
shared context, `online` the store's flag.

**Presence.** `pc` is the broker's goroutine of each connection, `lock` the factory's
lock, `table` its entry in `conns`, `row` whether `channel_connected_at` is set,
`missed` whether the last write of the row failed.

**HoldJobs.** `main` and `rounds` say where `Hold` and its background goroutine are,
`active` and `closed` are `softwareJobs`, `applying` is who holds the apply mutex,
`softwareIn` the table of downloads that outlives a connection. `Leaving` is Hold's
deferred part: cancel, join the rounds, refuse new jobs, join the old ones.

**WeldPush.** `outbox` is a pad's, `facts` the factory's table, `flush` a call of a pad
that merges fact by fact, `weldDirty` the one-slot signal, `push` the loop with the sum it
read, `summary` the WAN's. `askew` is a clock that makes signatures fail.

**SelfUpdate.** The shared directory's files, what the server has in hand (`confirm`,
`poll`), and the `updater`'s step; `before` is the image it would fall back to. Every
access to a file is a step of its own on either side: the loop of `apply.sh` tests for the
description, the package and the result one after another (`SeesPending`, `SeesTar`,
`SeesNoResult`) and reads the description after that (`UpdaterReads`), so `Stage` may take
it away in between and the updater reads none (`NoVersion`). Each of the two may die
between any two file accesses.

**ContentLease.** A body carries the key and the revision it is sealed with; `held` are
the keys in memory, `master` the wrapped row, `answers` leases under way to the
factory, which the two goroutines that apply leases may take in either order.

**FactoryCall.** `park` is `Broker.wait`; `deliver` is two steps, looking a channel up
and handing over (`handing`); a caller may give up between them.

**Enrollment.** A `claim` is a request on one of two servers; `hubs`, `channel` and
`renew` are per server. The code `good` until one claim has been answered for.

**Accounts.** A `request` of a super administrator or a login holds what it read until it
writes. A login by pad deletes the earlier pad sessions, one by browser does not.

**OrgUnits.** An `edit` looks in one step and writes in another, except where the code
does both in one statement. Deleted identities are not given out again.

**PadPresence.** The goroutine of each connection in the factory's broker, the sockets
already closed, `Broker.persons`, and the kernel's set of people online.

**PlatformAssets.** `rows` is the `assets` table, `retracted` the identities deleted for
good. `req` is what a call has read and has decided to write; the second step is the
transaction with its locks (`LockAssetDeps`, `GuardProcessWeldKind`, `RevisionMatches`,
`SourceTaken`). Promotion works from a snapshot given to it; copying a project copies
processes in transactions of their own and undoes them if a later one fails.

**FactoryAssets.** As above without most of the locks, with owners, roles and replicas;
`replicas` also plays the part of the delivery, one platform revision at a time. Content
and digest are apart, because a write may keep the content of the row and set the digest
of the one it was worked out from (`KeepContent`); `Intact` is what `loadChecked` looks
at. `PadIds` are the identities a teaching pad may choose, also those of a deleted row.

**LegacyImport, PlatformImport.** A name is a sequence of pieces, so that a suffix, a
serial number and the cut at `NameMax` do what they do in the code. `imp` is the import
in its phases (plan, write processes, write projects); `foreign` and `made` are history.
What is planned is a set, and `Upcoming` picks from it in the code's order: files by path
(`Place`), kinds of one file as in `legacyWeldOrder`. Of the processes with a file's
content `Rank` prefers those named exactly as the file would be, then those with a serial
number (`candidateRank`). Serial numbers are bounded by
`Numbers`; the code counts to 999 and then takes the label as it is, taken or not, where
the model's import stands still.

**DirTree and the trees.** A tree is a function from nodes to parent, name and area.
Each transaction is a guard and a result. A copy is one transaction per node, found by a
work list, as in the code. `mail` holds layouts published and not yet applied. A closure
carries the folders above its file as `FSLineage` reads them, one statement for each with
the WAN's moves in between (`FetchClosure`, `ReadFolder`), or no path when a read fails or
a folder is gone (`PathLost`); what was read is then a path of no tree (`torn`, history),
and `upsertPlatformFolderTx` stores it without looking for circles. After a folder the code
reads its parent a second time only to tell the root apart; that read is taken to succeed
or to lose the path. A layout is read in one statement.

**Releases, SoftwareSync.** `rel`/`obj` are the WAN's rows and objects, `pub` a
publication between its steps; `rep`/`blob`/`bad` the factory's, `pull` the one download
a version may have. A restart forgets `pull` and keeps the part files. One process serves
several factories, each with rows and part files of its own, but they share one object
store whose keys name kind and version only (`hub/hub.go:275`, `store/update.go:73`).
One factory is followed; the others put and prune the shared objects, and have the process
restarted with a package of theirs (`Neighbour`). Of their state only what they were told
of is kept, so they may do a little more than the code (a version that runs may be pruned
by them). `taken` (history) names the versions whose object one of them took or changed.

**Delivery.** `owed` are commands committed and unpublished, `queue` the session,
`hand` and `round.hand` what the main loop and the round have pulled and not yet applied.
What fails goes one of the two ways of `failed`: `Rejected` for what `contentRejected`
names (a refusal of the WAN, content or closures that do not fit, an asset code that is
taken), which is logged and leaves nothing to be made up for, and `Failed` for all other
failures, which mark another round.

Starting states are not always empty: libraries start with any small set of assets in
use, trees with any sound tree of the given nodes, accounts with any active or disabled
people as long as one super administrator is active, the lease with bodies in
plain text or sealed, the factory of `Delivery` new or in step. The programs meet such
states after an upgrade or a long life, and starting there saves the model the way.

## Runs

| run | checks | bounds | distinct states |
|---|---|---|---|
| `binding_faults` | `IInv`, `OwnerKnows`, `BindingFollowsContract` | 1 client, 2 factories (1 live), revision 3, 1 call, queue 1, session 1, 1 fault | 2.40 M |
| `binding_live` | `OwnerLearns`, `FactorySettles` | as above, revision 2 | 658 k |
| `resync` | `NoneStranded`, `NeverTooSoon`, `WantServed`, `LossTried` | 2 kinds, 3 failures, back-off 1 to 3 | 27 k |
| `lifecycle` | `LifecycleInv`, `StatusArrives`, `BootCloses` | 2 status changes, 1 fault | 37 k |
| `loops` | `ShownIsConnected`, `GhostEnds` (`Presence`); `HoldEnds` (`HoldJobs`); `FiguresArrive` (`WeldPush`); `NotDisturbed`, `Settles` (`SelfUpdate`) | 3 connections, 2 faults; 2 packages, 2 holds; 2 facts, 1 flush, 2 troubles; 2 releases, 1 death | 59.1 k |
| `services` | `BodiesOpen` (`ContentLease`), `OwnAnswer` (`FactoryCall`), `ClaimedOnce` (`Enrollment`), `AdminsKept` (`Accounts`), `ReferencesExist` (`OrgUnits`), `RosterIsConnected`, `NewestPadStays` (`PadPresence`, `Accounts`) | 2 bodies, 3 leases, 1 restart; 2 factories, 2 callers, 3 questions; 2 servers, 2 claims, 2 keys, 2 breaks; 2 people, 3 requests, 2 sessions; 3 units, 1 member, 2 editors, 5 edits; 2 devices, 2 people, 3 connections | 1.02 M |
| `services_admin` | `AdminRemains` violated | as above | |
| `platform` | `DepsExist`, `WeldKindsAgree`, `SourcesUnique`, `NoLostUpdate` | 2 processes, 2 projects, 2 weld kinds, 2 sources, 2 administrators, 6 calls, revision 3 | 1.47 M |
| `trees` | `PTreeInv`, `FactoryTreeSound`, `LayoutTaken` | 2 folders and 2 files to start with, 3 folders and 2 files more, 2 administrators with 2 edits, 1 person with 1, 1 pull, 3 in all | 506 k |
| `assets` | `FactoryInv`; `RefsAreFiles`, `NoCopies` (both imports) | 2 processes, 2 projects, 1 platform process, 2 people, 2 calls; 2 files, 2 projects, 2 items, 1 edit by others, 2 imports | 2.50 M |
| `software` | `SameContent`, `NewestComplete`, `LatestArrives` | 2 versions, 2 contents, 2 administrators, 2 calls, 1 fault or act of another factory, 1 prune | 476 k |
| `delivery` | `RoundMirrors`, `AssetsArrive` | 1 process, 1 project, 2 templates, revision 3, 2 changes, 1 fault | 1.02 M |

Why the bounds are enough:

* *One client.* No rule of the code relates two clients' bindings (the serial, name
  and key conflicts that do are not modelled). A round handles clients one by one and
  reconciles the rest, which one client exercises with "listed" and "not listed".
* *One live factory.* A factory's state is touched only by itself and by publishes to
  it; two factories meet in the directory alone. The second factory is there to own
  the client, to be rebound to and from, and to be disabled; the proofs cover any set.
* *Revision 3* lets a client be bound, lost and bound again, the shortest history in
  which a bind is older than a void that is older than a bind. For an asset it lets two
  calls that both read revision 1 be followed by a third.
* *Queue 1, session 1* overflow with the second instruction; the code's 64 delays that.
  `MaxSession` stops publishing when the broker holds that many: a bound of the check,
  not of the code.
* *One call at a time in the binding runs.* Calls may still overlap in the model with
  `MaxCalls` above 1, as the proofs allow. A larger run adds overlapping announcements only,
  which is what the finding `OthersLetGo` below is about.
* *3 failures* stand for `retryMaxFails` = 8, and a cap of 3 for one that the doubling
  reaches before it gives up; `fails` is compared with the limit only and saturates.
* *2 status changes* reach disable then enable, and disable then retire.
* *3 connections* give a takeover of a connection that itself took over.
* *Two of everything that is compared* (assets, people, administrators, editors, claims,
  contents): each rule of the code that can be crossed compares one row with another or
  a row with what was read of it, so two calls suffice to cross it; a third unit is there
  because a circle may be longer than two.
* *One death of server or updater* meets every gap between their file accesses; the
  theorem `StagedStays` covers any number.
* *Software.* The initial content of a version is one representative (`MCSpec`): contents
  are interchangeable. Deleting a version and publishing it again with other bytes takes
  three calls, and an act of another factory crossed with a restart two faults; the
  theorems cover both.
* *Trees.* Two folders may be siblings or nested and may swap names. Two moves between the
  reads of one closure are within the bounds; calls and pulls share a common bound
  (`Spent`), in which a person's call counts for two. What the other
  server or a copy brings has identities of its own. Depth stays below the code's limit of
  64 levels (`Walk`).
* *Two files* may have one name, one path but for its prefix, and one content, which is
  every way in which two files of a batch are confused.

Deadlock is checked in `Resync`, which has no bound. In the others `CHECK_DEADLOCK
FALSE` is set because the number of calls, faults and changes is bounded, so a run may
come to rest, and a retired factory's channel rightly stops for good. That a shutdown
does not hang is the liveness property `HoldEnds`.

### What the runs show

*Bindings.* `BindingFollowsContract` is the refinement: whatever the network does, a
factory's table never adopts a revision that was not issued, never adopts the newest
revision if it names another factory, never goes back, never brings a voided binding
back under the same revision, and never voids the binding in force. `OwnerKnows` adds
that nothing is missing once nothing is on its way, for every factory that was told;
`OwnerLearns` and `FactorySettles` that this state is reached.

*The channel.* A mark, a page's request or a loss is served however the callback, the
timer and the goroutine interleave, and no round runs before the back-off is over. On its
way out, `Hold` ends: the joins do not wait for each other in a circle, also while a
download of an earlier connection still holds the table. Statuses of a factory arrive and
never say what WAN has not said.

*Presence.* `ShownIsConnected` is the strongest form of the promise that holds: it
excepts a write that failed. A connection whose process was killed is cleared.

*Libraries.* At the WAN the row locks make "used by" and "same kind" hold across any
two administrators, and the revision in the update's condition is enough against lost
updates. At a factory the kinds of what exists agree, and owners and roles bound what
a call may refer to; that dependencies exist does not hold there (findings).

*Trees.* The advisory lock keeps the WAN's tree and a factory's own tree rooted, free of
circles and of clashing names. In the platform's tree at a factory, names and parents hold
as well, also when a layout swaps two names; it gets a circle only from a path that was
read in pieces, which no lock of the factory prevents (`NeverACircle`, a finding). An
applied layout is shown as it was given, also after such a path.

*Delivery.* A full round that nothing disturbs leaves the factory as the WAN is
(`RoundMirrors`), whatever was pulled before and applied late; what may be delivered
arrives (`AssetsArrive`), unless the factory took it for bad content after the last round
began: then only a later change, round or session brings it (`EveryAssetArrives`, a
finding).

*Software.* One version never means two contents anywhere; the newest version of a
factory keeps its object whatever the factory itself prunes beside it, and loses it only to
another factory of the process (`NewestStays`, a finding), until it is downloaded again; the
newest published one arrives.

*Self-update.* A version the updater has read stays staged until its result is written, and
a result that names a version never lies beside another's description (`NotDisturbed`). The
updater always ends with a result, and a result of a version is recorded (`Settles`); what
it writes when it read nothing names no version (`ResultNamesVersion`, a finding).

*Imports.* Every reference of an imported project names the process that its file
became, whichever names the others had to take; a second import of a batch of different
contents under names that are accepted makes nothing new.

*Small services.* Bodies stay readable through rotation, restarts and leases applied
out of order; an answer never reaches another question; a factory is claimed with one
key; the last super administrator can be disabled by no pair of disabling or revoking
calls; roster and sockets agree in every settled state.

### Findings

`PROJECT.json` lists 29 places where the code does not do what a comment or a document of
the repository says; each quotes the line. One has a run, `services_admin`. The others
were found in the same way, by stating the property in the module and checking it with
the configuration named in the finding; the property is still in its module, so that
adding its name to that configuration shows the trace. They fall into five groups:

* *A read, a pause and a write*: a password reset writes an old status back
  (`AdminRemains`); a login outlives the disabling of its account (`DisabledHasNoSession`,
  `OnePadSession`); units close a circle or hang below a disabled one (`NoCircle`,
  `ParentsActive`); a process is deleted while it is bound at a factory
  (`FactoryDepsExist`); a change worked out from a deleted row is
  written over the one a pad has brought since under its identity (`FactoryWeldsAnyProject`,
  `AllIntact`); a promotion over an existing row (`PromotedWeldsAgree`); the names
  of a factory undo a close (`RevisionForward`); a store marked online after it was closed
  (`GoneIsOffline`); an object deleted under a new row (`WanLatestServable`); the loop of a
  factory stopped by name (`ClaimedHolds`); a copy that follows its own copies (`CopiesEnd`);
  folders read one at a time and stored as a circle (`NeverACircle`); a description that is
  taken away between the updater's tests and its reading (`ResultNamesVersion`).
* *Announcements out of order or lost*: `OthersLetGo`, `EveryOwnerKnows`, `SettledMirrors`,
  `DirectoryIsSession`, `GivesUpOnlyTried`.
* *What delivery leaves behind*: a disabled project that cannot be packed
  (`DisabledReaches`), a template made again under an old identity (`TemplatesAgree`), an
  asset whose closure was refused for a reason that passes (`EveryAssetArrives`).
* *One store for several factories*: what one prunes another still offers (`NewestStays`).
* *Rules stated more widely than they are kept*: `OwnProcessesStrictly`, `DisabledFrozen`,
  `NoCopiesAtAll`, `RefusedNeverUsed`.

## Fairness

* `BindingSync`: calls go on after their commit (they are running goroutines); a
  switched-on factory dials again (`holdChannel` loops); the broker delivers to a
  connected client; the main loop takes from its queue; rounds advance. Weak fairness
  is enough: none of these is disabled by another actor except by a fault or a lost
  connection, and both are bounded. Admin calls and faults have no fairness.
* `Resync`: the runtime fires a set timer and runs a ready goroutine, a pull ends (each
  has a request timeout). Nothing is assumed of the network's answers, of users or of
  the connection; `Leave` may happen at any time and is an allowed end of every wait.
* `Lifecycle`: both goroutines run (weak); strong fairness of `PullIndex` and
  `Handle(n)`, since the connection may be lost at every turn: it says that the
  connection is not lost *every* time before the index or an announcement is handled.
* `Presence`: strong fairness of the two hooks, which wait for a contended Go mutex
  (`sync.Mutex` is starvation-free), weak for the holder of the lock, for closing a
  connection that was taken over (the broker library does) and for restarting a dead
  process (the container's restart policy). `MCLoops` states the same.
* `HoldJobs`: the leaving main loop, the background goroutine, the jobs and a handler
  that has begun go on; nothing is assumed of new announcements or connections.
* `WeldPush`: pads go on with a flush, the loop goes on, a factory is dialled one day
  (`holdChannel`). Failed pushes are bounded, the loop tries again after each.
* `SelfUpdate`: the updater (a service with a restart policy), a confirmation that has
  begun, and the polls that record a result, which the page and the start of a server
  make. Each single test and reading of the updater is a step of it and covered by that.
* `SoftwareSync`: `AskLatest` is a ticker of `Hold`, and a pull that began ends or is cut
  by the stall watchdog of the download. Cuts are bounded.
* `Delivery`: commands committed are published, the main loop and the rounds go on.

No fairness is given to any person, administrator, fault or change.

## Proofs

All theorems hold for every value of the constants under the named assumptions of the
modules (pairwise different marker constants, natural bounds, a non-empty queue).

* `BindingSyncProofs!TypeCorrect`, `InvariantHolds`, `ContractHolds`. The contract is not
  inductive: that a bind may be adopted depends on messages published long before. `IInv`
  strengthens it. Everything that can still reach a table, in a call, a session, a
  queue or an index answer, is *timely*: its revision has been issued, and if it is the
  newest one it agrees with the owner (`CommandsTimely`, `CallsTimely`). Tables are not
  ahead (`TablesTimely`). A binding in force is never a void row (`CurrentStands`):
  no message could repair that. And from the answer of an index to the voiding that ends
  the round, a binding in force is in the answer or in what `bindLog` recorded
  (`RoundProtects`). Each action preserves each conjunct; `ContractHolds` then maps every
  step to `Assign`, `Follow` or a stutter of `BindingContract`.
* `BindingSyncProofs!OwnersKnow`: a safety property about what is made up for. In every
  state the owner of a client has its newest binding, or it is *coming* (`Coming`): a call
  has still to publish it, it is in the session or in the queue, in the rest of an index
  answer, or an index is due or being asked for, be it because the connection is down or
  dying (`OwnersServed`). `IInv` says that a newest bind, when applied, takes effect and is
  not undone; a publication finds a session unless the connection is over
  (`KnownWhileConnected`), and a round that ends is within a connection
  (`RoundsConnected`). A quiescent factory has nothing coming, so it has the binding.
* `ChannelProofs!NothingStranded`: `NoneStranded` is inductive as the conjunction of the
  relations between `armed`, `timer`, `wake`, `running` and the marks.
* `ChannelProofs!PlatformSpared`: the wait keeps pace with the failures also while a round
  runs or is called for (`Pace`). What `Backoff` computes is shown without an induction
  rule: a set of natural numbers has a least element (`LeastExists`), and the least
  counterexample is none. So the function exists (`BackoffReaches`), is determined by its
  equation (`BackoffUnique`), and can be unfolded (`BackoffUnfolds`).
* `ChannelProofs!FullRoundMirrors`: while a full round is clean, whatever the factory is to
  have is there, or its command is still to do, or it is in the round's hand, as the WAN
  has it now (`Covered`, `HandFresh`). That stays so because nothing under way can undo it:
  only what the WAN has deleted is ever retracted, no replica is ahead of the WAN, and
  replicas marked retracted are of deleted assets (`DType`). A fault, a change or a new
  session ends the claim (`clean`).
* `ServicesProofs!LifecycleFollowsWAN`: the row is right only if every pending write is
  (`FollowsWAN` covers `snap` and `arg`), closing is only under way for a factory that
  is retired (`ClosesOnlyRetired`), and retirement is the last revision
  (`RetiredIsLast`), so that a close at "row's revision plus one" cannot pass what WAN
  has issued.
* `LoopsProofs!PresenceHolds`, `DirectoryShown`: the lock's holder, the table and the
  taken-over connections agree; in a settled state that is `ShownIsConnected`.
  `StagedStays`: what the updater has read stays staged until its result, and a result that
  names a version lies beside no other's description (`NotDisturbed`), because a pending
  file is never without its package (`PendingHasTar`), a call that stages has taken the
  description away and nobody else stages beside it (`StagingAlone`), and between the last
  test and the reading no result appears (`NoResultYet`). The updater may read nothing; then
  it switches to nothing.
* `ServicesProofs`, one part for each service:
  `SealedBodiesOpen` (a master key, once drawn, does not change: `OneMaster`);
  `KeyOfTheOwner` (what a claim under way carries is the signing key of its server, which
  has one for good: the invariant follows every claim from code to confirmation);
  `AnswersAreOwn` (a number is given to one question, so all that is still under way
  about a number, however old, is about the same question: `MessagesFit`, `ParkFits`);
  `UnitsReferToUnits` (the statement that writes a reference looks at the unit again);
  `RosterHolds` (the number kept for a person is the cardinality of the connections counted
  up and not yet down: `CountFits`); and of accounts the two action properties `AdminsStay`
  and `NewestPadKept`, from the types of the requests.
* `SoftwareSyncProofs!NewestHeld`, `SameBytes`, `NewestOnlyUp`. The newest version of a
  finite set exists and only grows when rows are added (`LargestExists`, `NewestGrows`).
  `ShelfInv` says of every publication under way what it may still do to the newest row;
  `SyncInv` that what a factory has accepted is what was offered (`AsOffered`), and that a
  download writes what its row says, or a version that is not the newest. The other
  factories of the process are a parameter like faults: whatever they do to an object is
  noted in `taken`, changes no row, and is undone by the next put (`NeighbourKeepsInv`,
  `PutOK`).
* `AssetsProofs!FactoryLibraryHolds`, `FactoryWritesSeen`. Here a row may go while others
  pin it, since a deletion looks at no reference again. What holds the kinds of a project and its processes together is
  that an identity is given once: whatever is pinned has been given (`RowsUsed`), an
  insertion is of an identity never given (`InsertFits`) and of no other's (`InsertsApart`),
  so a process that is gone stays gone, and a write that finds its revision finds the row
  it was worked out from (`SeenFits`). From that a write of another kind leaves no process
  pinned that exists, and the digest a write sets is that of the content it keeps
  (`UpdateFits`). Identities that a pad chooses are excepted, for the two findings above.
* `AssetsProofs!ImportedRefsAreFiles`, `PlatformImportedRefsAreFiles`: `RefsAreFiles` for
  any batch, library, spelling of names and number of imports, whatever others edit in
  between. `ImportInv` says that the book agrees with the library on every process that
  nobody has edited (`BookFits`), that an entry of the index is a claimed process of its
  kind with the content of its file (`IndexFits`), that a draft is of the file that comes
  next and not yet claimed (`DraftFits`), and that the references written so far are those
  of the index (`FreshFits`). A step takes a file in, writes its draft, drops it, or
  takes in a project (`TakingKeeps`, `DraftingKeeps`, `DroppingKeeps`, `TakenInKeeps`);
  the first two touch no claimed row, because a name that is claimed is never gone by
  (`KnownRow`, `OwnNamesFree`), cut or not. The order of the index (`Ordered`, `After`) is needed where
  two files share an alias: a lookup takes the entry made last, and the reference means
  the file that comes last in the order of paths (`RewrittenFits`).
* `AssetsProofs!ImportedOnce`, `PlatformImportedOnce`: `NoCopies` for any batch of
  distinct files, any library, names and number of imports. An import may only make a
  process for a file that has none, so the invariant (`CopiesInv`) keeps, for every file
  an earlier import took in, the row it became, and says that the file will come to that
  row again (`Stood`): by content, if no row with its content is better named for it
  (`Best`), else because the name it goes by is that row's (`ByName`). No step disturbs
  this for the files taken in before (`Gentle`, `SettledStays`): a row written for another
  file has other content (`OthersNotSuited`), a row made takes no name that is there, a
  name an import gives is one that it looks for (`MadeIsRanked`), and a row found under
  the name a file goes by keeps that name (`KeyStays`). Within one import the book the planner writes
  mirrors the library (`Mirrors`), so a later import comes to the same rows in the same
  order (`AgainRow`). The ranks matter: a row named exactly is to be preferred to one named
  with a serial number, since a label may itself end like a serial number.
* `PlatformAssetsProofs!LibraryConsistent` and, from it, `DependenciesExist`,
  `WeldKindsHold`, `PromotedOnce`, `NothingLost`. The invariant `PlatformInv` is the types,
  the three properties, what the content refers to (`RefsArePinned`), that a retracted
  identity is gone (`RetractedGone`), and `RequestsFit`: what a pending call
  has decided fits the row it has *seen*, an identity to be inserted is unused, and an
  update whose revision still matches has seen the row as it is. The last holds because a
  row's revision rises with every write. A step is classified by what it does to the rows
  (nothing, one row added, changed or removed); each shape keeps the library
  (`AddKeepsLibrary`, `ChangeKeepsLibrary`, `RemoveKeepsLibrary`) and the fit of every
  pending call (`UpdateStillFits`), and each of the calls is shown to be of one shape.

* `TreesProofs!WanStaysATree`: lemmas about the operators of `DirTree` first. Inserting,
  removing and renaming keep a tree one; so does a move whose destination is not below the
  node moved, since the folders above the destination are a set that the move does not
  enter from outside (`MoveKeepsTree`). A move that was found harmless waits for its
  commit; it stays so while folders come, go and change names, as long as none is moved
  (`ReadyStays`), which is what the lock buys (`WanInv`).
* `TreesProofs!FactoryStaysATree`, `LayoutsTaken`: a layout moves many folders at once. It
  closes no circle because the folders it lists form a tree of their own, and what it does
  not list lies where it lay: a circle would run within one or the other;
  two of one name would be so at the WAN, or one would have yielded. What is pruned is
  never above a file. People's moves in the own tree survive an application
  between their check and their commit (`ReadyKept`). That layouts on their way are
  pieces of a tree the WAN once had, and paths rows of folders that each were so at
  some moment, is `Told`; that a lineage is what the climb
  from a file passes is shown by unfolding the recursive function (`AscentSteps`).
  A path read in pieces need not be a way in any tree. Applied, it keeps names and parents,
  and the factory's own tree out of any circle; it closes none in the platform's if it leads
  from the root and meets no folder twice (`UpsertPathKeeps`). So what is proved of roots
  carries the roots it is known of: all, until a torn path was applied, and then the
  factory's own (`Sure`). A layout is shown even below such a circle, since it places every
  folder it lists.
  The hypothesis, `[]ShallowTree`, is that no file of the WAN lies below more than `Walk`
  folders (64 in the code). It is needed: with `Walk = 1` TLC finds a layout that puts a
  folder under one it leaves out, and that a factory refuses whole, so that `LayoutTaken`
  fails. `FewFoldersShallow` shows that a WAN with at most `Walk` folders meets it, by the
  pigeonhole principle: nobody is met twice on the way up.

The assumptions are what the code justifies without being read: markers that differ from
the values beside them, natural bounds, and finite tables where a theorem counts or picks
the largest (`AccountsAssumption`, `ReleaseConstants`, the finite tables of `Delivery`).
The nodes the WAN's tree starts with have identities of its own (`PlatformTreeConstants`).

Only model-checked: all liveness (`OwnerLearns`, `FactorySettles`, `WantServed`,
`LossTried`, `StatusArrives`, `BootCloses`, `GhostEnds`, `HoldEnds`, `FiguresArrive`,
`Settles`, `LatestArrives`, `AssetsArrive`), which, like ENABLED, is out of the prover's
reach.

## Abstractions

* *Database.* A transaction that locks what it reads is one step. Where the code reads,
  leaves the transaction and writes, or reads without a lock at READ COMMITTED, these
  are two steps with what was read kept between them. A failed transaction changes
  nothing; which error the caller sees is left out.
* *Bindings.* The status and the client list of an index are read as one step. Conflicts
  of keys, names and serials, which make a bind be skipped, are not modelled. A failed
  handler ends the connection (`AbandonChannel`). Giving up and back-off of rounds live
  in `Resync`; here a due round is run or fails. A retired factory keeps dialling here;
  its permanent stop is in `Lifecycle`. `calls` is a set: two calls about to announce the
  same thing are one.
* *Broker.* The MQTT library (mochi) is external and modelled from its use: a persistent
  session with QoS 1, held in memory, redelivered after a reconnection. Taking a session
  over (authenticate, mark the old connection, become current) is one step; two
  simultaneous CONNECTs are serialised.
* *Resync.* `Leave` interrupts pulls at once. A page asks for one kind or for all.
* *Lifecycle.* The main loop and the background round of `Hold` are one thread, since its
  mutex serialises their handlers; the two put calls of a handler are one; announcements
  always carry the names; audit failures are left out; lease keys are reduced to
  `online`. Announcements are a set, so they are reordered freely.
* *Presence.* One factory, since lock, entry and row are per factory; each connection
  is dialled once; heartbeats only touch `last_seen` and are left out.
* *Assets.* Content is the set of processes it refers to; versions are the number;
  remarks and statistics are left out. Permissions are the roles a call needs.
* *Content lease.* A key is a number, sealing a pair of key and revision; the cipher is
  right. The clock decides only whether a lease is in its window.
* *Self-update.* The updater (a shell script in the deployment, with docker behind it) is
  modelled in its steps on the shared files; docker itself loads, switches or fails.
* *Software.* A package is one of a few contents, a part file is good or damaged. The
  memory of verified objects knows an object by its length; contents of one version are
  taken to differ in theirs, also when another factory overwrites one.
* *Trees.* Pruning of empty folders at a factory gives up after 64 rounds in the code, and
  never does in the model.

## Not modelled

* *Authorisation* (`policy`, `authz` predicates): functions of the caller's rows, read
  once per call. The calls' own checks of owner and role are guards of the models.
* *WAN administrators*: as the factory's accounts with a single role; the same statements.
* *Signing and key pinning* (`wanproto/sign.go`, `channelkey.go`): which key verifies an
  instruction. Every message of the models is genuine.
* *HTTP APIs, front ends, logging, migrations, provisioning, blob stores, OSS links*:
  decoding and I/O in front of or below the services. Where a service depends on a store's
  failure (an object gone, a download cut), that is part of its action.
* *The login limiter* of both servers, *device serials* and the credentials of pads: counts and
  comparisons inside one lock or one statement.
* *Legacy import*: retrying single failed files, and the fields of the formats. *Templates*:
  the normalisation of contents. *Pads*: their own pulls of software and assets, which
  only read; client packages for Android.
* *Code that nothing but tests or other unused code calls*: `GrantFactoryAsset`,
  `RevokeFactoryAsset`, `DistributeToFactory`, `deliverToFactory`, `Hub.Drop`, and the older
  docker-driven update beside the updater.

## What could follow

Ordered by what it would add: an abstract
specification of delivery that `Delivery` implements; `Lifecycle` composed with
`BindingSync` (retirement stops the channel).

## Running

    tlc -config BindingFaults.cfg BindingSync      # runs and modules as in PROJECT.json
    tlc -config MCServices.cfg MCServices
    tlapm BindingSyncProofs.tla                    # and likewise the other *Proofs modules

Each run takes at most three minutes with two workers. A proof module takes up to four,
`AssetsProofs` a quarter of an hour.
