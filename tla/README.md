# VPN Control Panel: TLA+ specifications and proofs

The panel is an admin API (FastAPI) that stores VPN configs in PostgreSQL, asks
workers through a task broker to build them, and leaves the workers to write the
files and systemd units of the host. The modules here model how the *life* of a
config goes on (several API requests, several worker processes, at-least-once
task delivery, a database at READ COMMITTED and a file system that knows no
rollback), what a build keeps and replaces so that the links already handed out
go on working or stop working, what the builds of several configs share on one
host, and how the panel finds out whether a service is up.

    tlc -workers 2 -config Lifecycle.cfg MCPanel.tla      # a run
    tlapm PanelSafety.tla        # the proofs: also PublicProofs, DeliveryProofs,
    tlapm PanelProofs.tla        # HostProofs, WatchProofs, WalkProofs, NumberSets

## 1. The system

| Part | State it keeps | Operations | Talks to |
|---|---|---|---|
| Config store (`repositories/vpn_config.py`, `models.py`) | `vpn_configs` rows, `vpn_config_versions` rows, row locks | `create_pending`, `prepare_regenerate`, `mark_processing`, `mark_active`, `mark_failed`, `insert_version`, `update_version_config_data`, `soft_delete`, `set_last_task_id`, policy update | everybody reads and writes it |
| Config requests (`application/*.py`, `api/routers/configs.py`) | an open session per request | create, regenerate, regenerate-all, edit `config_data`, delete, change policy | store, broker, host files (edit and delete) |
| Worker (`worker/`) | task in hand, heartbeat loop, open session | pull, heartbeat, handler, ack, nack | broker, store, host files |
| Task broker (library `task-broker`, started by `broker_run/`, used through `broker/http_client.py`) | tasks, leases, retries | publish, pull, heartbeat, ack, nack, status | API and workers |
| Host files (`config_builder.write_files`, `systemd_unit.py`, `systemd_reload.py`, `service_ready.py`) | live config file, unit file, VPN process | write, install, stop, remove, wait for readiness | worker, edit, delete |
| Share links (`application/*share*.py`, `repositories/share_token.py`) | `share_tokens` | create, create-all, resolve, revoke, list | store |
| Rate limiter, login | `rate_limit_entries` | check and increment | share resolve, login |
| Port selection (`port_picker.py`) | none; reads the ports of all versions and tries `bind()` | pick a port | worker |
| Config builder (`config_builder.py`, `regenerate_policy.py`) | none (pure) | build `config_data`, carry a previous version over under a policy | worker |
| Client URIs (`client_uri.py`) | none (pure) | make the links of a snapshot | share resolve, config reads |
| Shared port 443 (`nginx_shared_443.py`) | the nginx stream map | rebuild from the live directories | worker, edit |
| Readiness wait (`service_ready.py`, `vpn-systemctl.sh`) | a deadline | look at systemd and the journal until the unit is ready, has failed, or time is up | worker, edit |
| Status requests, probes (`service_runtime.py`, `vpn_connectivity.py`) | a cache of connectivity in the API process | knock, connect as a client does, cache | unit, VPN server |
| Regenerate-all (`regenerate_all_configs.py`) | none | walk over the pages of the list and regenerate each config | store, broker |
| Logs, metrics, web UI, CLI, deploy scripts | none | read-only, user interface or set-up | |

### What is hard in it

* **Two actors on one config.** A task may be delivered twice, two regenerates
  may ask for the same target version, an edit or a delete may meet a build.
  The only mutual exclusion is the PostgreSQL row lock that the first *flushed*
  UPDATE of a transaction takes. `mark_processing` takes it by accident of
  autoflush: the next SELECT of the build flushes it.
* **Stale reads.** `has_version`, the busy check and the row that `mark_failed`
  loads are read before that lock. The ORM then writes only the columns whose
  new value differs from the loaded one.
* **Two stores, no transaction over both.** The commit of `pending` comes before
  the publish; the files are replaced and the unit restarted before the commit
  of the version; a delete removes the unit before it changes the row.
* **Errors in the error path.** `mark_failed` has a session of its own and can
  raise; the task is nacked all the same.
* **Leases.** `heartbeat_loop` dies with its first error while the handler goes
  on; a worker without a lease still finishes, and its ack is refused.
* **Waiting.** A build holds the row lock while it waits for systemd. A call to a
  rate-limited endpoint holds the row of its address and window from the count
  to its commit, and the other calls of that address wait for it.

* **Reading before acting.** The used ports are read without a lock, a port is
  tried long before it is bound, the live directories are scanned before the map
  is written, a page of the list is read before its configs are regenerated, and
  a probe's answer is dated before the probe.
* **What clients hold.** A link is a copy of keys, names, a port and a
  certificate pin. Each field is kept or rotated by its own flag, and the
  profile's certificate files, share hosts and hand edits change underneath.
* **Clocks.** The readiness wait looks at instants, in chunks, through two
  implementations, at a unit that may fail, stop or flap between two looks.

### What would make it correct

* Store: versions without gaps, `current_version` inside them, `active` implies
  a version; snapshots survive. (`VersionsContiguous`,
  `ActiveHasVersion`, `SnapshotsSurvive`, and all of it as the refinement
  `ImplementsVersionLog`.)
* Worker and broker: done means done (`CompletedHasVersion`), tasks settle
  (`TasksSettle`), a config with a task leaves pending
  (`QueuedLeadsOutOfPending`).
* Locks: one writer of the live files (`OneWriter`), no forgotten lock
  (`LockIsHeld`), nobody waits for ever (`RequestsEnd`).
* Host: what is active runs what is stored (`ServesWhatItStores`).
* Requests: pending implies a task (`PendingIsQueued`, true unless a request dies before its
  publish, or `mark_failed` raises on the last try of a task).
* Limiter: in every window exactly the first calls up to the limit are let
  through (`ServedExactly`), and every call is answered (`CallsEnd`).
* Share links: a dead link is not answered (`RevokedNeverAnswers`), the administrator sees exactly
  the links that resolve (`ListMatchesResolve`), and a link that was used looks
  used (`AccessCounted`).
* Links of a snapshot: whoever holds a link of the running version is let in
  (`LinksConnect`), an older link survives a regenerate that leaves alone what it
  carries (`UnrotatedKeepsLinks`) and dies with a secret that was rotated
  (`RotationRevokes`); self-signed certificates name the host
  (`OwnCertCoversSni`); the probe does what a client does (`ProbeActsAsClient`).
* Host: an active, running config has its port to itself (`ActiveOwnsItsPort`),
  the map of port 443 leads to it (`RoutesCoverActive`) and nowhere else
  (`RoutesAreClaimed`).
* Waiting and watching: ready means up for the settle time (`ReadyMeansUp`), a
  failure or the deadline ends the wait (`FailureEndsWait`, `WaitEndsInTime`),
  and what a status request shows is not older than the cache allows
  (`OnlineIsRecent`, `OfflineIsRecent`).
* Regenerate-all: what it misses or meets twice is bounded by what moved under it
  (`MissedByMovesOnly`, `QueuedTwiceByCreatesOnly`), it strands at most one
  config (`StrandedAtMostOne`), and it ends (`WalkEnds`).

## 2. The modules

An arrow means: is extended by. There are five families, one per question; they
share no variable.

    ConfigStore <- Broker, HostFiles <- ConfigApi, ConfigWorker <- Panel <- MCPanel
    VersionLog (abstract; Panel implements it)             Panel <- PanelProofs <- PanelSafety
    RateLimiter, VersionLog <- ShareLinks <- PublicApi <- MCPublicApi, PublicProofs
    RegeneratePolicy, PortPicker <- ConfigBuilder <- ClientLinks <- Delivery
    Delivery <- MCDelivery, DeliveryProofs
    RegeneratePolicy, PortPicker <- Shared443 <- HostBuilds <- HostProofs
    VpnUnit <- ServiceReady, StatusProbe <- ServiceWatch <- MCServiceWatch, WatchProofs
    RegenerateAll <- WalkProofs
    NumberSets (lemmas on finite sets of numbers) <- HostProofs, WalkProofs

**ConfigStore** holds the committed rows. A variable is what a SELECT of another
session reads. `rowLock[c]` names the open transaction that has updated the row
of `c`; uncommitted column values need no variable, because they become visible
only in the step that commits them. The operators carry the names of the
repository's methods. `Written(loaded, new, stored)` is the column-wise flush:
`mark_active` and `mark_failed` take the row their session loaded. In the build
transaction the row is loaded again under the lock (`_get_model` runs a SELECT,
and the session keeps no reference to the first model, which is clean after the
flush), so `commit_version` writes every column. A snapshot is identified by
who wrote it.

**Broker** is the external library as its client sees it: a task table with
leases and retries. `ack` and `nack` are refused unless the caller holds the
lease. Any pending task may be pulled next: retry delays reorder the queue.

**HostFiles** has the live file, the unit and the process of each config under
`systemd.per_config: true`. `install_config_unit` covers unit, daemon-reload,
enable, restart and readiness; its failure leaves the unit and no process.
`remove_config_unit` is two steps, because another process can write between
unlinking the unit and removing the directory.

**ConfigApi** cuts each request at the points where something else can act: the
awaits on database, broker and thread, and the lock waits. A request that
finds the config missing or busy is refused without a step. `RegenerateCommit`
reads `current_version` under the lock, because the SELECT of
`get_regenerate_context` flushes the update of `prepare_regenerate` first, and
does not look at the status again: that is the code.

**ConfigWorker** follows `_process_task` and `_run_config_task`:

    idle -Pull-> check -> reactivate -> ack                        (version exists)
                 check -> lock -> locked -> stopped -> written -> installed -Persist-> ack
    check, reactivate, lock, locked..installed -exception-> failing -> markFailed -> nack
    failing, markFailed -mark_failed raises-> nack

`PersistConflict` is the unique constraint on (config_id, version). An ack that
the broker refuses ends the process, and systemd restarts it: `Release` either
way. The same holds when the dead heartbeat task raises as it is awaited.

What comes from outside is bounded by two constants: `Requests`, the kinds of
request, and `MaxFaults`, the number of crashes, lost answers and failed
heartbeats, and of a `mark_failed` that raises (`MarkFailedRaises`: the task is
nacked, and the config keeps its status). Exceptions inside the handler's try,
of the database as of a build, are not faults and are unlimited.

**Panel** composes them, states the properties and the fairness. **VersionLog**
is the abstract specification: per config an append-only log 1..n and a pointer
into it.

**RateLimiter** has the table of counts and the calls that count in it. The
upsert takes the lock of its row and returns the new count; other transactions
read nothing of it until the commit, so `entries` holds committed counts and
`rowHolder` the locks. The endpoints commit on 200, 401, 404 and 429; any other
exception closes the session and the call has not been counted (`Rollback`).
The variable `served` is a history variable: the calls that were let through.

**ShareLinks** has the rows of `share_tokens` and the administrator's
operations: create (flushed, then committed by the router), create-all, revoke
by token or id. A resolve is the limiter, the load and checks of the row, the
load of the snapshots, and `record_access`, which loads the row again (the
session keeps no reference to the first object) and adds one to what it loaded;
the commit writes the two columns it changed. Behind the links stands
**VersionLog**, not Panel: `ConfigChanges` is any step of the log, together with
any change of what list_current_version_snapshots looks at (active, not
deleted). That Panel implements the log is proved, so what is proved here of the
links holds beside it. `withdrawn`, `answered` and `cdead` are history
variables: which tokens an administrator was told are revoked, which were
resolved, and whether the token of a call was dead as the call came.

**PublicApi** composes them and states the properties and the fairness.

**RegeneratePolicy** has the profiles and what `for_profile`, `from_stored` and
the ticks of an administrator make of a policy: the set of flags that are on.

**PortPicker** is `pick_port`: the set of ports it may return, empty when it
raises. A preferred port is returned untested, and when every candidate is
excluded the exclusion is dropped.

**ConfigBuilder** is the pure part of a build. A snapshot is a record of the
fields clients depend on; a fresh secret is named by the build that mints it, a
certificate by its key and its names, and a random choice is the set of its
outcomes. One operator per profile; `Keeps` is the condition under which
`previous_for_regenerate` and the builders carry a secret over, `resolve_tls`
the choice between the profile's certificate files, the previous certificate and
a new one. The previous one is reused when it names the host and the stored
private key is its own (`try_reuse_tls`); the second check never fails here,
since no edit reaches the key column of a TLS profile, which `DeliveryTypeOK`
says of every version.

**ClientLinks** makes a link of a snapshot, makes the dials of the connectivity
probe of it, and says what a server that runs a snapshot admits (external: the
checks of Xray and Hysteria, and nginx in between).

**Delivery** is the history of one config over them: builds under any policy,
hand edits of `config_data`, a new share host of the profile, renewed, missing
and unreadable certificate files. Missing files, or a pair that does not match,
let a build fall back on the previous certificate; files that are there and
cannot be read make it fail (`CannotLoadTls`). It compares every link handed out with what
the server of the last version admits.

**Shared443** is the stream map as a function of the live files and the config
being built: which live files get a route (`RoutedTls`), which of one host wins,
the single Reality route, the order of rendering, the panel's own names.

**HostBuilds** puts several configs on one host: for each the steps of
`build_and_persist_version` at which another build can come in between:

    idle -Start-> start -ReadPorts-> stop -StopUnit-> pick -BuildAndWrite-> unit
    unit -InstallUnit-> scan -Scan-> reload -Reload-> commit -Commit-> idle

(Hysteria goes from `unit` to `commit`.) A port is picked as ConfigBuilder does
it: the kept one untested, and by a Hysteria without one the public port of its
profile (`Preferred`), and never the panel's (`Excluded`). Any step may raise, a
worker or a service may die. Configs are numbers, because the scan reads the
live directories in path order. What the builds of *one* config do to each other
is Panel's subject, so here the row lock is an assumption: a config has one
build at a time.

**VpnUnit** is one systemd unit, its process and its journal as seen from
outside, with the clock. **ServiceReady** is `wait_for_service_ready` in both
its forms, direct and through `vpn-systemctl wait-ready`: every look at systemd
and the journal is a step, and the unit moves between them. A failure seen inside
a chunk is caught and looked at again (`caught`), so a unit that has come back
meanwhile is waited for in another chunk. A command that answers takes no time;
one that does not ends the wait. **StatusProbe** is a
status request: runtime check, cache, probe, store. **ServiceWatch** composes
them. `ran`, `restarts`, `lastUp` and `lastDown` are history variables. A wait and
status requests have no effect on each other, so a behaviour has one or the
other (`pc = "none"`), which keeps the state space small and loses nothing.

**RegenerateAll** is one request over the pages of `list_active` (a count, then a
page, by offset, newest first) while others create, regenerate, delete and build. A
regenerate inside it has a step for each await at which they can come in between:

    turn -Check-> prepare -Check-> commit -Prepare-> publish -Publish-> turn
    turn, prepare -Skip-> turn              turn, commit -NotFound-> aborted
    publish -Publish-> aborted              anywhere -Dies-> aborted

The two checks are those of `execute` and of `prepare_regenerate`; a config deleted
between them is skipped, one deleted before the first or after the second ends
the request. It ends at the publish, too, when the broker's answer is lost or
`set_last_task_id` does not find the config, and then the task is in the broker;
when the broker refuses (`Dies`), it is not. A status here says what the checks
tell apart: `ready` is active or failed with a version, `pending` pending or
processing with one, `unbuilt` anything without. That another request or a worker
goes wrong in the middle is not repeated here: a task leaves its config ready, or
unbuilt if it was. The page is the set of configs still to do:
its order is that of the list, so the newest is always the next (`Turn`), and the
place of a config in the list is the number of newer ones (`Rank`).

A step of a request or of a worker is atomic where the code has no await in
between or where nothing another process reads changes in between. Audit rows
are written in the same transactions and read by nobody, so they are left out.

## 3. The runs

`CHECK_DEADLOCK FALSE` in every run: nobody owes the panel a request, and with
the bounds used up the system rests. Symmetry permutes workers, clients, calls
or status requests, except where a run checks liveness.

| Run | Bounds | Shows |
|---|---|---|
| `Lifecycle` | 1 config, 2 workers, 1 request at a time, 3 versions, 3 tasks, 1 retry, 1 fault | type correctness, the version invariants, snapshots survive, refinement of VersionLog |
| `Requests` | 2 workers, 2 requests of all four kinds, 2 versions, 2 tasks, 1 fault | one writer, no forgotten lock |
| `Orderly` | 2 workers, 2 requests (create, regenerate, delete), 3 versions, 3 tasks, 1 retry, no fault | what is active runs what is stored; pending implies a task |
| `Liveness` | 2 workers, 1 request, 2 versions, 2 tasks, 1 retry, 1 fault | tasks settle, configs leave pending, requests end |
| `PublicLimits` | 3 calls, 1 address, share (limit 2, window 2) and login (limit 1, window 3), clock 0..2, no config | the limiter's types, exactly the first calls, one holder per row |
| `PublicLinks` | 2 calls, 2 addresses, limit 1, 1 config with 1 version, 1 link, clock 0..1 | the link properties, and that every call is answered |
| `Delivery` | 4 profiles, 3 builds, 2 ports, 2 changes by hand, policies: none stored, defaults, every single tick, all ticks | the six properties of links and certificates |
| `HostBuilds` | 2 configs of any profiles, 1 or 2 workers, 3 ports (one may be public, one is the panel's), 3 server names, 3 builds, 1 fault | ports and routes |
| `ServiceWatch` | chunk 4, settle 1, deadline 5, clock to 11; lifetimes 3 and 2, probes up to 2, 2 requests, clock to 7; 3 events of the unit | the wait and the status |
| `RegenerateAll` | pages of 2, up to 4 configs, 1 delete | the walk |

**Panel** (`MCPanel`). One config is enough: no variable and no guard of these
modules relates two configs. Two workers and a lease that can be lost at any
time give every pair of overlapping deliveries; three tasks give a redelivery
overtaken by two later versions (`Lifecycle`) or two requests for one target and
a third for the next (`Orderly`). A third worker adds a second waiter for the row
lock, which is in the state of the first. The lease expires only when nobody
renews it, so a lost lease costs a crash or a failed heartbeat, and one fault
gives one.

`ServesWhatItStores` excludes, in its statement, configs some version of which
was asked for twice, and its run has no fault and no edit. Each of these breaks
it in the code: a second build of a version that exists replaces the live files
and is then rolled back; a redelivered task repoints `current_version` without
touching the files; an edit decided before a build writes an older version over
the new one.

**PublicApi** (`MCPublicApi`). Three calls of one address with limit 2 give a
call that waits while the last permitted one is decided; `MaxRefused` bounds how
often a row is counted beyond its limit. The clock passes from one window to the
next and past the earliest expiry. Two addresses let two resolves of one link run
at once (one address would serialise them), and with one version a link exists
before and after it. Links do not interact, so one is enough.

**Delivery**. Two builds decide what is kept, a third whether something kept
twice is still right after something else was rotated in between. Two ports, one
of them the public one, two destinations, paths, services and names let every
random choice come out the same or different. Two changes give a renewal followed
by an edit and any other pair. Policies with one flag, none and all are enough,
because each field is decided by one flag. `Sensible` leaves out certificate files
for Reality, which has none, and a public port for a Hysteria whose candidates it
is not among: no mux passes UDP on, so nobody could reach it there.

`LinksConnect` names, in its statement, what does not hold in the code: a
secure link pins the certificate of the build and dies when certbot renews the
profile's files (`config_builder.py:563`); an edit of a Reality private key
leaves the stored public key as it was (`update_config_data.py:161`); an edited
Hysteria port is not in a link that names the public port. `RotationRevokes`
speaks of what the builds mint: an edit mints a fresh value here, and an
administrator who types an old secret in again is outside it.

**HostBuilds**. Two configs collide on every port in every way they can: one that
both may pick, the public one that a Hysteria prefers untested, and the panel's,
which a Hysteria avoids and the others find taken. That `ActiveOwnsItsPort` holds
rests on `InstallUnit`: a second process cannot bind the port of a transport, and
a service that cannot bind does not get ready. Xray and Hysteria behave so; the
panel relies on it and has no code of its own for it. The third build is a regenerate, or a retry, of one of them beside or after the
other. Of the names one is the panel's, one is claimed by TLS configs and
Reality, and one by Reality alone. `RoutesCoverActive` and `RoutesAreClaimed`
speak of the map while no live file has changed since it was made, or when one
worker has built all there is: two workers that scan and write in the opposite
order, and a delete, leave an old map until the next build, which is what the
code does, and neither property says anything of it. Of configs that claim one host, one backend or Reality's names only
one has a route. A leftover live file (a delete without unit file) counts as a
claim. Edits of `config_data` and deletes during a build are in Panel, not here.

**ServiceWatch**. With a deadline just past the first chunk a second chunk
begins before the deadline and ends after it. Three events are a failure, a
restart and a failure, or the network going and coming back between two probes.
A lifetime longer than the probe and one as long as it make an overlapping
request store an older answer after a newer one. `ReadyMeansUp` does not say that
the startup marker was this start's (section 3, documents). The bounds on time
leave out what the commands themselves take: in the code each look adds its own
duration, up to its timeout.

**RegenerateAll**. Four configs are two full pages, or three with one created in
between; a delete on either side of the page border fits, beside a create.

**Fairness.** In Panel, weak fairness of every step of a request and of a worker
(uvicorn and asyncio schedule them, every call has a timeout, systemd restarts a
dead worker), of pulling for an idle worker, and of the expiry of a lease nobody
renews. Requests arriving, faults and outcomes (build fails or not) have none.
Weak fairness is enough for lock waits because in the liveness run only finitely
many sessions can ever take the lock; with endless requests PostgreSQL's queue
of lock waiters would be the argument.

That argument is needed for the limiter, where new calls keep coming:
`FairSpec` of PublicApi has strong fairness of `GetRow`, because PostgreSQL
grants a row to its waiters in turn, and weak fairness of every other step of a
call. A call arriving, a failure, the clock and the administrator have none. In
RegenerateAll only the steps of the walk are weakly fair: it is one coroutine
whose awaits return. ServiceWatch needs no fairness: its bounds on time are
safety properties.

### Where documents and code part

Two have a run that checks the documented property and is expected to fail:

| Run | Document | Code |
|---|---|---|
| `DocDeletedHasNoUnit` | docs/DEPLOY.md:278, delete removes the unit | a queued task installs it again (configs.py:66) |
| `DocLastSyncWins` | nginx_shared_443.py:225 and docs/DEPLOY.md:230, of one host the last sync wins | the config just built is skipped, since its live file has been scanned (nginx_shared_443.py:237) |

The others were met while modelling and can be read off the modules:

| Document | Code |
|---|---|
| README.md:195, current_version is the last successful version | a redelivered task sets it back (config_task.py:37; `Reactivate`) |
| README.md:197, error_message when failed | stale column-wise flushes mix two updates (vpn_config.py:182-197; `Written`) |
| README.md:170, no repeated work | has_version is read before the lock only (config_task.py:31; `CheckVersion`) |
| README.md:131, pending and a task | a crash between commit and publish (create_config.py:69-80), or a mark_failed that raises on the last try (config_task.py:55-58); `PendingIsQueued` holds in every other case of the model |
| README.md:136, pending → processing → active | processing is flushed but never committed, so no reader sees it |
| README.md:148, snapshots are immutable | an edit of config_data rewrites the current one (`EditCommit`) |
| README.md:278, regenerate-all is for every active config | one that moves over a page border is missed (`MissedByMovesOnly`) |
| docs/DEPLOY.md:279, ready means a startup marker in the log | the marker may be of an earlier start (service_ready.py:58; `AskJournal`) |
| docs/DEPLOY.md:285, a failed unit ends the wait at once | through the wrapper only with the chunk (service_ready.py:144; `FailureEndsWait`) |

## 4. The proofs

Each holds for every value of the constants that the named assumptions admit.

**Panel**, under `StoreAssumption`, `BrokerAssumption` and `RequestsAssumption`
(the kinds of id are disjoint where the code compares them, the bounds are
positive or natural):

* `PanelProofs!TypeCorrect`: `Spec => []TypeOK`. Each operation of store, host
  and broker keeps its own part (`StoreTypes`, `HostTypes`, `BrokerTypes`,
  `ClientTypes`, `WorkerTypes`), and each action is made of them.
* `PanelSafety!SafetyHolds`: `Spec => []Safety`, the inductive invariant, and
  from it `VersionsSound`, `CurrentIsStored`, `ActiveIsBuilt`,
  `CompletedIsDone`, `WritersExclude`, `LocksHeld`, `SnapshotsStay` and
  `Implements` (refinement of VersionLog).

Why `Safety` is more than the invariants of the runs. `VersionsContiguous` is
not inductive: a worker inserts the version its *task* names, so the version
before must exist when the task was published and ever after
(`TargetsFollow`, `RequestsFollow`; versions never vanish). `CurrentExists`
needs that the idempotent path only reactivates what is stored
(`DoneIsStored`), which is also what makes an ack honest. `ActiveHasVersion`
needs that a stale `current_version` a worker means to keep is still there
(`LoadedCurrentStays`): the column-wise flush writes `active` and may leave
`current_version` alone. `OneWriter` follows from `LockOwned`: a session holds
the row lock exactly while it builds or edits.

The proofs of `Safety` read the actions twice only. The *frames* of PanelSafety
say which actions can change what a data invariant speaks of (only `Persist`,
`Reactivate` and `EditCommit` touch `versions` and `current`, and so on);
`LockMoves` says how an action moves the lock and its own place among the
writers. Every conjunct of `Safety` is then proved from its frame.

`PendingIsQueued` is false in the code in two cases: a request dies between its
commit of `pending` and its publish (`DiesBeforePublish`), or `mark_failed`
raises, as in an outage of the database, while its worker holds the last try of
the task (`FailureIsLost`): the nack makes the task DEAD, and nobody writes the
status any more. `PanelProofs!PendingQueued` proves it of every behaviour
without these two steps, through the other faults of the model (workers that
die, lost leases, lost answers, a `mark_failed` that raises and is tried again,
or whose lease was lost anyhow), and `PendingQueuedWithoutFaults` of every
behaviour when `MaxFaults` is 0. It is not inductive: that there is a task in
hand does not tell that its worker will write a status. `PendingIsSettled` asks
for one that is outstanding, which means waiting in the broker, or leased; and
whoever has the leased task in hand is yet to write a status (`Settles`). The
delicate place is the column-wise flush: a worker that loaded `active` and
writes `active` changes nothing, so a config that a request has meanwhile made
pending stays pending, with the task of that request.

`ServesWhatItStores` is `PanelSafety!ActiveIsServed`: where `"edit"` is not
among `Requests`, it holds until the first fault (`Undisturbed`), and
`ActiveIsServedWithoutFaults` says the same of `MaxFaults = 0`. Both hypotheses
are needed, since an edit decided before a build and a redelivered task break it
in the code (section 3). The invariant is `Serving`, and its argument goes
through four stages. Undisturbed leases are kept (`LeasesAreKept`): who has a
task in hand holds it and renews it, so a task is never handed out twice at a
time. If no version is asked for twice, then versions are built in turn, the
current one is the last (`InTurn`) and a stored version is neither queued nor in
any build (`BuiltOnce`). So while a config is active there is nothing left to
build (`ActiveIsUpToDate`): no build can be at its files. And a build that has
written or installed has not been overwritten since (`HostFollows`), because two
builds of one config exclude each other by the row lock (`Safety`) and a delete
that has touched the files has marked the config or is about to (`Deleting`).
`NothingBeforeCreate` and `VersionsHaveTasks` close the induction at a create
and at a publish.

**PublicApi**, under `LimiterAssumption` and `ShareAssumption` (limits and
windows are positive, ids are disjoint): `PublicProofs!PublicSafetyHolds` is
`Spec => []PublicSafety`, with `PublicTypes`, `ServedExactlyHolds`,
`RowsAreHeld`, `RevokedStaysRevoked`, `ListMatches`, `AccessesCounted` and
`PinnedVersionsStay` from it. `ServedExactly` is not inductive by itself: the
limit was checked some steps before the call is counted, so one needs that the
row is held by exactly that call (`RowHeldByCall`) and that the answer therefore
stays right (`LetThrough`). `RevokedNeverAnswers` needs that a dead token stays
dead while a call that presented it runs (`DeadStays`), whatever else writes its
row. `ListMatchesResolve` follows from `ExpiryMatches`. The limiter is proved
first over its own variables; what a call does behind it is one `Step`, `Serve`,
`TooMany` or `Rollback` for it.

**ServiceWatch**, under the assumptions of VpnUnit, ServiceReady, StatusProbe and
ServiceWatch (times are natural numbers, a failure is cached no longer than a
success): `WatchProofs` proves `WatchSafety` inductive and from it `WatchTypes`,
`WaitEnds`, `FailureEnds`, `ReadyRan`, `OnlineHonest` and `OfflineHonest`, for
all timeouts, settle times, lifetimes and numbers of requests. `WaitEndsInTime`
says when the wait is over and not when a step of it is due; `WaitOnTime` gives
each step its own latest time, which is inductive since the clock moves only
while the wait sleeps. `FailureEndsWait` needs the same for the age of a failure
(`FailureIsYoung`): a chunk begins without a failure, and every direct poll looks
at once. `ReadyMeansUp` rests on `RanAllAlong`: without a restart the process has
run since the wait began, so the settle sleep is part of its life. For the status,
`ProbesHonest` says that the cache entry and each probe under way are no younger
than the last moment at which what they say was so.

**HostBuilds**, under `HostBuildsAssumption` (configs are a finite set of numbers,
no port is 0): `HostProofs` proves `HostSafety` inductive and from it `HostTypes`
and `PortsAreOwned`. Why two builds that read the same used ports, or keep a
port nobody tested, do no harm: `bind()` gives a port of a transport to one
process (`NoPortIsShared`), the other build fails at readiness and its config is
not active; and a process that runs is of the version that is stored or about to
be (`ProcessIsCurrent`), because a config under build is not active
(`BuildsArePending`) and a retry restarts it.

The map of port 443 is proved by `RoutesCover` and `RoutesClaimed`, from
`HostRoutes`. A map is the one its files give or it is out of date
(`MapIsOfFiles`), so what is left is a statement about the pure function
`StreamMap` of the live files, proved once per kind of route (`CoverOfMap`,
`ClaimsOfMap`), and that the files say what the rows say (`FilesAreOfConfigs`).
The second half of the properties, of one worker that has built all there is, is
`OneWorkerCatchesUp`: what a build has scanned is still what is there as it
reloads nginx, and a map is behind the files only while some mux config is not
yet through (`OneWorkerSyncs`). With two workers that is false, as section 3
says.

**Delivery**, under `ConfigBuilderAssumption` and `DeliveryAssumption` (ports are
not 0, a host has a name, a share host is not the loopback): `DeliveryProofs`
proves `DeliverySafety` inductive and from it all six properties of the run:
`DeliveryTyped`, `LinksAlwaysConnect`, `UnrotatedStays`, `RotatedIsRevoked`,
`OwnCertsCover`, `ProbesAreClients`, for any numbers of builds, ports, hosts,
destinations, paths and changes by hand. The properties compare the last version
with an earlier one, and a build sees only the version before it; so the invariant
says of *every* version what the last one shares with it (`Kept`, of a version
nothing has disturbed) and in what it differs (`Revoked`). That a rotated secret
does not come back needs that each version holds only secrets minted by then
(`VersionFits`, `Minted`); that a kept certificate still covers the name needs
that an undisturbed version has a name and files the builds of now would give it
(`UndisturbedFits`). What a build makes is proved profile by profile first
(`RealityBuilt`, `XhttpBuilt`, `GrpcBuilt`, `Hysteria2Built`) and summed up in
`BuiltFrom`; nothing below it reads the builder again.

**RegenerateAll**, under the assumption on its page size and bounds: `WalkProofs!StrandsOne`
is `Spec => []StrandedAtMostOne`, from the invariant `StrandedIsHead`: a config
that is pending without a task is the head of the page, between its commit and its
publish or after the walk was aborted there. `WalkTypes`, `MissesAreBounded` and
`RepeatsAreBounded` follow from `WalkInv`. `MissedByMovesOnly` speaks of the end only, so
the invariant says which configs are lost already while the walk runs: those in front of
it that it was not given (`PassedBy`), no more than were deleted; what it does
not reach at its end is what the list has grown by since the last count
(`ListGrowsByCreates`). `QueuedTwiceByCreatesOnly` needs a measure: to be given
again, a config the walk has passed must be moved over the border of the covered
places by creates, and each create moves it by one (`RepeatedByCreates`).

**NumberSets** has the lemmas on finite sets of numbers the last two families need:
least and greatest members exist and are what `Min` and `Max` choose, and how the
number of members beyond one changes as a member comes or goes. The existence of
a greatest member takes an induction; it is had from the library's well-foundedness of the natural numbers,
applied to a set and not to an operator.

Only model-checked: the liveness properties `TasksSettle`,
`QueuedLeadsOutOfPending`, `RequestsEnd`, `CallsEnd` and `WalkEnds` (TLAPS
proves no liveness under fairness and no ENABLED), and the two Doc runs, which
are violated. Every invariant and every action property of a passing run has a
theorem. Induction over data and RECURSIVE operators are out of TLAPS's reach
too; the modules here use neither. The invariants `PendingIsSettled`, `Serving`,
`HostRoutes` and `WalkInv` were first checked by TLC on instances of the size of
the runs (`PendingIsSettled` on behaviours without `DiesBeforePublish` and
`FailureIsLost`, with one fault).

## 5. Not modelled

* The legacy mode with one shared unit per profile (`systemd.per_config: false`):
  the deployed `panel.yaml` sets `per_config`.
* Logs, metrics, audit rows: text, or rows nobody in the program reads.
* The storage of a regenerate policy as a request of its own: a policy is an
  input of every build in Delivery, read once at its beginning.
* Key generation, TLS, Xray, Hysteria, nginx, systemd and PostgreSQL themselves:
  external, modelled by what the code relies on.
* A commit whose answer is lost: a commit here succeeds or leaves nothing behind.
* The spelling of URIs and templates; JWT and password hashing (libraries); the
  web UI, the CLI, deployment scripts and migrations.

Worth doing next: that the steps of a lock wait are deadlock free as an invariant
(a waiter always has a holder that can step); an abstract specification of the
limiter, and one of the task broker, that their modules are proved to implement; and
the legacy mode as a second HostFiles.
