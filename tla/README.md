# A TLA+ model of harness-launcher

harness-launcher starts coding agents in isolated Git work trees ("sessions"),
delivers what they changed to `refs/heads/main` of a shared remote, keeps the
history of their conversations, and drives them from scripts, from the Herdr web
service and from the tabs of a terminal multiplexer. Very little of it is
computation; nearly all of it is protocol: files that several short-lived
processes replace, locks that outlive or do not outlive their holder, services
whose answers get lost, and deaths between any two durable effects.

These modules model that protocol, component by component. The delivery, its
queue and the creation of sessions are the core: they are modelled in the greatest
detail, checked on several instances each, and their safety properties and
refinements are proved for every instance with TLAPS. The other components have
one or two modules each, checked together by one run; of twelve of them (the fork of
a conversation and its app-server guard, the four receipts of Herdr, the delivery to
a code repository, headless runs, canonical updates, the retirement of a session,
the restore of its archive and the history of a Native conversation) the promises are proved as well.

Paths in this file are relative to the repository (`src/`); `SI` stands for
`bin/session-isolation.sh`, `Q` for `bin/harness_integration_queue.py` and `SC` for
`bin/harness_session_creation.py`.

Contents: 1 inventory of the system, 2 the modules, 3 correspondence with the
code, 4 runs and bounds, 5 fairness, 6 proofs, 7 findings and limits, 8
abstractions, 9 what is not modelled and the plan.

## 1. Inventory

### 1.1 Components

**Session record and owner commands** (`SI`). State: one directory per session,
`<state>/sessions/<uuid>/`, with a three-line `journal` (state, identity,
heartbeat), the frozen submission (`submission.patch`, `manifest`,
`remote-url`), the evidence of a delivery (`pending-sha`, `.candidate-manifest`,
`push-ack`, `delivered-sha`), and `runtime.lock`, held by the launcher while its
agent runs. Operations: create, submit, close, exit, list, resume, recover,
discard, each a short-lived process of its own. Hard: the evidence of one round
must not be taken for that of the next; commands run concurrently with brokers.
Correct means: the journal follows its transition table, DELIVERED and DISCARDED
are final, and the evidence files always tell what happened to the current
submission.

**Integration broker** (`SI`: `with_lock`, `integrate_unlocked`,
`recover_unlocked`). State: the pool's `integration.lock` (flock), a private
candidate clone, the evidence files above, and the remote's `main`. Operations:
clone, apply, verify, commit, write-ahead, fetch, push, acknowledge, read back,
deliver; and the reconciliation of an interrupted round. It talks to the remote
over git only. Hard: death between any two effects; an accepted push whose
answer is lost; another host that moves `main`; a second attempt; a renamed
origin. Correct means: a content lands at most once, nothing is ever removed
from `main`, DELIVERED is never a guess, recovery finds out exactly what
happened, and two brokers never share a pool.

**Integration queue** (`Q`, and `_queue-execute` in `SI`). State: a SQLite ledger
of jobs and pools, snapshots of accepted inputs, `coordinator.lock`,
`broker.lock` per session, `queue-operations.lock` and the queue's marker per
pool. Operations: enable, disable, enqueue, control (recover, discard, gc),
reconcile, serve; and, in each worker, authorize, guardian, recovery-check.
It interacts with the broker by holding every enrolled pool's
`integration.lock` as a gate that its workers inherit, and reads the answer of
a job from the session's journal. Hard: direct brokers that passed the marker
check before the enrolment; a coordinator killed while its workers go on;
automatic retries beside owners who reopen and resubmit; FIFO over several
pools, slots and leases. Correct means: direct and queued brokers exclude each
other, answers are honest, gc runs alone, order is kept, every job is answered.

**Session creation** (`SC`, and `create --reserved` in `SI`). State: a
reservation, that is `creation.json` with its phase, the `pending` mark and
`creation.lock` in the record, an entry in the `creation-pending` index of the
source, and the empty work tree. Operations: reserve, prepare (start an engine
that clones), declare the intent to publish, commit (publish the journal), clean
up; `reconcile` of the leftovers of dead creators, up to 128 per call. A caller
may bind the session to a runtime pin that it publishes elsewhere. Hard: a crash
between any two of these writes; an engine, or what it leaves running, that
outlives its creator with the inherited lock; a reconciler that reads the
metadata before it has the lock; a launcher that starts meanwhile. Correct
means: a session is published whole and once, cleaning up never removes what a
live process or a publication owns, and a declared intent is never lost.

**Session retirement and native history** (`SI` `gc_unlocked`,
`bin/codex-history.py`, `bin/codex_history_native.py`). State: the session's
directory with its history and work, the archive, snapshots of Native (Codex)
conversations, preserved work, resume holds, runtime leases. Operations: gc,
archive, prove, preserve; snapshot, retire, verify, resume, catalog. Hard:
writers that hold no lease (the Codex app, an editor, a forgotten process); a
resume racing with gc; a keeper dying between rename, removal and sync. Correct
means: nothing is removed that is not held elsewhere for good, and the catalog
never offers a shortened conversation.

**Archive, restore and work proof** (`bin/harness_session_archive.py`,
`harness_session_restore.py`, `harness_session_work_proof.py`,
`harness_session_work_recovery.py`). State: staged and published archives,
a restored home and its ledger, preserved work. Hard: a crash between staging,
verification and publication, power failure before a directory is synced, two
restores of one target. Correct means: what is published is the state of one
moment, and a restored conversation is never taken for the new session's own.

**Herdr receipts** (`bin/harness_herdr_*store.py`, `*_receipt.py`,
`harness_herdr_lifecycle.py`, `harness_herdr_ui_answer.py`,
`harness_herdr_agent_ui_request.py`, `harness_herdr_launch.py`). State: one
receipt per intent with a phase and a revision, markers ("get only",
"recovery", "step ban"). Operations: reserve, dispatch or step, observe,
cancel, prune. Hard: the answer of a request with an effect is lost; a status
process learns something while the sender still waits; a death between receipt
and marker; one client's pruning races with another's transition. Correct means:
no effect is sent while an earlier one is unaccounted for, a result on record is
true and stays, and what was sent can be asked about.

**Headless runs** (`bin/harness_headless.py`). State: a run's lock, result file,
process group, model forwarder, session and lease; and for deliveries to a code
repository the record and journal of one branch. Hard: signals at any point, even
during the cleaning up; strays of the agent; a push or a pull request of a dead
run that still arrives. Correct means: the broker works only when the agent is
gone, the result is true, one approval puts one screened commit on one branch.

**Surface generation and home preparation** (`bin/codex-surface.py`,
`codex-surface-warm.py`, `codex-home-prepare.sh`). State: a generated
configuration home, its signature, the user's skills. Hard: Codex itself
saves to `config.toml`; sources are edited during a compilation; a death or
signal among the exchanges. Correct means: a home is of one version, the warm
probe is right, nothing of Codex or the user is lost, each skill is found once.

**omp continuation and projection** (`bin/harness_omp_continuation.py`,
`harness_omp_projection.py`, parts of `bin/aliases.zsh`). State: the index and
the state file of enrolled profiles; a continuation record, its lease and the
native's lock. Hard: two files replaced one after the other and read without a
lock; reboots that renumber devices; helpers and natives that outlive their
launcher. Correct means: a selector's answer was in force, no two natives work
on one session file, and what can be resumed is not refused.

**Canonical bootstrap** (`bin/harness_canonical_bootstrap.py`,
`omp_canonical_bootstrap.mjs`). State: pinned authorities, a lease, one native
with a trusted extension at the other end of a socket. Hard: cancel, deadline,
replaced files and deaths of either side while the user is asked or the engine
works. Correct means: the engine works only on an answer that stands, the receipt
is true for good.

**Herdr plugin** (`herdr-plugin/harness_herdr_plugin.py`). State: `state.json`
per pane and tab, notifications, the `$decision` token, labels. Hard: one process
per event, in any order, beside a watcher; the agent and the user go on. Correct
means: each change is announced once and not early, a tab bears what the agent
last called its session, a user's name is left alone.

**Guards, hooks and title brokers** (`bin/codex-app-server-guard.py`,
`codex-cmux-title-sync.py`, hook adapters). State: two relay threads; the title
of a terminal tab, request, acknowledgement and status files. Hard: two threads
that write to one client; handoffs between sessions; the user naming the tab.
Correct means: no root outside the harness passes, each request is answered once,
a tab never goes back to an older name.

**Agent usage records** (`bin/harness_agent_usage.py`). State: the manifests that
exclude sessions and profiles from collection. Hard: launches of several state
homes reconcile them at once, without waiting long. Correct means: an exclusion
is kept as long as there is something to exclude.

**Claude fork** (`bin/harness_claude_fork.py`, `harness_session_catalog.py`).
State: two POSIX record locks held through `exec`. Hard: such locks go when the
process closes any descriptor of the file; the parent changes between checks.
Correct means: both leases are kept while the fork runs, which runs on what its
receipt says, and the line that is run asks for what the caller's asked.

**Not modelled.** The release client (checks by digest, no state of its own
that anything shares), trusted preservation, the listings, report and pools of
the catalog (they only read), `launcher.sh`, `harness-common.sh` and the rest of
`aliases.zsh` (parse arguments and exec; what they do with leases and locks is
modelled with the component they call), the Herdr command line, web and usage
views (user interface and transport), and the maintenance scripts, resolvers
and installers (section 9).

### 1.2 How the modelled parts interact

    owner commands --journal, evidence--> broker <--flock--> other brokers
          |                                 |
          | enqueue / control               | git fetch, push, clone
          v                                 v
    ledger <--rows-- coordinator --gates--> remote main <-- other hosts
                        |  ^
             starts, reaps  exit status, journal
                        v  |
                      workers (_queue-execute: the broker's steps)

The journal is the shared state of everyone: owners write it under no lane, the
brokers under `integration.lock`, the workers under the gate the coordinator
holds for them. Creation comes before all of this: the journal it publishes is
the `OPEN` one the owner commands start from, and until then no other command
accepts the record. The hazards of this arrangement are listed, each at its line, in
`PROJECT.json`.

The other components meet the core at a session's journal and `runtime.lock`:
headless runs create, lease and deliver a session; gc, native history and restore
look at the lease and the terminal states; a fork and a continuation take leases
of their own. Each of their modules has the part of the record it reads or writes.

## 2. Modules

The core:

| module | models | kind |
|---|---|---|
| `SessionRecord` | the durable record and the owner's commands | component |
| `IntegrationBroker` | `integrate_unlocked`, `recover_unlocked`, the lane, the remote | component, extends `SessionRecord` |
| `Delivery` | what a session may rely on | abstract specification |
| `IntegrationQueue` | ledger, coordinator, workers, enrolment | composition, extends `IntegrationBroker` |
| `SessionCreation` | creators, engines, launchers and reconcilers over reservations | component |
| `MCIntegrationBroker`, `MCIntegrationQueue`, `MCSessionCreation` | instances for TLC | model checking |
| `MCSessions` | instances of the creation and of the broker, side by side | model checking |
| `IntegrationProofs` | types, the lane, main; the evidence and the refinement; leases, gates, jobs and their answers | theorems, extends `IntegrationQueue` |
| `SessionCreationProofs` | publication and removal of created sessions | theorems |
| `HerdrUIAnswerProofs`, `HerdrRequestProofs`, `HeadlessProofs`, `GuardProofs`, `RetirementProofs` | twelve of the components below | theorems |
| `ComponentsProofs` | the composition of these | theorems, extends `Components` |

The other components:

| module | models |
|---|---|
| `SessionRetirement` | gc of one session's directory, archive, work proof, preservation |
| `SessionRestore` | the restore of an archived conversation; extends `SessionRetirement` |
| `NativeHistory` | snapshots, retirement, catalog and resume of one Native conversation |
| `HeadlessRun` | a headless run from its lock to its result |
| `TargetDelivery` | the delivery of headless runs to a code repository |
| `NoReplay` | what every Herdr client promises about an intent: abstract specification |
| `HerdrLifecycle`, `HerdrUIAnswer`, `HerdrAgentRequest` | the receipts of owned operations, of stepwise answers, of one-key requests; each implements `NoReplay` |
| `HerdrLaunch` | the receipt of a managed launch |
| `SurfacePublication`, `SurfaceSelection` | a generated Codex home: its publication; the skills it exposes |
| `OmpDevices`, `OmpEnrollment` | the mapping of device numbers; enrolment and selection of profiles |
| `OmpContinuation` | new and resumed continuations |
| `CanonicalBootstrap` | the carrier and the extension of a canonical update |
| `PluginNotices`, `PluginTabs` | notifications and tokens; labels and metadata of the Herdr plugin |
| `ClaudeTitles`, `CodexTitles` | the brokers of terminal tab names |
| `UsageManifests` | the collection manifests |
| `AppServerGuard` | the relay before an app-server |
| `ForkRequest`, `ClaudeFork` | the command line of a fork; its leases and checks |
| `Components` | one instance or more of each of these, of which a behaviour exercises one |
| `MCComponents` | the values of its constants for TLC |

`Delivery` has two variables, the journals and the set of landed contributions.
`IntegrationBroker!Contract` instantiates it with `landed` read off the histories
of `main`, and `ImplementsDelivery` says that the broker (and, in the queue's
runs, the broker driven by the queue) implements it. `NoReplay` has two as well,
the requests of each intent whose outcome is not on record and those sent; each of
the three modules keeps them as history variables, and they differ in what puts
an outcome on record: a terminal answer, a receipt replaced, a status.

## 3. Correspondence with the code

### SessionRecord

`journal[s]` is the first two lines of the journal file, `files[s]` the evidence
files, each either missing (0) or naming a commit. `leased` is the set of
sessions whose `runtime.lock` is held, `renamed` those whose canonical checkout
spells its origin unlike the frozen `remote-url`. `Edges` is the table of
`transition` (SI:886) and `Transition` its acceptance rule, the no-op for an
equal line included. One action per command: `Submit` (and `close` of a changed
session), `CloseClean`, `Exit`, `LauncherDies`, `List`, `Resume`,
`RecoverReopen`, `Discard`. A submission's identity is the digest of its frozen
inputs, so it is modelled by the content: the same work submitted in another
round has the same identity, which is where at-most-once becomes interesting.

### IntegrationBroker

A broker process is a record in `br`: the program counter, the session, the
attempt, the length of the `main` it cloned and the candidate commit. One action
per durable effect, in the order of the code:

| action | code | effect |
|---|---|---|
| `Integrate` / `Enter` | SI:1511-1519 | lane taken, journal INTEGRATING |
| `OriginConflict` | SI:1516 | refused, the origin is another URL |
| `Prepare` | SI:1520-1537 | clone of main, three-way apply, pathset check |
| `Verify` | SI:1538-1556 | repository verifier; 17 returns to SUBMITTED |
| `Commit`, `WritePending` | SI:1557-1577 | candidate manifest, then `pending-sha` |
| `Fetch` | SI:1578 | main moved: second attempt, then CONFLICT |
| `EnterPublishing` | SI:1580-1588 | last check of the candidate |
| `Push` | SI:1589 | accepted; refused; accepted and the answer lost |
| `Acknowledge` | SI:1591 | `push-ack` |
| `Readback` | SI:1594-1609 | fresh clone, ancestor and manifest, `delivered-sha` |
| `Deliver` | SI:1610 | journal DELIVERED |
| `Recover` / `Reconcile` | SI:950-987 | an INTEGRATING session judged from its evidence |
| `LaneStep` | SI:979, 1658 | recover of a refused session, discard |
| `Stop` | anywhere | the broker dies or stops on a git or flush error |

`Stop` is enabled at every program counter, so a crash is possible between any
two effects. `OtherPush` is another host, `RenameOrigin` a `git remote set-url`.
The remote accepts only fast-forwards (git's own rule; the code never forces).

### IntegrationQueue

`jobs` is the ledger in acceptance order; a row keeps operation, owner, pool,
accepted identity, state, attempts, exit status and the publishing intent.
`slot[w]` ties a worker process to a job and carries its exit status after it
ended. `coord` is down, serving or stopping. `lock[p] = Gate` means that the
coordinator, or an orphan worker that inherited the descriptor, holds the pool's
`integration.lock` for the queue. `waiting[b]` is a direct command that looked
for the marker, found none, and is still waiting for the lane (`ChooseDirect`,
`Direct`): the time between is a step, so that an enrolment can come in between.

`Considers` is the scan of `serve` for one row: barrier, running, budget,
destination; `Claim`, `FailStart` (before or after the attempt is counted) and
`Exhaust` are its outcomes. `ReconcileJob` takes integrations only
(`Reconcilable`), as the command does. `Start` is
`_queue-execute` up to the broker's first step, `Work` a broker step together
with what the ledger learns from it. `Finish` is the reaping, which reads the
answer from the journal. `Kill` leaves the workers running with the locks they
inherited; `OrphanGone` is their end; `Serve` needs all of them gone because
each holds `coordinator.lock`.

### SessionCreation

`disk[c]` is what the file system holds of a creation: the phase in
`creation.json` ("none" without a record), the `pending` mark, the index entry,
the work tree (empty, partial, ready as prepared, used by an agent) and the
journal. `pc[c]` is the creator, `engine[c]` the process it started, `stray[c]` a
descendant that outlives the engine. The lease has two parts, as in the code: the
description the creator locked, which the engine and its descendants inherit
(`OriginalHeld`), and a lock through a new descriptor (`fresh[c]`), which a
reconciler, or the creator that cleans up, gets only when the first is gone
(`LeaseFree`). `runtime[c]` is the holder of `runtime.lock`.

| action | code | effect |
|---|---|---|
| `Reserve` | SC:315-371 | record, work tree and marks; the index entry last |
| `BeginPrepare`, `Launch` | SC:421-483 | engine recorded, then started with the lease |
| `EngineWorks`, `EngineEnds` | SI:391-483 | clone, then evidence; success or failure |
| `EndPrepare` | SC:510-533 | fields and evidence checked, phase prepared |
| `Interrupt` | SC:484-507 | timeout or SIGINT: group stopped, confirmed or not |
| `PublicationStarted`, `Bind` | SC:535, caller | intent on disk, binding published |
| `BeginCommit` ... `CommitMarks` | SC:541-565 | checks; journal; phase; marks |
| `Fail`, `LeaveContext` | SC:373-381, 406-419 | an error leaves the context |
| `Relock`, `Clean` | SC:382-404 | new lock, then tree, record, index removed |
| `Scan`, `Lock` | SC:664-714 | metadata read, then the lease taken |
| `Decide` | SC:715-752 | finish, publish, remove or preserve |
| `FinishRecovery`, `Remove` | SC:136, 163, 608 | the writes of that decision, one by one |
| `CreatorKilled`, `ReconcilerKilled` | anywhere | death between any two writes |

### Retirement, restore and native history

`SessionRetirement`: `dir` is where the directory of the session is (its name,
`.archiving-`, `.retired-`, half removed, gone) with its history (two files at
the number of their writes) and its work (HEAD, index, files, bytecode cache);
`owner` the journal, whether the session was headless, and the resume hold;
`kept` what outlives the directory: archive, snapshots, preserved cache and work,
each with whether it has been synced. `Gc` is `gc_unlocked` for this session in
its steps: lease, look at the holds, history, archive (`ar`, the steps of
`harness_session_archive.py`), snapshot, proof of the work, rename, removal.
`Preserve` is the operator's work recovery. `Launch` takes and releases the
runtime lease, `Write` is a program that holds none, by name or by descriptor.
`Dies` is a killed process or a power failure, which loses what is not synced.
`SessionRestore` adds a new session's `target` (home and ledger) and its restorers
(`rehydrate`: stage, verify, ledger, publish, undo), and runs beside gc.

`NativeHistory`: a home is the set of writes it holds, `place` where it is,
`lineage` the snapshot it was restored from, `latest` the snapshot of each home
that the catalog prefers. A process is a launcher (leases, catalog, restore,
receipt, native), a keeper (retire: snapshot, verify, tomb, remove) or the app,
which writes with no lease. A launcher that dies in its restore and a keeper that
dies in its removal (`rm -rf`) leave any part of the home; what a keeper leaves
gets its name back (`RecoverTomb`), and `shorn` remembers where something of the
conversation was missing. The catalog (`Decide`) is computed as in
`codex-history.py` from homes, snapshots and lineages.

### Headless runs

`HeadlessRun`: `run[r]` has the point a run is at and its `todo`, what `finally`
blocks and context managers still have to undo there; a signal raises at any
point. `alive[r]` tells the agent's process group from strays outside it. The
session's broker is its two outcomes. `TargetDelivery`: `journal` and `record`
are the delivery's files, `wire` the git and gh commands on their way, which
survive their run; each `Step` is one durable effect of `run_target`,
`commit_candidate` or `deliver_target`. A push that has landed is in `wire` until
its answer is read (exit 0, then the journal says PUSHED) or lost (then the remote
is asked).

### Herdr receipts

In each module `proc[k]` is one process running one command, with the receipt it
has read; `wire` the requests that may still arrive, `answer` what came back.
`Serve` answers, fails or does nothing (a lost request or answer is a process that
sees an error while the service acts or not). A receipt is replaced only if it is
still the one the process has read (`transition`), under the intent's lock where
there is one. `HerdrLifecycle` has the two markers, `HerdrUIAnswer` the step ban
with its generation, `HerdrAgentRequest` expiry and pruning under the capacity
lock, and `HerdrLaunch`, which has no lock, inodes and the temporary file of one
fixed name; its receipt is created, written and synced in three steps (`Create`,
`Fill`, `Sync`), each of which may fail (`FillFails`) or be the launcher's last.

### Surfaces

`SurfacePublication`: `source` is the version of the sources, `live` and `stage`
map each launcher-owned output to the version it was compiled from, with the
signature. The steps of `prep[k]` are those of the publisher: lock, warm probe,
compile, probe of the candidate, exchange of each output, merge of what Codex
saved, signature, and their undoing. `SurfaceSelection` is a function of its
input, in the two passes of the code: every inventory of a small universe (a
project's, a user's, a plugin's and an agents directory's copy of two names,
links and explicit skills among them) under every valid manifest.

### omp and canonical bootstrap

`OmpEnrollment`: `index` and `state` are the two files, digests the values
digested; `writer` holds the lock and the writes still to do; `ctl` a controller
with its token, `sel` one selector. `live` is the machine now: the binary, the
release and the device may change. `OmpDevices` is `DevMap`.
`OmpContinuation`: a run has three parts that die separately: `run` (launcher),
`helper` (the metadata operation) and `native`. `Operate`, `Recheck` and
`Replace` are the helper's reading, checking and replacing of the record.
`CanonicalBootstrap`: the parent's loop (`Receive`, `Answer`, `Settle`, `Drain`,
`Report`), the extension's (`Extension`), the socket's two directions and the
liveness pipe; an authority is a version number that grows when it is replaced.
`changed` says that the native's process record no longer compares equal
(`same_process`), whether the native has ended or lives; a native that gets SIGKILL
is gone or, when the 5 seconds are not enough, `"killed"` and still there.
`Release` lets go of the lease in each of these cases, as `finally` does.

### Herdr plugin, title brokers

`PluginNotices`: `events` are status changes whose run has not begun, `run` the
runs between reading the pane, the lock, and acting; `rec` is the pane's
record. `PluginTabs`: `herdr` is the pane and tab as herdr has them, `file` the
agent's record file with a line that may be half written, `st` state.json, `sync`
the run that holds the lock, `w` the watcher. `ClaudeTitles` and `CodexTitles`:
`tab`, the transcripts or the session index, the request, acknowledgement and
status files, and the broker's or watcher's variables.

### Manifests, guard, fork

`UsageManifests`: each process (launch, creation, retirement, gc) evaluates the
policy of the roots it knows, waits for the lock, and writes one manifest after
the other. `AppServerGuard`: `relayIn` and `relayOut` are the threads, with the
line they hold; a line is written in two halves under `out_lock`. A line that has a
key twice and is torn as well (`Raises`) ends the input, since the parse that routes
the refusal is outside the `try`. `ForkRequest`:
a command line is a sequence of classes of tokens, built block by block;
`_request` reads it from the left as the code does, `Rewrite` is the line run
instead. `ClaudeFork`: `lock` is who has the record lock of each file, `fork` the
prepared forks of a process; a process loses its locks with any
descriptor of the file that it closes, by its own code or the catalog's. The
parent's record may be discarded meanwhile (`Discard`), which is terminal too.

## 4. Runs and bounds

### The core

| run | question | result |
|---|---|---|
| `Sessions` | *race*: two brokers in two pools and another host race for one remote, one dies: are deliveries real and is nothing lost from main? | holds |
| | *resubmission*: one session, two brokers of a pool, two submissions of equal or different content, two deaths, a lost answer, a renamed origin: does the evidence decide every recovery, does no content land twice, is the contract kept? | holds |
| | *creation*: one creation, standalone or bound, its engine and its descendants, a launcher, two reconcilers, two of the processes killed: is publication whole and single, does a declared intent stay findable, is nothing live removed? | holds |
| `Queue` | *crashes*: workers die twice, the coordinator is killed or stopped, the session is resubmitted, recovered, discarded: are the answers honest and is the contract kept? | holds |
| | *lanes*: two pools, one destination, two workers, gc in between: is gc alone, do deliveries land in order? | holds |
| `QueueTakeover` | *direct*: a broker that waits since before the enrolment, a dying worker and coordinator, a worker that cannot be started, another host that pushes; *alone*: gc and integration, a coordinator that dies twice: exclusion, and is every job answered? | holds (with fairness) |
| `Components` | each of the other components by itself, see below | holds |
| `LostResponse` | can reconcile finish every published creation? | violated, see 7 |
| `LostAnswer` | is a submission that is on main ever refused? | violated, see 7 |
| `StartFault` | is a job failed only when its outcome is known? | violated, see 7 |
| `GcBarrier` | is the start order FIFO per destination? | violated, see 7 |
| `StrandedSubmission` | can every submission be accepted? | violated, see 7 |
| `StuckControl` | can an operator settle whatever is left to him? | violated, see 7 |
| `ShortenedResume` | does the catalog always answer with the whole conversation? | violated, see 7 |
| `LostRename` | is a failed rename of a tab made good? | violated, see 7 |

The parts of a passing run are instances explored side by side: `MCSessions` chooses
one of three in its initial state, the constraints of `MCIntegrationQueue` leave open
the union of two. Every property of the run is checked on all its parts. The last two
runs check a module of `Components` by itself.

**Properties.** `WriteAhead`: while the outcome of a push is open, the evidence
names the pushed commit. `RecoveryExact`: the verdict of recovery is DELIVERED
exactly when the submission is on main, wherever the broker stopped.
`DeliveredLanded`: DELIVERED names a commit of main, of this session, this
submission, this identity. `AtMostOnce`: no content of a session twice on main.
`MainOnlyGrows`: an action property over the whole history. `LaneExclusive`,
`SessionExclusive`, `DirectExcluded`, `GcAlone`: who never works beside whom.
`AcceptedInputs`: a worker integrates what its job accepted. `DeliveredHonest`,
`FailureHonest`: the answers of the ledger. `LandsInOrder`: when a worker's commit
reaches main, every earlier job for this main has been answered; the exception is
a job that was never started, because it stands behind a gc of its own pool.
`EveryJobSettles`: every accepted job is answered, or waits for `queue reconcile`
of an integration (`AwaitsReconcile`), or stands behind a control operation that was
interrupted twice (`Stuck`); that nothing is `Stuck` is what the documentation says and
the run `StuckControl` refutes. `ImplementsDelivery`: refinement of the contract.
`PublishedWhole`: a journal only over a completed tree, a declared intent and, if
bound, the binding. `PublishedOnce`: no journal is put back to OPEN under a
session in use, by whomever. `IntentFindable`: until its commit is recorded, the
index and the mark lead a reconciler to a declared intent. `NothingLiveRemoved`:
what a step removes has no engine, no descendant, no launcher, no journal and no
binding.

**Bounds**, each a CONSTANT used in a guard. `MaxRounds` (submissions of a
session) is 2 where evidence of an earlier round matters: all files are rewritten
or removed per round, so a third round sees nothing a second does not.
`MaxCrashes` is 2 where a recovery may itself be interrupted. `MaxShas` bounds
commits: two attempts per integration, and a re-run after a crash. `MaxOthers` is
1: one foreign commit is enough to invalidate a candidate, and it may come
at any time. `MaxLost` and `MaxRenames` are 1. `MaxJobs` is 3 where order over two
pools matters (a barrier between two jobs), otherwise 2. `MaxOutages` is 2 in
`QueueTakeover` and `StuckControl`: the coordinator's own jobs are bounded by two
attempts, so that two interruptions of one row are a case of their own (the row is
left to the operator). It is 1 in `Queue`, whose properties do not look at the number
of attempts and are proved for any. Creations share nothing but the index directory, so
there is one, started in either mode; two reconcilers are enough for one to act on what
the other has changed since its scan, and two deaths (`MaxDeaths`) for the
creator and the reconciler that takes over from it. Two brokers, or one broker and one worker, suffice for the mutual
exclusion properties because they speak of pairs. Every safety property and
refinement of the broker, the queue and the creation that these runs check is also
proved, without any bound (section 6; `FailureHonest` without direct brokers, start
faults and lost answers, as `Queue` checks it), so that the bounds matter for
`EveryJobSettles` alone. `CHECK_DEADLOCK` is off because the bounds, and the final journal
states, let every instance come to rest. Brokers and workers are symmetric in the
runs that check safety only.

Every property of a passing run has a mutant in `PROJECT.json`: a changed
definition of the code under which TLC finds the property violated (for example
a forced push for `MainOnlyGrows`, a pathset that is not compared for
`AtMostOnce`, gates not inherited by the workers for `DirectExcluded`).

### Components

The run `Components` (`Components`, with the values in `MCComponents` and
`Components.cfg`) checks all modules of the second table. They share no file, lock or service with one another, so steps of
two of them commute, and interleaving them would show nothing more: a behaviour
chooses one component and exercises it alone, over a common set of variables.
What they share with the core (the journal of a session, its leases) is
part of each module as far as it needs it. `CHECK_DEADLOCK` is off, since
each behaviour ends when its bounds are used up or its processes have ended.
Its properties, and the instances they look at:

| property | parts | instances and bounds |
|---|---|---|
| `NoReplay` | refinement of `NoReplay` by the three Herdr modules | as below |
| `ResultKept` | a result on record is not replaced | as below |
| `LifecycleSafe` | `ReceiptHonest`, `ResultRecoverable` | a creation, a dependent, three processes, a death |
| `AnswerSafe` | `AdmitsFreshStep`, `CancelOnce` | three processes, two steps, a death |
| `LocatorKept` | | two intents, room for one receipt, three processes, a death or expiry |
| `LaunchSafe` | `SentIsSaved`, `PhaseHonest`, `ReceiptWhole` | launcher and status, a death; `ReceiptWhole` but for a receipt whose launcher died creating it |
| `TargetSafe` | `OneCommit`, `ScreenedOnly`, `OpenedHonest`, `OneDigest` | two runs, two host records |
| `HeadlessSafe` | `QuietDelivery`, `HonestResult`, `CleanResult` | a run beside another, a model request, two signals |
| `HistorySafe` | `NoHistoryLost`, `ForkFree`, `CatalogComplete` | two sessions, two launchers, a keeper, the app; a death, in a removal too: the last two parts until one has shorn a home (`shorn`) |
| `SurfaceSafe` | `WarmIsTrue`, `HomeWhole`, `RuntimeKept` | two preparers, two saves, two edits, a signal or death |
| | `NothingShadowed`, `FoundOnce`, `UsersKept` | all inventories and manifests |
| `OmpSafe` | `SelectedInForce`, `StopsForCause`, `BuiltOnAll`, `Irreversible`, `OrderOfDevices` | two profiles and two operations; one profile and three; two controllers, one change of the machine |
| | `OneNative`, `ReadyTrue`, `Resumable` | three runs, one kill |
| `BootstrapSafe` | `OnlyGranted`, `Honest`, `NotCut`, `LeaseCovers` | one update, one replaced authority or changed native |
| `ViewSafe` | `AnnouncedOnce`, `NotEarly`, `DecisionTrue` | two runs and three events; one, the watcher and two |
| | `LabelTrue`, `MetadataTrue`, `UserKept` | Claude and Codex, two changes; one change and one fault |
| | `UserKept`, `FrozenFor`, `Faithful`, `OnTheTab`, `AckTrue` | two sessions; two handoffs and a change, three handoffs, or one handoff, a change and a fault |
| | `NeverBack`, `Shows`, `StatusTrue`, `NoStray` | two sessions, two watchers and the broker, two names, four faults |
| | `ReadsBack`, `ForksByOption` | all lines of four blocks |
| | `Current`, `StaysHidden` | two state homes; a launch and a change of policy, or two launches and a fault |
| `RetirementSafe` | `NothingLost`, `ArchiveTrue`, `Durable`, `HeldStays` | closed, delivered, headless and discarded sessions; one write and one death, or two writes |
| | `Ledgered`, `Faithful` | two restores and a death; one, a write and a death |
| `GuardSafe` | `Inside`, `Answered`, `LinesWhole`, `EndsWhole` | two messages |
| | `LeasesKept`, `ForkHonest`, `NothingHeld` | two processes, one of them with two forks; two resumes, a write |

Why these bounds: each property is about what one process does on what another
has changed since it looked, and so speaks of two actors and one change between
them; a second change, death or signal is allowed where the code has a second
line of defence (a recovery that may be interrupted, a signal during cleaning
up). A third process is there where one learns what another has done by way of a
third (a status between dispatch and cancel). Of each queue of requests, lines or
events there is one more than what can be under way at once. The properties' mutants in `PROJECT.json` break
one part after the other.

## 5. Fairness

Safety runs assume none. `QueueTakeover` uses `QFairSpec`: weak fairness of

  - `Serve`, because the coordinator is a launchd job with `RunAtLoad` and
    `KeepAlive` (Q:447-457), started again after every end;
  - `TakeGate`, the claims and `Finish`, because `serve` polls its gates, its
    ledger and its children every 0.1 s;
  - `OrphanGone`, since a process that ended is seen by its guardian;
  - the steps of a worker or direct broker, which are a running process's next
    instruction; and the wait for the lane, which ends by a timeout (600 s).

Nothing is assumed about owners, other hosts, faults or the operator: no
`ReconcileJob`, no `Enable` or `Disable`, no new submission. Hence the property
lets a job wait for the operator once its automatic attempts are used
(`AwaitsReconcile`), and the jobs behind it on its destination with it. The operator
can help where the row in the way is an integration (`Reconcilable`). Behind an
exhausted control operation a job waits for good, whatever anybody does (`Stuck`): the
property leaves these out, and `StuckControl` shows that there are some.

## 6. Proofs

All theorems hold for every value of the constants that the named assumptions
allow: any number of sessions, contents, pools, remotes, processes and any bounds.
`RecordAssumption`, `BrokerAssumption` and `QueueAssumption` say that the markers
`Free`, `Gate`, `Other`, `None`, `NoIdentity` are not sessions, contents or
processes and that each session has a pool and a remote; `CreationAssumption` that
the holders of a lock are distinct. The assumptions of the other components
(`LifecycleAssumption`, `UIAnswerAssumption`, `RequestAssumption`, `LaunchAssumption`,
`TargetAssumption`, `HeadlessAssumption`, `BootstrapAssumption`, `ForkAssumption`,
`GuardAssumption`, `HistoryAssumption`) are definitions that their theorems have as hypotheses: markers are not values, sets are finite where they are
counted, the runs are of the commands there are. `Components` asserts them together
(`ComponentsAssumption`), so that TLC evaluates them in the run, and with them `Pair`,
of which `LaunchIsSafe` speaks below.

What an instance promises is proved where the instance is: a module of theorems
that has a second component declares its variables and INSTANCEs it (`Launch` in
`HerdrRequestProofs`, `Guard` and `History` in `GuardProofs`, `Headless` and
`Bootstrap` in `HeadlessProofs`).

### The broker

The first part of `IntegrationProofs` has

  - `Typing`: `Spec => []BrokerTypeOK`. The type invariant is not inductive: a
    broker step writes the journal of its subject, which must be a session. The
    inductive `TypeInv` adds `SubjectsOK`, that a busy broker has one.
  - `LaneIsExclusive`: `Spec => []LaneExclusive`. Exclusion follows from
    `LaneHeld`: a busy broker is the holder of the lane of its session's pool.
    `StepShape` shows that a broker step either goes on with the same session and
    locks or ends; `EndsLane` that an ending broker releases its own lane only.
  - `MainIsAppendOnly`: `Spec => MainOnlyGrows`. `push` replaces main by the
    candidate's history, and it is a fast-forward exactly when that history is
    the present main with one commit added (`AcceptsGrows`).

Its second part is about the files beside the journal. The inductive
`EvidenceInv` has two sides. `SessionInv(s)` relates journal, files and the commits
of s on main whether or not a process is at work: no commit is of a later round
(`RoundsOK`), an open session has no evidence of an earlier submission (`Clean`),
the files name what this submission put on main (`Named`) and what they name
there is its contribution (`Mine`, `Acked`), and a DELIVERED session has its proof
on main (`Proven`). `HandInv(b)` says what a broker knows at each of its steps: a
candidate's base does not hold the content it adds (`Unlanded`, established by the
pathset comparison at the clone), its sha names nothing else (`ShaNamed`), what it
read back is true (`Pushed`, `ReadBack`). The names of commits tie the two sides
together, and `Apart` keeps the names of different brokers apart.

Of whoever hands out sessions the lemmas need only `WorkInv`: that the session in
a hand stays INTEGRATING (`Integrating`) and is in no other hand (`OneEach`). The
direct brokers establish it by the lane (`LanesApart`): every command that leaves
INTEGRATING needs it. A step is then one of a broker (`WorkStep`), of the owner
(`RecordStep`) or of another host (`ForeignStep`), and each is shown to keep both
sides. It follows that

  - `EvidenceIsAhead`, `RecoveryIsExact`, `DeliveredIsLanded`: the evidence is
    written before what it is evidence of, recovery judges without error at every
    point at which a broker may have died, DELIVERED is never a guess;
  - `DeliveredAtMostOnce`: what a push lands is not yet on main, since the
    fast-forward check makes the candidate's base, which `Unlanded` speaks of, the
    whole of main;
  - `BrokerImplementsDelivery`: `Spec => ImplementsDelivery`. An accepted push maps to
    `Land`, the step to DELIVERED to `Confirm` (enabled because of `Proven`), the
    other writes of the journal to `Begin`, `GiveBack`, `Refuse`, `Leave`, `Reopen` or
    `Discard`, and everything else to a stutter.

### The queue

The rest of `IntegrationProofs` reuses these lemmas. The inductive invariant `JobInv` is
the protocol of leases: a worker that is out has a running row and its session
(`SlotsOK`), two of them share no row, no session and no pool of a gc
(`SlotsApart`), and while one is out every enrolled lane is held as a gate
(`GatesHeld`). The gates keep direct brokers out, the leases other workers; both
together are `WorkInv`, so that everything said above of a direct broker's evidence
holds of a queued worker without another proof. `WorkBound` and `DeliveredBound`
add that a worker has the snapshot of its row in hand and that a delivered row's
session is DELIVERED with it.

  - `DirectIsExcluded`, `SessionIsExclusive`, `GcIsAlone`, `InputsAreAccepted`,
    `DeliveredIsHonest`, `QueueTyping` are consequences of `JobInv`.
  - `QueueRecoveryIsExact`, `QueueDeliversAtMostOnce` and `QueueImplementsDelivery`
    are the broker's results for the composed system.
  - `LandingsAreInOrder`: `QSpec => LandsInOrder`. A worker that pushes has a running
    row. `InOrder` says of every worker that is out, an orphan included, that the open
    rows of its destination before its own were never taken up and are behind a gc of
    another pool, and that no row that was taken up is behind a barrier. A claim shows
    this for its own moment; that it lasts until the push, over other claims, deaths of
    the coordinator, second attempts and new submissions, is the proof.
  - `FailuresAreHonest`: `Undisturbed => (QSpec => FailureHonest)`, where
    `Undisturbed` excludes direct brokers, starts that fail, lost answers of a push
    and a renamed origin, but no death of a worker or coordinator. The hypothesis
    is needed: runs `LostAnswer` and `StartFault` show a job answered failed
    although its content landed or its outcome is open, and section 7 says how
    a direct broker leads to the same. The invariant that is added
    (`KeptInv`) says that a commit on main belongs to a session that is
    INTEGRATING or DELIVERED, and that no candidate has landed before its push.

### The creation of sessions

`SessionCreationProofs`: `CreationTyping`, `PublishedIsWhole` and
`PublishedAtMostOnce` follow from `CreationInv`. The properties are not inductive by
themselves: whether a step may publish depends on what the acting process knows.
`OneHolder` says that a fresh lock and the inherited one exclude each other and
that whoever acts holds the fresh one; with it, `Alone` shows that a reconciler
with the lease has neither a creator nor an engine nor another reconciler beside
it. `CreatorKnows` ties the creator's program counter to the disk.
`ReconcilerKnows` says what a reconciler's old metadata is still worth: a phase
that declared the intent can only have become committed or have gone, which is
why publishing on it is right. `Unopened` adds that a record without a journal
was never published. The steps of creators, engines and runtimes are shown to
respect what reconcilers remember by one lemma (`SideRespects`, `RespectsKnown`).

`IntentIsFindable` and `NothingLiveIsRemoved` need `RemovalInv` beside it: the index
entry and the marks stay until the creation is recorded as committed (`FilesKept`);
nothing is bound before the intent is declared (`Unbound`); whoever removes files
holds `runtime.lock` and leaves artifacts whose engine was not confirmed stopped
(`CleansAlone`); and what a reconciler saw when it decided on a removal is still so
when it removes (`ScanKept`). Hence nobody lives in what is removed
(`NobodyLives`).

### Twelve other components

`GuardProofs`, first part: `ClaudeFork` (`ForkTyping`, `LeasesAreKept`, `ForkIsHonest`, `NothingIsHeld`):
of the calls of a process one at most is alive (`OneAlive`), so the descriptors it
closes are its own; a live call holds the native lease and, from its look on, the
runtime lease (`Holding`), and nobody else has them (`RuntimeOwed`, `NativeOwed`,
`LauncherHolds`). What was digested is therefore still there (`StateKept`,
`Digested`), except for the settings, which anybody may write: they are read in
one order each time (`ReadInOrder`), so that equality at the second reading makes
the receipt and the settings the same.

`HerdrUIAnswerProofs`, first part: `HerdrUIAnswer` (`UIAnswerTyping`, `AnswersAreSafe`, `ResultIsKept`,
`StepsAreNeverReplayed`): generations only grow, so that whoever still sees its receipt
on disk has missed nothing (`Seen`); the process whose step is under way owns the
marker, and there is one (`Banned`); a cancellation is for ever (`Cancelling`); while
the phase is "known" no message is under way that could move the service
(`Settled`, `Timely`). `StepsAreNeverReplayed` is the refinement of `NoReplay`.

`HerdrUIAnswerProofs`, second part: `HerdrLifecycle` (`LifecycleTyping`, `LifecycleIsSafe`, `LifecycleResultIsKept`,
`LifecycleIsNeverReplayed`), for any number of intents, processes and deaths. Whoever
is between two writes of the store has the lock and has seen the receipt that is there,
and before the receipt of a dispatched creation its fence is there (`Held`). A process
has one request under way at most, and an answer that says how an operation ended is
what the service has for ever (`Mailed`); hence a receipt is true: terminal when the
operation is, with the proof of a creation exactly when that completed (`OnDisk`), and
no later observation can take that back. Of the processes that reserved an intent one
at most holds the get-only marker it made (`LifecycleBanned`, `OneBan`), and a request whose
outcome is not on record has the marker behind it (`OpenBanned`): that is why none is
sent beside it, whoever died or gave up in between, which is the refinement of
`NoReplay`. A step of a process disturbs nothing of the others unless it holds the lock
or the marker (`Frame`); so each action has only to show what it keeps of its own
process (`Kept`), and `OthersKept` gives the rest.

`HeadlessProofs`, first part: `TargetDelivery` (`TargetTyping`, `OneCommitIsPushed`, `OnlyScreenedLeaves`,
`TargetIsSafe`): only the holder of the branch's lock works (`Alone`). The journal, once
there, keeps its commit (`Recorded`), so what a dead run left under way is a push of that
very commit (`Pushes`), and a later run pushes it again or finds it. The phase on disk
promises what is on the remote (`Phased`), and each place of a run says what it knows of
the journal, the record and its candidate, which is screened before it is saved (`Knows`).

`HeadlessProofs`, second part: `HeadlessRun` (`HeadlessTyping`, `HeadlessIsSafe`), for any
number of runs, model requests and signals. For each thing a run must not leave behind
the invariant lists the places at which a run may have it, and says that at the place
`unwind` undoing it is still among the chores of `todo` (`Agented`, `Serves`, `Leases`,
`Stored`; `Owes`); this is the obligation that a signal creates wherever it strikes
(`TodoIs`) and each chore discharges (`DueTail`). Only the second signal breaks it, which
is why the promises except a run that is `cut`. `Told` keeps what the run will answer
equal to its session up to the result. All of it is about one run, since runs of one lock
exclude each other and the rest is private to each (`OneMoves`).

`HeadlessProofs`, third part: `CanonicalBootstrap` (`BootstrapKeepsItsPromises`), for any
number of replaced authorities. Parent and extension share nothing but the socket and
the pipe, so the invariant speaks of the messages on their way. A question is of the
extension's past (`Fits`): only the last one may be the engine's, and one that tells the
outcome is asked when nothing of it can change any more (`Spoken`). An answer that lets
the engine work was counted as granted when the parent took the question (`Earned`); an
answer to an earlier question has another number, however late it comes. That the parent
need compare with what it holds only, and not with what it admitted, is `Matched`: the
extension's first question already finds the code as admitted, and what the parent holds
was read between the two. An engine at work means a bound session and no result
(`AtWork`), hence no signal. The lease is released after the native, or over one that
could not be compared or not be killed; then the pipe is closed before it, so that
the extension finds itself without an owner (`LeaseCovers`).

`HerdrRequestProofs`, first part: `HerdrAgentRequest` (`AgentRequestTyping`,
`LocatorIsKept`, `RequestResultIsKept`, `RequestIsNeverReplayed`), for any number of
intents, processes, kept records and mishaps. Here the hard part is that a receipt may
go: `_prune` takes the capacity lock and unlinks what has expired. An intent has
one requester, which found no receipt when it reserved (`OneRequester`, `Unborn`,
`Uncalled`), so nobody dispatches it a second time when the receipt is gone. Whoever has
the lock of an intent has seen what the file held last, though it may have been unlinked
since (`Locked`); from the mark of a cancel to the record of its outcome the receipt
says cancel_started, and so has whoever has the lock seen it (`Cancelling`). The service
keeps how a workflow ended, because its only prepare came first (`Mailed`, `Ending`).

`HerdrRequestProofs`, second part: `HerdrLaunch` (`LaunchIsHonest`, `LaunchIsSafe`).
There is no lock to reason with. A job has one end, so whoever has learned it is right
for ever (`Honest`), and what is on disk was learned by somebody; this holds for any
number of readers. That a reader finds a whole receipt (`ReceiptWhole`) depends on
the one fixed temporary name: it is that of the file its creator still writes, unless
the only other process has unlinked it on its way out (`Owned`). The launcher's own
file is empty while it is made and is filled before anything is sent (`Filled`); until
then no other process has read it. Hence the
hypothesis `Pair`, one process beside the launcher; with a third, TLC finds
`ReceiptWhole` violated (section 7).

`GuardProofs`, second part: `AppServerGuard` (`GuardTyping`, `GuardKeepsItsPromises`),
for any number of lines. Each number of a request is in one place at most: on its way to
the server, with it, on its way back, or received; and in one exactly while both sides
live. `Total` counts the places, and `Counts` bounds the sum by 1: a step moves one
summand into the next and the others stay. This needs that no queue has a
number twice (`Onces`). `Shares` ties the lock to the half line and to the thread that
wrote it as long as the client lives (a broken pipe may leave half a line behind, but
nobody reads it). `Leaves` says that the carrier of the server's lines ends after the last
of them and that the main thread flushes after that.

`GuardProofs`, third part: `NativeHistory` (`HistoryKeepsItsPromises`), for any number
of sessions, launchers, keepers and writes of the app; a death may strike again and
again. Whoever keeps or resumes a session has its lease, a keeper only a terminal one,
and what it has seen of it is still there (`Place`); one launcher at a time is past the
lease of the conversation. A home at its root or tomb holds all that was snapshot of it,
and one of these snapshots holds the others (`Store`); a keeper removes what is in the
snapshot it has just compared, so nothing is lost (`NoHistoryLost`, for any number of
deaths: a keeper that dies in its removal takes only what the snapshot has). The rest
holds until a restore dies between its writes and its receipt (`torn`), or a removal in
its middle (`shorn`): either leaves a home that the catalog must not trust and does
(section 7). Till then the homes with
history form a chain: each was restored from the one before it or is being so (`Chain`),
it holds what its predecessors wrote and nothing of a successor (`Prefix`), and its own
writes stay with it or with its last snapshot (`Grown`). The app writes to the home of
the repository at any time, with no lease, so `Prefix` does not speak of it; a session
resumed after it has its write, and all later ones (`AppKept`). The catalog's answer
follows from the chain: its end is the one home or archive that is nobody's origin, and
it has all there is (`Answer`, `AnswerIsComplete`), which gives `ForkFree` and
`CatalogComplete`.

`RetirementProofs` (`RetirementKeepsItsPromises`, `RestoreKeepsItsPromises`), for any
number of writes, deaths and restores and every kind of ended session. The promises are
about moments: what gc removes must be kept as it was when gc looked last, and whoever
wrote after that look wrote too late. The argument has three parts. Whoever works has the
lease (`Owned`), so one `archive()` at a time is under way, and its copies are of one
moment unless its second look at the inventory makes it fail: the copy of the index is
not newer than the file, hence when the transcript is copied there was a moment with both
(`Archiving`, over the history `past`). When there is a history, gc compares its snapshot
with the directory at the end; the archive lies between the two, and files only grow, so
equality of the ends gives equality of all three (`Seen`, `Between`). A directory
without history is archived empty, and what is found in it afterwards was written after
gc's last look (`Covered`). And custody of work is trusted from
its record only, which is loaded after it was synced (`Custody`). With restores,
`StageOK` says what each of them has staged and whose ledger is at the target while it
publishes: a staged transcript is of some moment, and the home is published on top of its
own ledger. The two hypotheses say that "none" is neither a record nor a name and that a
restore is neither gc nor the owner.

### The components together

`ComponentsProofs` states the properties that the run `Components` checks. A behaviour
of `Components` never changes the component it exercises, so it is one of that component's own
specification, or never touches it (`LifecycleAlone` and its like). The
theorems of the component's module, instantiated, then give `LifecycleIsSafe`, `AnswersAreSafe`,
`LocatorIsKept`, `LaunchIsSafe`, `TargetIsSafe`, `HeadlessIsSafe`, `BootstrapIsSafe`,
`RetirementIsSafe`, `GuardIsSafe` and `HistoryIsSafe`. For the action property
`ResultIsKept` and the refinement `NothingIsReplayed` a step that leaves the
component's variables as they are must leave all of them (`LifecycleStutters` and its
like): otherwise the box over the composition would say more than that over the component.

### Only model-checked

`EveryJobSettles`: liveness under fairness is outside the prover's reach. What the
eight runs of section 7 ask is false there. Of the
properties of `Components`: `SurfaceSafe`, `OmpSafe` and `ViewSafe`, which are safety properties that could be
proved (section 9 says which is next), and `TypeOK` as a whole, since it speaks of these
components too; of the twelve proved ones the types are part of the invariants. `FailureHonest` in
full generality is not proved because it is false, `ReceiptWhole` with more than two
processes likewise.

## 7. Findings and limits

Each is shown by a run that reaches the state, and quoted in `PROJECT.json`.

  1. `LostAnswer`: when `git push` fails although the remote accepted it, the
     loop goes into its second attempt on top of its own commit and ends in
     CONFLICT, although the comment at SI:1594 says that an outage after a
     successful push is indeterminate and not a conflict. The work is on main;
     recover reopens the session.
  2. `StartFault`: a worker that cannot be started for a second attempt marks the
     job failed without looking at the journal, which may still be INTEGRATING.
  3. `GcBarrier`: rows behind a gc row of their pool are skipped before their
     destination is marked busy, so a later job of another pool overtakes them;
     the documentation promises FIFO per destination across pools.
  4. `StrandedSubmission`: a failed job (other than by 17) keeps the dedup slot of
     its identity. The same work submitted again only gets the old receipt, and
     neither resume nor recover accepts a SUBMITTED session.

  5. `LostResponse`: a creator killed right after it published the journal leaves
     its creation at publication_started, and reconcile recognises such a
     publication by its preparation evidence, which includes that HEAD is the
     base. Once the session was resumed and its agent has committed, every
     reconcile preserves it: the index entry stays for good, although
     docs/session-creation.md:49-51 says that a lost completion response is
     resolved from durable state. The session itself is whole and usable.
  6. `StuckControl`: a recover, discard or gc whose coordinator dies twice becomes
     needs_reconcile (Q:648-650). `queue reconcile` takes integrations only
     (Q:776-777), and the documentation (docs/session-integration-queue.md:116-118)
     names no other way. Later rows of its destination wait for good, and a gc row
     bars its whole pool (Q:642-643).
  7. `ShortenedResume`: gc is killed inside the `rm -rf` of a tomb (SI:599). The next
     run gives what is left its name back (SI:702-719, or codex-history.py:1152-1167
     in protect-pool), and the catalog prefers a live home to any snapshot without
     comparing them (codex-history.py:1114-1120). A resume then continues a part of
     the conversation, although docs/codex-history.md:65-66 permits no shortened
     resume; the whole is in the snapshot (`NoHistoryLost` holds).
  8. `LostRename`: the plugin records the wanted label before it renames the tab
     (harness_herdr_plugin.py:678). When the rename fails, the old label is neither
     the recorded one nor the position, so the tab counts as named by the user for ever;
     the comment at 675-677 says that the next run retries.

Seen while modelling, without a run of their own: a direct `integrate` of a
session that a dead broker left INTEGRATING starts over instead of reconciling,
and ends in CONFLICT when the push had been accepted (docs/architecture.md:977
promises reconciliation of a crash in INTEGRATING; `recover` does so). And when
the origin was spelled anew between push and recovery, recover does not judge the
remote and returns a landed submission to SUBMITTED: `RecoveryExact` excludes
renamed sessions, `AtMostOnce` and the contract hold for them too. A direct broker
that chose the lane before the pool was enrolled, and gets it when the coordinator
and its worker were killed, does the same to a queued session: its content is on
main, it ends in CONFLICT, and its job is answered failed. This is why
`FailureHonest` is checked and proved without direct brokers.

Three more disagreements with a comment or a document are in the models, and excepted
from the properties, without a run that shows them:

  - The `finally` of a canonical update says "Ownership lasts until the actual
    child/drain settles; only then release" (harness_canonical_bootstrap.py:768). When
    the native's record does not compare equal, or the native outlives its kill by 5
    seconds, the code notes BOOTSTRAP_NATIVE_DRAIN_UNCONFIRMED (784-787) and closes the
    lease (794) over a process that may run. `LeaseCovers` promises no more than
    that such a native has been revoked; an engine it had already let to work goes on
    without the lease.
  - A title broker forgets a name it gave when two handoffs follow without a rename
    between them, and takes it for the user's (`orphan` in `FrozenFor`), although
    docs/session-titles.md:37-38 says that repeated handoffs are supported.
  - A line of the client that has a key twice and is torn or too deep as well raises out
    of the relay (codex-app-server-guard.py:217-219), whose handler ends the input (375):
    this line and the ones after it get no answer, although every other bad line gets
    one. `Answered` speaks of what the relay has read.

### Limits of the code that the models had to take into account

Each property above is as strong as the code allows. Where it is weakened by a
history variable or an exception, the code has the following limits; none is
promised otherwise by the documents unless it is said here.

*Retirement and restore.* Tombs (`.retired-`) left by a crash stay for ever. A gc
killed inside its removal leaves a half-removed directory that the next run gives
its name back; it is not removed further, since proof and archive refuse it. An
archive whose maker died between rename and sync is accepted without a sync of its
parent (`early`). History written between the last look and the removal of a home
that had none goes unseen (`late`). A discarded session's commits after the
discard go. A hold takes no lease, so one placed after gc looked does not keep the
directory. A cache copy left partial, or a preservation that failed at its last
sync, refuses for good. A restore killed after its ledger leaves a target that
no restore can use.

*Native history.* A restore that dies between its first file and its receipt leaves
a home without lineage (`torn`), a removal that dies in its middle a home without a
part of the conversation (`shorn`, finding 7). The lease of a conversation is one per pool, so
two pools may fork it.

*Headless runs.* A signal between the end of the Claude agent and `collect` leaves
its strays.

*Herdr.* Pruning beside a transition may exceed the capacity and bring a pruned
receipt back. A launcher killed while it creates its receipt leaves an empty one, before
anything was sent: status and a second launch refuse it. The launch receipt is compared
without a lock, so a slower observer may overwrite "started" (`PhaseHonest` asks only
that a final phase was true), and with a third process its fixed temporary name may tear it. A torn
get-only marker withholds authority for ever.

*Surfaces.* What Codex saves between an exchange and its undoing is lost
(`crossed`). When the repository's agents directory is a link to a selected project
skill, the file exposed is disabled by its other path (codex-surface.py:1099-1111).

*omp.* A crash between the two files stops every profile until the root is
disposed of. Publish and block compute the token they answer after the
unlock (harness_omp_projection.py:966), so it may vouch for another controller's
block. The window of `replace_record` lets the orphaned helper of a dead launcher
overwrite a newer admission, and an orphaned RESUME_ADMIT supersede a live one.

*Bootstrap.* The lease may be released over a native that could not be drained (above).
Profile, enrolment, state and owner files are held as they are when
they are held, not as they were read. A result is lost, and reported as unknown,
when the native ends before the parent has read it.

*Plugin.* A finish recorded right after a block, while an earlier run has not
settled, leaves `$decision` (`missed`). A rename that failed over a label of the
plugin makes the tab count as named by the user for ever (`lost`, finding 8). A title
written between the two readings of the watcher's first sync waits for the 15 s
refresh (`due`), and an exception in a notification ends the watcher. A name the
user gives between the listing and the rename is overwritten.

*Titles.* Two handoffs without a rename between them lose the title the broker
owned (`orphan`, above). A rename
retry does not look again (`since`). An acknowledgement of an earlier session may
be left by a heartbeat that stalls past its join (`late`), a directory by a broker
that ends before the launcher has written the owner's seed (`raced`). The Codex
watcher never looks at the tab, so a user's name is replaced by the next new one.

*Manifests.* A run that evaluated the policy before a change and got the lock after
it writes the earlier one until the next launch. A session whose first
transcript appears while a reconcile goes on, and which is retired before that
reconcile reaches it, is without its exclusion until gc's own sync.

*App-server guard.* A client that lives but stops reading, with a full pipe, keeps
the guard from ending after its server did, although the comment at
codex-app-server-guard.py:383-385 says that its lifetime follows the child.

*Claude fork.* A program that holds no lease may write after the last look (`raw`);
a session resumed by hand reopens without the runtime lease.

## 8. Abstractions

  - Work trees are their content; commits have fresh names. Only fast-forwards
    change main, so the remote's history is never rewritten by others.
  - Clone, apply and the checks of the private candidate are one action: between
    them only the remote and the owner's commands can move, and neither is read
    again before `Fetch`. Failures of clone, commit or flush that leave the
    journal as it is are `Stop`.
  - `Push` is one step, the remote's acceptance with it: a broker that dies in it is one
    that died just before or just after. A push that the remote accepts after its
    sender's death, with another step in between, is not modelled.
  - `Resume` (journal read, evidence removed, journal written) and `Disable` are
    one step each; that they may be interrupted is not modelled (section 9) and no
    hazard of `PROJECT.json` covers it.
  - `gc` only occupies its locks; what it removes is in
    `SessionRetirement`. The manual `transition` command, runtime pins, snapshots' bytes and
    log files are left out.
  - Creation: a descendant that outlives an engine whose group was stopped, or
    that ended by itself, still has the inherited lease (nothing in `create`
    closes descriptors); only after an unconfirmed stop it may have lost it. The
    binding is published by the creator's caller, inside its context. Removal of a
    tree is one step, done under both locks. Identity checks of directories are
    whether the reserved ones are still there. Only the first 128 index entries are
    scanned by the code; the model scans any.
  - A worker that gets SIGTERM is one that dies. The guardian's delay is the
    time between a worker's end and `Finish` or `OrphanGone`.
  - Components. Digests are the values digested; identities (inode, device, change
    time) are names or versions that never come back; formats are valid or torn. Checks
    of modes, owners and path shapes are left out: they refuse states that the modelled
    programs do not make. Time appears as what it decides: a deadline has passed or not,
    a receipt has expired, a lock was not obtained within its limit.
  - Services (Herdr's web service and multiplexer, GitHub, cmux, Claude, Codex, the
    private update engine) are external: they do what the code that calls them expects
    or fail, in any order, and their answers may be lost.
  - `PluginNotices` lets free runs begin in one fixed order, which is a symmetry
    reduction. `OmpEnrollment` ends with one selection; only controller "a" publishes,
    both block. `UsageManifests` reconciles from one state home; its `Retire` assumes
    that the retention time is longer than a reconcile. Expiry of an enrolment is left
    out. `ClaudeTitles` takes session-start hooks to run one at a time.

## 9. What is not modelled, and the plan

  1. The enrolment protocol of the queue in its steps (a `disable` that stops
     between configuration, markers and rows; a resume interrupted between its
     reading and writing of the journal), runtimes' pins, and the 128 entries that
     one scan of the creation index takes.
  2. Trusted preservation (`trusted_preservation.py`, `preservation_snapshot.py`);
     hook trust and Slack approvals of the guards; several pools of a Native
     conversation; image custody; imports, grants and the selection inside an
     archive's manifest.
  3. The preparation of the compiler bundle, model modes and the sealed dispatch
     of omp; fork and resume by native id.
  4. Proofs for the components that are only checked, first the one with the
     hardest protocol, `OmpEnrollment`.

The release client, the catalog's listings, report and pools, launchers,
views, adapters, generators of text, maintenance, resolvers and installers stay
unmodelled: they are pure I/O, argument parsing or text transformation with no
protocol of their own, or call the operations of modelled components one after
the other. Byte formats, wording and layout are left out throughout.
