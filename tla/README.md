# MGDS in TLA+

MGDS, the Model Game Development Standard, is a research-preview standard for agents
that develop games, with a Unity reference implementation: a controller keeps job
records, an artifact store and a hash-chained ledger keep evidence, a harness runner
executes external coding agents under budgets, a campaign of sealed slots is evaluated
and a release gate decides over the result. This directory holds TLA+ modules that model
that code, TLC configurations that check them on small instances, and TLAPS proofs for
every value of the constants. Paths below are relative to the repository.

Run, in this directory:

    tlc -workers 2 -config JobStore_serialized.cfg MCJobStore
    tlapm JobStore_proofs.tla

## 1. Inventory

| Component | Code | State it keeps | Operations |
|---|---|---|---|
| Job lifecycle | `scripts/job-trace.mjs` | none | the edge table, `isLegalTransition`, `assertJobTrace` |
| Job controller, JSON store | `packages/controller/src/jobs/job-controller.mjs` | `jobs.json`, `jobs.json.tmp` | `submit`, `get`, `events`, `transition`, `checkpoint`, `resume`, `timeout`; `load`, `save` |
| Reference service | `packages/controller/src/reference-service.mjs` | `currentJobId`, `runs/*.json`, and the two stores | `runTask`, `cancel`, `collect`, `report` |
| CLI, MCP projection | `apps/mgds-cli`, `packages/mcp-projection` | none | dispatch: one process per command, or one service for all calls |
| Recovery registry | `packages/controller/src/recovery.mjs` | records in memory | `register`, `reconcile` |
| Artifact store | `packages/artifacts/src/artifact-store.mjs` | `objects/`, `manifests/` | `put`, `get`, `list` |
| Event ledger | `packages/artifacts/src/event-ledger.mjs` | one file of chained lines | `append`, `verify`, `entries` |
| Harness runner | `packages/harness-runner`, `scripts/run-harness.mjs` | a process group, two timers, buffers | `executeBoundedProcess`, outcome parsing, record building |
| Campaign | `packages/campaign` | none (pure, over files) | sealing, planning, loading evidence, aggregation |
| Campaign operator | `packages/campaign-operator`, `scripts/campaign-shard-status.mjs` | the checkpoint file of a host | select slots, write checkpoint, build and sign evidence |
| Release gate | `packages/release`, `scripts/check-p2-release.mjs`, `sign-p2-*` | none | gate decision, host attestation, source checkout check |
| Policy | `packages/policy` | remaining budget, terminated flag | `authorize`, `budget`, `consume` |
| Broker, sandbox, redaction, faults | `packages/broker` and others | secrets with expiry | `issue`, `resolve`, `revoke`; stateless checks |
| P3 submission | `packages/p3-submission`, `scripts/build-p3-submission.mjs`, `replay-p3-submission.mjs` | one bundle file | build and sign, replay |
| T0 evaluator, report, attestation | `packages/evaluator` and others | none | evaluate, sign |
| Unity player probe | `Packages/org.mgds.unity.player` | session, listener, accept thread | `Start`, `Stop`, `Authorize`, `Close`, `InvalidateHandles` |
| Unity multiplayer, semantic world | `Packages/org.mgds.unity.multiplayer`, `.semantic` | players; entities and a bounded event queue | `Allocate`, `Close`; `Upsert`, `EventsAfter` |
| Golden Arena | `benchmarks/golden-arena` | key, exit and completion flags | `Apply`, `Reset` |
| Code generator, generated types, Unity catalogues | `tools/codegen` and others | none | text generation |

How they interact. The CLI or the MCP projection calls the reference service;
`runTask` submits to the controller, moves the job, executes the adapter, puts the
output into the artifact store, moves the job to `succeeded` and writes a report.
Each of these is an `await`, so calls of the same process interleave there and
calls of other processes anywhere; the only shared state is the file system (and
`currentJobId` within a process). The campaign side is file based as well: a host
takes the next slot of its shard from the checkpoint, runs a harness in a bounded
process, an evaluator signs evidence, and aggregation and the gate judge the lot.

What is hard here: read-modify-write of one JSON file without a lock; temporary
files with a fixed name; crashes between two awaits; a field read after an await;
a promise that settles only when every holder of a pipe is gone; timers racing
exits; evidence and runs that may be duplicated or come in any order.

What makes each component correct:

- *Controller*: every submit and transition takes effect at once; a terminal job is
  never changed; histories are append-only and replay to the record; a key names
  one job for ever; load never finds half a file.
- *Reference service*, as long as its callers keep job calls apart: a task executes at
  most once however often it is run; a report that parses is true; only a crash in a
  known window loses one.
- *Artifact store*: an object is whole or absent; what is listed can be got.
- *Ledger*: undisturbed appends keep the chain; in a ledger that verifies, an entry
  that an append returned has before it what that append built on, whoever wrote since.
- *Harness runner*: the promise settles unless the harness exits and leaves somebody on
  its pipes; what it resolves with is all of the output and within the budget; the
  process group is gone after an overrun.
- *Campaign*: `pass` only when every slot has exactly one attested, valid run and
  the thresholds, fairness and soak rules hold, whatever the order of the runs;
  checkpoints never lose a completed slot.
- *Release gate*: `ready` only over bytes that reviewer, authority and campaign all
  speak of, and that are the source commit's.
- *P3 submission*: replay verifies under a key exactly what its owner built, up to the
  size it takes.
- *Policy and broker*: no budget is overdrawn, no authorization without a live
  lease, at most one holder of a scope, nothing refused is granted later.
- *Campaign operator*: no checkpointed slot is lost, no slot's run is appended twice, a
  shard can be resumed whatever has died.
- *Player probe*: a started thread serves its open port until `Stop`; after it nothing
  is served, and no handle a client holds is of the current generation, but for one that
  a thread its join gave up on had been about to send.
- *Semantic world*: a reader misses an event only if the queue had no room for it.

PROJECT.json lists the hazards at their lines, each with the properties that
would catch it or the reason why there is none.

## 2. Modules

### Job controller and store

`JobLifecycle` is the edge table. `JobSnapshot` is the value `jobs.json` holds and
what `submit` and `transition` do to it, as operators (`Accepts`, `Submitted`,
`CanTransition`, `Transitioned`); a JavaScript map is a function on the keys it
has. Timestamps, project scope and capability id are carried along unread by the
code and are left out. `JobController` is the abstract specification: one variable,
each call one step.

`JobStore` is the code: a call loads (open, then read and parse), changes its own
copy, and saves (open the temporary file, write, rename). Each await is a step and
`Crash` may strike at any of them. The file system is external: two names naming
inodes, files that stay open on the inode they were opened on. `pc` holds the
await a call is at, `draft` its copy of the snapshot, `fd` the inode it has open.
An overlapped or interrupted write leaves `Torn` content. `issued` makes
`idFactory` fresh, as random UUIDs are. The constant `Serialized` says whether
callers keep mutating calls apart; nothing in the code does it for them.

`Promise == INSTANCE JobController WITH snapshot <- Published` maps the file system
to the abstract snapshot: what a load would return now.

### Reference service

`ReferenceService` extends `JobSnapshot`. A submit or transition is two steps, as it has
two awaits: `Submit` and `Transit` decide on the snapshot that has arrived and keep the
changed copy in `draft`; `Save` publishes it. What the file system does underneath
(inodes, the shared temporary file, torn reads) is `JobStore`'s subject. Nothing in the
code keeps the job calls of two processes apart; the constant `Serialized` says that
their callers do, and all the service promises rests on it. Without it two runs that
both load `queued` both execute, a stale save undoes the `succeeded` behind a report,
and a save whose temporary file was renamed away throws before the report is written;
the overlap itself is `JobStore_terminal_race`. `PutFails` is a put that throws (another
put made the directory first, or the object there is damaged), which leaves the job
running. Ids are all derived from the task digest, so each is written as its task.
`ProcessOf` says which process runs a client's calls: one per command for the CLI, one
for all with the MCP projection; `currentJobId` is per process. `lost` and `executions`
are history variables. Two clients, three tasks: a plain one, a deferred one and one the
adapter does not support.

### Artifacts

`ContentStore` is the abstract promise (stored, listed, damaged). `ArtifactStore`
has every `lstat`, `mkdir`, `writeFile` and `rename`; a blob stands for its digest.
Partial files carry a random UUID, so they belong to one call and need no state.
`Damage` is the disk's. `EventLedger` keeps the lines of the file; `append` reads,
reads again to verify, and writes at the end. A crash in the write leaves a part
that does not parse or a line without its newline, and the next append runs into
it. Hashes are nested tuples: equal only for equal contents. Whoever else has the file
may alter an event in place (`Alter`), write a line anew with the hash it should have
(`Rewrite`) or drop lines (`Truncate`). `receipts` is the history of what each append that
returned had read, with its own entry behind it.

### Policy and broker

`Authority` puts `PolicyEngine`, its budget sessions and `SecretBroker` on one clock
(`now`), because what makes them hard is what has run out when: a grant, a lease, an
approval and a secret each have an expiry of their own, and a lease also ends when
`currentGeneration` of its scope moves on. Leases come from outside the source
(`GrantLease`, `WithdrawLease`). `allowed` holds what `authorize` has returned, since a
budget may be opened for an authorization long after; every call of `budget` opens a
session of its own over the whole grant, as the code does, so `BudgetHeld` speaks of
sessions. `charged` is the history of what calls that returned have used. A usage is
the sequence of entries `consume` goes through; it throws at the first it refuses.
The module also has the contract of `scripts/policy-contract.mjs`, with its own table and
comparison of risks; `KeepsContract` compares the engine with it, down to which grant
allows.

### Campaign operator

`CampaignShard` is one host's shard. `campaign-shard-status` and the operator's
checkpointing both read the checkpoint file and replace it through
`writeCampaignCheckpointAtomic`; `writing[p]` is how far process `p` is in it, `draft`
the list it read. The temporary file is named after the process id, and ids may come
again after a death. Between a status and a checkpoint lies the way of a slot:
`TakeSlot`, `RunHarness` (what `run-harness.mjs` lets through), `Evaluate` (what
`buildCampaignEvidence` accepts), `AppendRun`, `CheckpointSlot`. The operator is a
person or a script outside the source and follows `docs/campaign-operations.html`:
only after the run is appended is the slot checkpointed.

### Harness runner

`HarnessProcess` is `executeBoundedProcess` on a host with process groups: the
harness and its descendants write, fork and exit whenever they like, the event loop
delivers data, exit, close and the two timers. `Stubborn` processes ignore SIGTERM,
`Holders` keep an end of the output pipes. The Windows branch, where only the child
is signalled, is not modelled. `close` waits for every holder of the pipes, so a descendant
that outlives the harness there (`LeftBehind`) keeps the promise pending; if it does so for
ever `Settles` promises nothing, because nobody signals it: see the finding of
`HarnessProcess_descendant`. The write to stdin, which has no error listener, is left out.

### Campaign

`CampaignPlan` is the matrix of slots of `buildCampaignPlan`. `Campaign` takes the
runs file one run per step, in any order and with anything in it, and holds at every
prefix what the loops have gathered (`seen`, `seenRunIds`, `accepted`, `attested`,
`failures`); `Status` is what `aggregateCampaign` returns if the list ends there. So
one behaviour shows the answers for a list and for all its prefixes. `loaded` says
whether the bundles come from `loadCampaignEvidence`, which refuses a list at once
(`rejected`) and otherwise leaves the marks `EvidenceVerified` trusts. A bundle
stands for its hash; what is in it (schema, PNG, ledger chain) is one verdict,
`sound`. Signatures say who made them and over what. `Deserved` is the reference:
the same answer defined over the whole list at once, without an order or early exit.

### Player

`PlayerProbe` is the probe server of a development player: the main thread (`main` is
where it is in `Stop`), one accept thread per `Start`, and the session they share
without a lock. Every access to a shared field is a step: the two halves of `Close`,
the reading of `Closed`, the counting and the formatting of a handle. `Join` may time
out at any moment, so a thread may outlive its server and find the field `listener`
null or another server's. `StartFails` is a `Start` whose listener or thread does not
start, after the fields were set. `InvalidateHandles` and `Stop` are called on the main
thread, as in Unity; the class does not ask for it, and the increment of `Generation`
would not stand two callers at once. `stopping` is never reset, as in the code. `SemanticWorld`
is the bounded queue of entity events and the readers that follow it by a cursor; what
`EventsAfter` filters is `Selected`, of the small module `Selection` (section 4 says why).

### Release gate

`ReleaseGate` is the P2 ceremony: `check-p2-release.mjs` read by read, beside a working
tree that is edited and checked out, a reviewer and a release authority who draft and
sign, and others who change what they wrote. The gate's local variables are `pc`,
`source`, `got` (what it has read), `left` (what `Promise.all` still awaits), `clean`
and `verified`; they are gone when its process ends. A hash is written as what it is the
hash of, so `Target` and `Subject` are records, and `Blockers` is the set of codes of
`evaluateP2ReleaseGate` that apply. Which evidence passes under which plan is
`Campaign`'s subject and a constant here; the runs, their index and the host entries are
one file, `evidence`. The bundles and host artifacts they index are read after the
checkout was verified (lines 42 to 45), but are named by hashes in what was read before,
so they are part of it. `ReadStatus` takes `git status` and `git ls-files` together:
both ask whether the inputs are those of the commit. `approvals` and `releases` are the
history of what the two parties signed. `EditsDuringGate` says whether the tree may
change while the gate runs; nothing in the code prevents it.

### P3 submission

`P3Submission` builds one bundle from any manifest and index of artifacts and lets it be
altered step by step (the manifest, the authority, names, bytes, hashes, artifacts that
come, go or change places) before it is replayed. `BuildAccepts` and `Verified` are the
two sides' checks, which the code writes out twice and not alike: only the build knows
the size of one artifact and their number, only the replay that of the whole. The paths
come in the order of `localeCompare` (`Selected` of `PathOrder`); the form of a manifest
and what redaction refuses are verdicts (`WellFormed`, `Private`), and a size is that of
the contents, not of their text. `built` is a history variable.

### Composition

`JobStore` and `ReferenceService` meet in `JobSnapshot`. Other components of one place
share no state in the code: the artifact store, the ledger and the authority of a
controller root, the aggregation and the shard of a campaign (the aggregation takes
any list of runs, the shard's among them), the probe and the world of a player, the
release gate and the bundle of a submission. Their
MC module extends all of them, and lets a behaviour exercise one while the others stay
in their initial states: with nothing shared, every state of a component is reached
that way, and the product of their states, which would show nothing more, is not built.

## 3. Runs

| Run | Question | Result |
|---|---|---|
| `JobStore_serialized` | Is the file-backed controller the atomic one when mutating calls do not overlap, with readers and crashes anywhere? | yes: `AlwaysReadable`, `NoStoreErrors`, `TerminalJobsImmutable`, `HistoriesAppendOnly`, `KeysNameOneJob`, `ImplementsJobController` |
| `JobStore_overlapping` | What survives when they do overlap? | `SnapshotsWellFormed`: what parses is always a legal snapshot |
| `JobStore_terminal_race` | Are terminal results immutable when they overlap, as the threat model says? | no: a stale snapshot overwrites a cancelled job |
| `ReferenceService` | Two processes run, rerun and cancel tasks, puts fail, processes die anywhere; their job calls do not overlap | `ExecutedAtMostOnce`, `ReportsTruthful`, `ReportsLostOnlyByCrash`, `UsesController` |
| `ReferenceService_shared_id` | Two calls on one service | violated: `currentJobId` is overwritten before it is read, a job is recorded under another task's id |
| `Services` | Two clients share an artifact root; two appenders a ledger that others alter, re-hash and cut short; requests, leases, approvals, budgets and secrets one clock | `ObjectsWhole`, `ListedRetrievable`, `ImplementsContentStore`; `ChainUnbroken`, `EntryFixesHistory`; `OneHolder`, `RefusalsAreFinal`, `BudgetHeld`, `KeepsContract` |
| `HarnessProcess` | A harness that ignores SIGTERM and forks, one descendant on its pipes and one off them | `ResolvedMeansWhole`, `ResolvedUndisturbed`; `Settles`, unless a descendant is left on the pipes for ever |
| `Campaign` | All lists of up to four runs, in every order, some of which deviate in one of sixteen ways; a shard with two processes at its checkpoint | `StatusIsDeserved`, `PassIsEarned`, `LoaderAgrees`; `CompletedStay`, `RunOnce`, `AlwaysResumable`, `OnlyLeftoversCollide` |
| `ReleaseGate` | Three gate runs, edits between them, signing and altering at any time | a ready release was agreed on over the bytes judged, and these are the source commit's; a bundle that was altered does not verify, one that was not does (`ReplayVerifiesWhatWasBuilt`) |
| `ReleaseGate_moving_tree` | Are the inputs of a gate that found its checkout clean those of the source commit? | no, if the tree is checked out in between: they are read before git is asked |
| `HarnessProcess_descendant` | Are descendants terminated, as the campaign operations page says? | no: SIGKILL is skipped once the harness itself has exited |
| `Player` | Start, also half way, stop and start again while clients connect and joins time out; readers behind a full queue | `PortServed`, `StoppedIsSilent`, `StopSettles`; `GapsOnlyBeyondCapacity` |

What the passing runs show is as far as their properties say. `CompletedStay` and
`RunOnce` are conditional on no two processes being between reading and replacing the
checkpoint: nothing in the code keeps them apart, and the document's "checkpoints are
atomic" does not say that two of them are; without the condition a status that read
the older file undoes a checkpoint. `AlwaysResumable` speaks of a status without
`--harness`: with one, a shard that has completed slots of both harnesses is refused.
The service's four properties hold under `Serialized` and with one call per process:
both are what the CLI's users must see to. `EntryFixesHistory` does not say that a ledger
that verifies is the one written: the hashes have no key, so lines behind the last entry
that was kept can be dropped or written anew. Whoever has signed or noted an entry (an
attestation signs the head) knows what came before it, and no more. `Settles` holds
unless the harness exits and a descendant stays on its pipes for ever. `ReadyIsFromSource`
holds where the tree stands still, `InputsAreSource` shows why. In `StoppedIsSilent` what
holds without a condition is that one late handle at most gets out; that none does needs
a join that did not time out. `ReplayVerifiesWhatWasBuilt` leaves out bundles beyond the
size that replay takes and build does not look at.
`PortServed` ends with the first `Stop`: a server started again has an open port
nobody serves, which `StoppedIsSilent` shows to be harmless and `StopSettles` leaves
to one thread that may wait on it for ever.

The four violations are recorded as findings in PROJECT.json, with the lines of the
documents they contradict.

*Bounds.* Two clients suffice for every race between two calls; a third adds no new pair
of awaits in a protocol whose steps touch one file. `MaxEvents` and the `Targets` of the
store runs are chosen so that a job reaches a terminal state and the race still fits.
Three inodes: the published file, the temporary one, and one held open by a reader. In
`Services` two blobs share a shard, so that two puts meet in every directory, the ledger
has two lines (a genesis line and a linked one, or one after a fork or a cut), two
events, and is altered twice (`MaxAlterations`), so that a line can be altered and its
hash mended, or a line be dropped and another one put there, and the authority two
grants of which the first outlasts the second and allows less, two moments to run out in
(`MaxTime`), two generations of a lease, one session (sessions share nothing) over two
dimensions, and two secrets. In the shard `MaxAppended` is two, the number of its slots,
so that a slot run again is one of the two. The player is started three times, so that a
thread whose join timed out can meet the listener of the next `Start` and of the one
after; the budget of requests is two and is met, exceeded, and exceeded again
(`requestCount` stays one above it: further requests are refused alike; that the code's
32-bit counter would wrap after two thousand million of them is left out). The queue
holds two of five events, read one or two at a time. The harness run has a budget of
three bytes and five written, so that the budget is met exactly, exceeded by one stream
and exceeded by both. The campaign has one task, host and seed, two harnesses and two
repetitions, so that every grouping (seed agreement, evaluator fairness, soak pair) has
two members; the runs of a list deviate alike, once or more often, and the thresholds
(3/4, 1/2, one orphan, one unknown workspace) are met exactly by one deviation and
missed by two. The gate needs three runs to become ready (for the target, for the
subject, for the verdict); two commits, two reports, one edit and one signature of each
party already let an old approval or release meet new bytes. The submission has four
paths (one that is refused, two that differ in case), contents that are small, large,
empty and private, at most two artifacts whose sizes together meet the limit of replay
or exceed it, and two alterations, so that one can be covered up by the other (a name
changed and the hash computed anew) or undo it. Symmetry is used only in runs of safety
properties, over model values the modules never compare otherwise than for equality; in
`Services` these are clients, appenders and events, and the refinement and
`RefusalsAreFinal`, which are safety properties, treat them alike.

*Fairness.* `HarnessProcess` and `PlayerProbe` state some, because they promise that
something happens. In the first the event loop delivers data, exit and close events and
fires armed timers (weak fairness each). The force timer is unref'd, so it is fair only
while the promise is pending. The harness and its descendants owe nothing. In the
second a thread that can go on does (weak fairness of each accept thread, and of a `Stop` that
was called): reads and writes end by the timeouts of two seconds the server sets and the
bound of 4096 bytes, a join by its own. Nobody has to connect, to start or to stop. The
stores promise safety only: a process may die, and nothing restarts a call.

*Stopping.* Deadlock checking is off in the two harness runs, where an execution that
has settled and whose processes are gone is over, in `Campaign`, where the list of runs
and the bounds of the shard end, in `Player`, where a stopped server is over, and in the
two gate runs, where the gate is not run again. All other runs check it: a client can
always make another call.

Fault variants. Beside the definitions that model code, a module holds variants of
them, each commented as such, that change one thing as a plausible bug would (a
dropped lookup, a swapped order, an unflushed write). Replacing the definition by
its variant makes the property named in PROJECT.json fail; they are not used
otherwise.

## 4. Proofs

`JobSnapshot_proofs` has the lemmas about the operators: `Submitted` and
`Transitioned` keep `IsSnapshot` and `WellFormed`, keep terminal jobs, extend
histories, keep keys. The store's and the service's proofs both rest on them.

`JobStore_proofs` rests on three inductive invariants.

- `TypeInv`: `TypeOK` with what each label says about `call` and `fd`; the label is
  needed because a step reads the fields of the call it belongs to.
- `WellFormedInv`: every snapshot, in any inode or draft, is well formed. No
  exclusion between calls is needed: each step copies a snapshot or applies a legal
  operation to one.
- `SerializedInv`, under `Serialized`: one writer at a time (`OneWriter`), the
  temporary inode is never the published one (`Separate`), a reader's inode is
  whole whatever is published later (`ReadersSafe`), the writer's draft is one legal
  operation away from what is published (`WriterCurrent`), the file parses
  (`Readable`). `AlwaysReadable` alone is not inductive: that a rename publishes a
  whole file depends on nobody else having touched the temporary name since.

From it: `SerializedAlwaysReadable`, `SerializedNoStoreErrors`,
`SerializedImplements` (each rename is one abstract step, every other step a
stutter), `SerializedTerminalImmutable`, `SerializedAppendOnly` and
`SerializedKeysNameOneJob`. `HistoriesPassTheChecker` ties the invariant to the
repository's own conformance checker: the history of every job of a well-formed
snapshot passes `assertJobTrace`.

`ReferenceService_proofs` has one invariant, `ServiceInv`, and its parts say what stands
behind each await. `JobsInv`: the jobs are a well-formed snapshot in which task, key and
job id are one. `Knows`: a call past its submit holds the job of its own task. `RunsInv`:
a call between `granted` and its end is the only one of its task, its task has been
executed exactly if it is past `Execute`, and no task whose job is still `queued` has been;
this is what `ExecutedAtMostOnce` lacks to be inductive, since only the job's state keeps a
second call out. `ReportsInv`: a report that is being written or can be read has a
succeeded job, an executed task and a stored artifact behind it. `OncePerTask`,
`ReportsTrue` and `ReportsNotLost` follow for any number of tasks, clients and processes.
`JobSteps` says that a step does nothing to the jobs, or submits under the task's own
id, or makes one legal transition; from it come the refinement of the controller
(`ServiceUsesController`) and `ServiceJobsKept`, what a caller may rely on from one
step to the next. `DraftsInv` says what carries a decision from its load to its save:
one call at most is between the two, and its draft is what the snapshot, unchanged since,
becomes by its submit or transition.
All assume `NoOverlap` (`Serialized`) and `OwnProcess`, that no two calls share a process,
which holds of the CLI. Neither can be dropped: in the instance of
`ReferenceService_shared_id`, where all calls run in one process as with the MCP
projection, all three invariants fail; without `Serialized` two processes that run one
task both execute it, and a stale save takes a job back that was reported.

`HarnessProcess_proofs`: as long as nothing was terminated, every byte written is in
a pipe or kept (`NothingDropped`); a resolved promise leaves empty pipes and no
holder (`Over`). `ResolvedMeansWhole` and `ResolvedUndisturbed` follow for every
process tree and budget.

`Campaign_proofs`: the invariant says of a prefix that nothing has failed exactly when
it is in order, and that `accepted`, `seen` and `attested` are then all of it; that is
why the counts over accepted runs are those over the list. `StatusIsDeserved` follows
for every plan, set of runs and thresholds. `LoaderAgrees` needs that a list the loader
let through has each bundle once, so that the mark of a hash is its own run's.

The same module on the shard: every list a process holds or has published is one a status
without a filter accepts, and a temporary file nobody is writing belongs to an id that
died (`FilesInv`); from the harness on the operator's slot is one of this host's
(`HandInv`). Those two give `AlwaysResumable` and `OnlyLeftoversCollide`. While nothing
overlapped, one process at most is at work and what it is about to publish holds all
the checkpoint holds (`TurnsInv`), whence `CompletedStay`; if the operator also lived
from append to checkpoint, what was appended is completed or in hand, and what is
offered was not appended before (`OnceInv`), whence `RunOnce`. All for any plan and any
number of processes.

`Services_proofs`: for the artifact store, the inductive invariant adds to the two
safety properties that a put which is at its manifest has made sure of its object
(`ObjectFirst`) and that a call's record and directory counter fit its label (`InCall`).
Type correctness, `ObjectsWhole`, `ListedRetrievable` and the refinement of
`ContentStore` follow for any number of clients, blobs and shards. For the ledger,
`EntryFixesHistory` needs of the steps only what form lines and receipts have
(`LedgerTypeInv`): of two chains that verify and agree at one place, the last place
before it where they differ would be followed by one that is the same, whose hash fixes
the one it follows (`AgreeBefore`; that there is a last place is `HasLeast`, since an
induction over data is out of reach). `ChainInv` adds to `ChainUnbroken` that while
nothing overlapped one append at most is at work, and that it has read what the file
holds. For the authority, no two leases share a generation of a scope (`LeasesInv`),
whence `OneHolder`, and with the clock and the generations only growing
`RefusalsAreFinal`; each session has what its grant gave less what it charged
(`BudgetInv`), whence `BudgetHeld` and the charges of `KeepsContract`; its grants are
the same by `SameRisks` and `SameGrant`. The types of ledger and authority are proved
too; a budget is only opened for an authorization that a grant of the policy and a lease
stand behind.

`Player_proofs`, the probe: `ProbeInv` adds to the two safety properties that until a
`Stop` has forgotten it there is one accept thread, the one behind the port
(`OneThread`), that no handle is of a generation to come (`HandlesInv`), and what is
already true at each label of a `Stop` that was not timed out (`SilentInv`): after the
join every thread is unborn, done or at the head of its loop, and after the generation
was counted up every handle is of the past. `LateInv` is what is true without a
condition: one call at most is past `Authorize` and without an answer, and once the
generation was counted up a handle of it can come from no other. A later `Start` finds
`stopping` set, so its thread goes from the head of the loop to its end. The world: the
queue is a run of numbers up to the last one given out, and all of them unless it is
full (`QueueInv`). So what a reader at a cursor is given has no gap inside (`Given`),
and what lies between the cursor and the first event given had left the queue, whose
capacity of newer ones had come in. `Served`, `Silent` and `GapsOnly` hold for any
number of starts, requests, events and readers, any capacity and limits.

`HarnessProcess_proofs`, `Campaign_proofs` and `Release_proofs` also prove type
correctness, which for the first needs that every byte written is in a pipe or was
counted (`Counted`) and for the last that a gate at work was started within the bound
(`RunsLeft`).

`Release_proofs` has two inductive invariants of the gate. `AgreedInv`: whatever the signature
of a review is over, the reviewer approved it, in the file and in what the gate has
read, and likewise the release signature; alterations keep that, since they do not
touch signatures. `SourceInv`, where the tree stands still: what has been read is what
lies there, and a clean tree is the source's. `NoBlockers` spells out what an empty
list of blockers says. `Agreed` needs no assumption on the tree; `FromSource` does, and
`ReleaseGate_moving_tree` shows that it must.

`Release_proofs` on the submission: `Authentic` is what replay asks of a bundle but for
the limit on its size; `SubmissionInv` says that a bundle was authentic when built and that
no alteration reaches its signature. `BuildKeeps` shows that the build's checks imply the
replay's, though they are other checks: the index is sorted into a sequence with no path
twice (`EncodedIndex`), so no two names differ in their case only. `SignatureIdentifies`
is the heart of `ReplayVerifies`: what is signed fixes manifest, names, hashes and
authority, and the hashes are of the bytes, so a bundle that verifies under the signature
of an authentic one is that one. The sum of the sizes is not looked into; both sides of
the equivalence ask the same of it.

`Selection` says what a filter of a sequence leaves without recursion (`Selected`),
since the prover cannot expand `SelectSeq`; that the two agree TLC confirms on every
sequence of up to four of three values (`SelectedIsSelectSeq`). `SelectedTail` is the
case of a run of positions; `AtPlaceFinds` shows that every place up to the number of
positions kept is taken, by counting: `Place` is an injection between two finite sets of
one cardinality.

`ServicesCompose`, `CampaignComposes`, `PlayerComposes` and `ReleaseComposes` show that the
instances in which components stand side by side are behaviours of each component's own
specification (in the player with its fairness), so the theorems hold of what TLC checks.

Assumptions: the named `ASSUME`s of the modules (constants are of the expected kind,
`None` and `"cut"` are not data, the paths are listed once each), evaluated by TLC on every
instance; `Serialized` where a theorem's name says so, `~ EditsDuringGate` in `FromSource`,
`NoOverlap` and `OwnProcess` in the theorems about the service.

Model-checked only: liveness (`Settles`, `StopSettles`, and the violation of
`DescendantsTerminated`). Every invariant and every action property of the passing runs is
a theorem as well. That no order of the runs changes the answer of the aggregation is
only as far proved as `StatusCorrect` goes, which equates it with a formula over the
set of places; that the formula is the same for a reordered list needs a sum over places
to be so, an induction over data that the installed provers cannot do.

## 5. Not modelled

Formatting, argument parsing, schema validation, regular expressions on ids,
symlink checks, the file modes, and timestamps. Durability below `rename` (there is
no `fsync` in the code): a crash is a process that dies, not a machine that loses
power. The write to the harness's stdin.

- `RecoveryRegistry`: two methods on a map. Whether an answer of `reconcile` is right
  depends on when its caller took the list of live ids, and only a test calls it.
- `MultiplayerSession`: a list that grows until it is cleared for good. Golden Arena:
  the game the benchmark is about, three flags.
- The T0 evaluator, the report, version negotiation and result
  reproduction: sequential functions from files to a text or a verdict, of which a
  reference definition would be a copy. Sandbox, redaction and fault injector:
  stateless predicates on strings.
- `readExternalPrivateKey`: reads a file and keeps nothing; what it guards against is
  a matter of paths, links and modes.
- The code generator and what it generates; static catalogues of the Unity packages.

## 6. Plan

Done: the modules above. What could follow: the harness outcome parser as an
operator, evidence bundles inside `Campaign` (`sound` taken apart), and two operators at
one checkpoint.

Theorems still worth proving: what `JobStore` and `ReferenceService` say together
(the service over a store whose calls do not overlap), and what a reader of a ledger
whose verification was cut short by a crash can rely on.
