# CLIHarbor: a TLA+ verification project

CLIHarbor is a local control plane for vendor command line tools: a Go program
serves a browser page on the loopback interface, plans commands from trusted
"packs", lets an operator approve changes, runs the vendor tool, streams its
output to the page and keeps a journal of every approved change.  This
directory holds TLA+ models of the parts where concurrency, failure or ordering
decide whether that is right, the TLC configurations that check them, and
TLAPS proofs about each of the ten models.

Paths below are relative to the repository (`internal/...`, `web/...`, `docs/...`).

## 1. The system

| Part | State it keeps | Operations | Talks to |
| --- | --- | --- | --- |
| Run manager (`internal/runs`) | discovery snapshot, run records, outstanding approvals, active counter, `auditFailed`, `closed` | Preview, Start, Cancel, Get, List, WaitEvents, ActivateTool, Shutdown | planner, platforms (execution context), journal, executor |
| Mutation journal (`internal/audittrail`) | chained JSONL file, lock file, `entries`, `seen`, `failed` | Open, Append, List, Close, Verify, Quarantine | run manager, state removal, other CLIHarbor processes |
| Executor (`internal/executor`) and process controller (`internal/processcontrol`) | one process, its group, two output streams, the first failure | Run, Cancel, Close | os/exec, the run manager's sink |
| Run API (`internal/server/run_api.go`) | stream slots | preview, create, list, get, cancel, event stream | run manager, browser |
| Browser run view (`web/src/api/runs.ts`, `App.tsx`) | view of one run, stream state, retry budget | subscribe, reconcile, cancel, retry | run API |
| Terraform state removal (`internal/platforms/terraform`) | one slot, pending previews | PreviewStateRemoval, ExecuteStateRemoval | journal, Terraform, the state file |
| Program lifecycle (`internal/app/app.go`) and server (`internal/server/server.go`) | the order of start and shutdown; bootstrap token, session, CSRF token, handlers at work | Run; bootstrap, request boundary, session check, drain, close | everything |
| Tool installation (`internal/app/tool_install.go`, `tool_refresh.go`, `install_locations.go`, `internal/toolbootstrap`) and discovery (`internal/discovery`) | cache files, staging files, saved locations, installer mutex, discovery snapshot | InstallTool, RefreshTool, Save, EnsureAt, Discover | run manager, platforms, task catalog, other CLIHarbor processes |
| Conjur sign-in (`internal/platforms/conjur/credential_login.go`) | authentication gate, tool identity; the vendor's own file | Capability, Connection, Configure, Login, LaunchInteractive, activateTool | vendor CLI and library, the file |
| Conjur secret audit (`internal/platforms/conjur/secret_audit.go`) | one scan, one report | Start, Snapshot, Cancel, the scan | vendor library |
| Packs (`internal/packs`), planner (`internal/planner`), structured parser, Idira output guard | the registry, fixed after startup | load, validate, admit, Build, Parse, filterRows | run manager, catalog |
| Evidence, evaluation, diagnostics, pack authoring, build tools | files they write | export, inspect, lint, generate | file system |

What is hard in it:

* **Two critical sections.** Preview and Start read the manager, release its
  mutex to plan and to ask a platform for the execution context, and take it
  again to commit.
* **One approval, one run, one journal entry**, whatever requests, journal
  errors and the shutdown do in between.
* **A file that several processes may open**, that may be cut short and lose
  what was not synced, and that must still be evidence afterwards.
* **A vendor process that owes nothing**: it may hang, fork, flood its pipes or
  exit at the moment it is cancelled.
* **A page that sees a run through a stream that breaks**, with snapshots that
  overtake or lag it.
* **A state file other programs write** while CLIHarbor is preparing to change it.
* **A vendor configuration file that CLIHarbor does not own**, rewritten in pieces
  by the vendor's `init`, which may be killed, and by others at any moment.
* **A cache that several processes fill and clean**, and a tool that becomes
  known to four holders one after the other.
* **A scan over an inventory that changes** while it is read, and may be
  cancelled by a request that arrives when the next scan has begun.
* **A pack file that is edited while it is read**, and a planner that relies on
  rules another package enforced.
* **Old cookies and tokens** that browsers send to a later start, and a shutdown
  with handlers and runs still at work.

`PROJECT.json` lists every component with its status and every hazard with the
line where it bites and the properties that would catch it.

## 2. Modules

| Module | Models | Instance for TLC |
| --- | --- | --- |
| `AuditSink` | what `runs.AuditSink` promises: approve once, then complete at most once | used by `RunManager`, `StateRemoval`; refined by `AuditTrail` |
| `RunManager` | `internal/runs/manager.go`, `approval.go`, shutdown of `app.Run` | `MCRunManager` |
| `RunManagerProofs` | theorems about `RunManager` | - |
| `AuditTrail` | `internal/audittrail` | `MCAuditTrail` |
| `AuditTrailProofs` | theorems about `AuditTrail`, and that it implements `AuditSink` | - |
| `Executor` | `internal/executor/executor.go`, `internal/processcontrol` | `MCExecutor` |
| `RunStream` | `recordEvent`, `WaitEvents`, `server/run_api.go`, `web/src/api/runs.ts`, the run view of `App.tsx` | `MCRunStream` |
| `RunStreamProofs` | theorems about `RunStream` | - |
| `StateRemoval` | `internal/platforms/terraform/state_removal.go` | `MCStateRemoval` |
| `StateRemovalProofs` | theorems about `StateRemoval` | - |
| `CredentialLogin` | `internal/platforms/conjur/credential_login.go` and its handlers | `MCCredentialLogin` |
| `SecretAudit` | `internal/platforms/conjur/secret_audit.go` and its handler | `MCSecretAudit` |
| `ConjurProofs` | theorems about `SecretAudit` and `CredentialLogin` | - |
| `ToolInstall` | `internal/app/tool_install.go`, `tool_refresh.go`, `install_locations.go`, `runtime.go`, `internal/toolbootstrap`, `internal/discovery` | `MCToolInstall` |
| `ToolInstallProofs` | theorems about `ToolInstall` | - |
| `PackPlan` | `internal/packs`, `internal/planner`, `internal/structured`, `internal/platforms/idira/output.go` | `MCPackPlan` |
| `CommandProofs` | theorems about `PackPlan` and `Executor` | - |
| `Session` | `internal/app/app.go`, `internal/server/server.go`, `recover.go` | `MCSession` |
| `SessionProofs` | theorems about `Session` | - |

`Session` takes runs and state removals as counters and says when `app.Run` lets
them go on; `RunManager` says what a closed manager does with them.
`ToolInstall` ends where `Manager.ActivateTool` has the tool, `RunManager` begins
there.  `PackPlan` yields the plans that `RunManager` takes as given (`Risk`,
`ToolOf`, `Scope`).

Definitions whose names end in `_Something` (`ConsumeApproval_Kept`) are
deliberately wrong variants of the definition after them; no specification uses
them.  Each property of a passing run has one that breaks it, listed in
`PROJECT.json` under "mutants": a property that no plausible bug violates says
nothing.

The properties a run checks are often conjunctions of named parts
(`MutationsAnswered == NoForgottenApproval /\ JournalAgrees /\ LaunchedIsJournaled`);
the parts have their own comments, and the theorems are about the parts and
about the whole.

### RunManager

`request[c]` is what a request read in its first critical section: the plan, the
execution context and, for a Preview, the clock value.  `BeginPreview` and
`BeginStart` are the first section with `planner.Build` and the resolution of
the context; a Start or Preview that is refused there changes nothing and is not
a step.  `IssueApproval` is `issueApproval`.  The second section of Start is one
of `RefuseStart` (closed, full, journal failed), `RefuseApproval`
(`consumeApprovalLocked` refuses: a foreign fingerprint destroys the approval, a
wrong confirmation does not), `AuditRefusesStart`, `AcceptRead` and
`AcceptMutation`; the last two end in `Admit`, which evicts and creates the
record.  `Launch` is the start of the vendor process by the run's goroutine,
`Complete` the last critical section of `execute`.  `Shutdown`,
`ShutdownDrained`/`ShutdownTimedOut` (five seconds) and `CloseAudit` are the end
of `app.Run`.

Abstractions: a command stands for a pack command with its input values; the
typed confirmation is the command itself or nothing; the fingerprint is the pair
of command and context (SHA-256 without collisions); random identifiers are
fresh (`minted`, `born = 0`); `Manager.order` is the position `born`.
`makeRetentionRoomLocked` loops, but at most one record has to go, because
`CapacityRespected` holds: this is proved, as is that the branch in which no room
can be made is unreachable (`RoomForStart`).  `grant`, `minted` and `launched`
are history.  `context` and `clock` change at any moment.

### AuditTrail and AuditSink

A line of the journal is a record of sequence number, previous hash, run and
action, or `Torn`.  A process goes through `OpenLockFile`, `LockFile`,
`WriteMarker` or `CheckMarker`, and then either opens the store or runs
quarantine.  `Append` is two steps, `WriteEntry` and `SyncEntry`, so that a
process can die between them; each has its failure.  `PowerLoss` keeps any prefix
of the file that includes what was synced and perhaps a part of the next line.
The calls follow the manager: an approval of a new run, the completion of a run
this process approved.  `JournalImplementsSink` maps what is durable, in the
journal and in quarantined files, to the trail of `AuditSink`.

Not modelled: permission and path checks, the byte limit (`MaxEntries` stands for
it), the fsync of directories, tampering with the file by others, and the manual
migration of a legacy lock.

### Executor

The parties are the goroutine of `Run` (`pc`), os/exec's goroutine that watches
the context (`watch`), one copying goroutine per stream (`copier`), the process
(`proc`: running, zombie, reaped) with a descendant in its group (`child`), and
the caller and the clock (`parent`, `ctxErr`).  `Verdict` is the order in which
`Run` looks at its evidence after `Wait`: stream failures, an applied
cancellation, then the exit.  Output is counted in blocks.  What belongs to
os/exec and the operating system is marked external in the map.

Not modelled: errors of `kill` other than "no such process", errors of `Close`,
descendants that leave the process group (`setsid`), and the exit code (only
whether the process ended by itself).

### RunStream

One run and its viewers.  An event is its sequence number.  `conn[v]` is the
handler of a viewer and the frames on their way to it; `gen` is the identity of
`record.changed`, which every signal replaces, so that a lost wake-up is visible.
`page[v]` holds the state of `subscribeRunEvents` (`subLast`, `failures`,
`lastId`) and of the run view (`status`, `events`, `last`, `stream`).  A handler
whose client went away (`stale`) keeps its slot until it notices.

### StateRemoval

The state file is its lineage, serial, addresses and the rest (`attrs`), with an
identity `stamp` that every write changes.  A request holds the slot from
`BeginPreview`/`BeginExecute` to `Answer`.  Reading the file and journaling the
approval are one step, as are the last identity check and the start of the
process; Terraform's own read comes later (`TerraformReads`), which is the window
the code comments on.  `PossibleOutcomes` is the post-check.  Refusals for
reasons outside the model (I/O, executable, directory) are always possible.
Our Terraform may remove more or less than it was asked to and may fail or be
killed in any phase; other Terraform processes take the lock and raise the serial;
`Edit` is any other writer and is remembered in `edited`.  `Restart` is the death
of CLIHarbor and a new start: the Terraform it had started goes on.

Not modelled: several state files, a writer that restores size and modification
time on purpose.

### CredentialLogin

The service keeps no configuration: every request loads the vendor's file
(`config`), which `Outside` rewrites at any moment.  `call[c]` is a request; its
`pc` is "held" inside the gate, then "init"/"half"/"written" while the vendor's
`init` rewrites the file in two steps, "exited" when it ended or was killed at any of
them, or "exchange"/"stored" while a password is exchanged.  `Begin` is the handler
up to the gate, `Refuse` and `Loaded` the second look inside it,
`SaaSVerdict`/`ConfigureVerdict` the decisions, `Reconcile` and `VerifyLogin` the
last look at the file.  The gate is a set, so that a lost exclusion would be seen
and not ruled out by its type.  `writer` models that Go's RWMutex lets no reader
past a waiting writer.  A URL is its host and its path; other scalars are absent,
malformed or themselves.

Not modelled: passwords, HTTP details, and whether the vendor's file is written
atomically by others (they replace it whole).

### SecretAudit

`snap` is the report, `scan` the goroutine with everything it has in memory,
`view[c]` a request between the copy of the report it took under the lock and the
answer, which is made from it later with the configured server looked up outside
the lock (`withCurrentTarget`).  A DELETE is two steps, because the cancel function
is read under the lock and called without it.  The scan is `Connect`, `Count`,
`Page`, `Listed`, `ReadBatch`, `ReadOne`, `Classify`, `Verify`, `Publish`,
`Finish`; `held` is the set of values in memory.  A value is the shape that
`classifySecretValue` would see in it, so the regular expressions are classes of
values; the phase and the counters of progress are left out.

### ToolInstall

A file is its bytes (`pinned`, a look-alike that reports the right version,
something broken) and an identity no other file has.  A worker is a request or
the startup of a process; `work[w].pc` runs through discovery (`Resolve`, `Search`,
`Capture`, `Probe`), provisioning (`Check`, `Remove`, `Stage`, `Download`,
`Rename`, `Verify`), `Save` and publication (`Activate` for the run manager,
`ActivatePlatform`, `RefreshCatalog`).  `Exit` is the end of a process at any step;
its staging files become `debris`, which a later installer removes once it is an
hour old, and so does the staging file of an installer that merely slept
(`Age`).

Not modelled: explicit path overrides, several tools (they share nothing but the
mutex), version constraints beyond satisfied or not, the ZIP format, the
sources of a package.

### PackPlan

The first half is the loader: `Lstat`, `Open`, two reads and `Settle` of a file an
editor overwrites in place or replaces, then `validateSemantics` and the registry.
The second is pure: `Build` with its error codes in their order, `renderStdin`,
`ParseStructured` and `filterRows` are operators translated from the planner, the
structured parser and the output guard, and the run applies them to every
combination of a small family of packs, browser values and outputs.  `Build` ends in
`Assemble`, whose operators come in pairs: `Unmapped` and `Unfilled` say when the
planner gives up on an argument or on stdin, `Argument` and `renderStdin` what they
contribute otherwise.  `Names` are the input names a request may give.  A pack has one
tool and one command; a text is one of the classes the rules tell apart (leading
dash, padding, control character, YAML character, longer than one).

Not modelled: YAML syntax and migrations, the JSON schema, embedded assets.

### Session

`pc` is where `app.Run` is, from `Prepare` to `RunsStopped`; every step has its
error path with what is deferred at that point.  A token is the number of the
start that made it: browsers keep `link`, `jar` and `csrf` over a `Restart`, which
listens on the same address.  A request passes `Boundary` (origin and CSRF token
for what changes something, then the cookie), then a handler: the exchange of the
link, a read, a run, or a state removal, which journals twice with work in between.
`Panic` is `recoverPanics`.  `forced` records that a deadline passed or `Serve`
failed: then handlers or runs may outlive the journal, and the code says so.

Not modelled: response headers, the routes that only read (one action,
`HandleRead`), HTTP itself.

## 3. Runs

| Run | Question | Bounds |
| --- | --- | --- |
| `approvals` | Are approvals used once, for their command, in time and never after shutdown; is none forgotten once it was journaled; do journal and run table agree; does a journal failure block the rest? | 2 requests, 2 approvals, 2 runs, 1 typed command, 2 contexts, tables of 1, a clock that expires approvals |
| `retention` | Are counter, eviction and outcomes right when requests race for the last slot, does a closed manager become idle for good, and does a cancelled run end? | 2 requests, 3 runs, MaxActive 2, MaxRetained 2 |
| `journal` | Does an acknowledged entry survive everything, does quarantine keep evidence, and does the journal implement `AuditSink`? | 2 processes, 4 runs, 3 entries, 2 quarantine names |
| `executor` | Is the verdict truthful, are the events well formed, is nothing left running, and does `Run` return whatever the process does? | 2 streams, a limit of 2 blocks |
| `stream` | Does a page show a prefix, complete when final, never taken back; does a handler leak its slot; does the page learn that the run is over, or say that it lost the stream? | 1 page, 3 events, 1 slot, 2 failures |
| `removal` | Is a removal prepared, "removed" truthful, a refusal harmless, one operation at a time, one removal per token? | 2 requests, 2 tokens, 2 removals, 1 address, 1 lineage, 2 writes |
| `login` | Does the gate exclude and never leak, is a working connection replaced only by name, is success true when it is said, is everybody served? | 2 requests, 2 tenants, 2 binaries, 1 change from outside |
| `audit` | Is a completed report about the whole inventory and about the server it is shown for, are values dropped, does a cancellation hit its own scan, does every scan end? | 1 browser (one request and one late DELETE), 3 variables, pages of 1, batches of 2, 2 scans, 1 change |
| `tools` | Are the bytes in managed places and the tool that is activated the pinned ones, do all holders of the tool state agree, does a restart find what was installed? | 2 processes, 3 requests, 2 files, 2 starts, 1 change from outside |
| `plans` | Is a torn pack refused, do validation and planner agree, are argv, stdin and the shown result what the pack declares? | 1 pack file, 2 edits, a family of small packs, values and outputs |
| `session` | Does one browser get the session, do only its own pages change anything, do start-up failures and the signal end in an ordered, bounded shutdown? | 3 pages in 2 browsers, 2 starts, 1 run, a link that expires |
| `empty_lock` | (expected to fail, see below) | 2 processes, no crash, no I/O error |

Every passing run finishes in less than three minutes.

Why these bounds are enough to meet the interesting cases: two actors are what a
race needs; tables of size one are full at once, so that limits and evictions
are met (in `approvals` a Start that skipped the second count would find a full
table of executing runs after its approval was journaled); in `retention` a full
table may hold an executing run that is older than a finished one, so that
eviction must pass it over; a journal of three entries is full in the middle of
a run; a limit of two blocks is crossed by a write and met exactly by another; two
writes let ours and another's follow one another in either order.  In `removal`
two requests leave room for one address and one lineage only; the theorems of
section 4 are about any number of them.  In `audit` two
scans are what a late cancellation needs, and pages of one over three variables
change between any two calls.  In `tools` two starts are a crash and the start that must find the
tool, and two files are the installed one and one that replaces it.  In `session`
two starts are what an old cookie needs.

`CHECK_DEADLOCK FALSE` is used where the system really may stop: in `stream` a page
that shows the outcome of an evicted run has nothing left to do; in `tools`
nobody has to start another process; in `plans` a loader that refused its file has
ended; in `session` the last start has returned.  Symmetry is declared only in runs
without liveness properties.

`PlansAreTotal` and `PlanIsDeclared` are about pure functions: their states are
the inputs.

### Disagreement between the code and its documentation

`empty_lock` is expected to fail.  An empty lock file is called the sentinel of an
older version (`internal/audittrail/lock.go:11`, `docs/MUTATION_AUDIT.md:13`): two
first starts at once leave one behind, and every later start is refused.

Section 5 lists what else the models show and no run is spent on.

### Fairness

* `RunManager`: every executing run eventually completes, because the executor
  has a deadline and, after it, a wait delay (this is `RunReturns` of
  `Executor`); `app.Run` goes on with a shutdown it has begun.  Nothing is
  assumed of requests, contexts or the clock.
* `Executor`: goroutines are scheduled, timers fire, SIGKILL is delivered.
  Nothing is assumed of the process: it may hang, fork and write for ever.
* `RunStream`: handlers and pages keep working.  Nothing is assumed of the
  network, the heartbeat, the operator, the run or eviction.
* `StateRemoval`, `AuditTrail`, `ToolInstall`, `PackPlan`: no liveness is claimed.
  That a removal or an installation ends rests on `RunReadOnlyProbe` and on HTTP
  deadlines, which have no model of their own.
* `CredentialLogin`: the steps of a request are taken, because `init` and the
  exchange have deadlines (45 and 20 seconds); a writer that waits gets the lock.
  Nothing is assumed of `init`'s writes, of the browser or of other programs.
* `SecretAudit`: the goroutine of the scan is scheduled and each vendor call has a
  deadline (30 seconds); no call is bound to fail or to succeed.
* `Session`: the steps of `app.Run` are taken, the drain deadline among them.
  Nothing is assumed of handlers, runs, pages, the clock or the signal.

## 4. Proofs

`RunManagerProofs` proves, for every set of requests, runs, approvals, commands,
tools and contexts that satisfies the named assumptions of `RunManager`
(`ConfigAssumption`: bounds as `NewManager` enforces them; `PlanAssumption`;
`IdentifierAssumption`: finitely many identifiers; `NoneAssumption`):

| Theorem | Property | Strengthening |
| --- | --- | --- |
| `TypeCorrect` | `TypeOK` | - |
| `Capacity` | `CapacityRespected` | `BornRecords`: exactly the identifiers with a position in the order were ever used, so a fresh identifier is neither retained nor executing |
| `LaunchesJournaled`, `ApprovalsRemembered`, `JournalAgreement` | `LaunchedIsJournaled`, `NoForgottenApproval`, `JournalAgrees` | `JournalInv`: the three together with "a read leaves no trace in the journal" |
| `FailureBlocks` | `AuditFailureBlocks` | action property, from `JournalInv` |
| `SingleUse`, `TableBounded`, `ShutdownClears`, `ApprovalCovers` | `ApprovalSingleUse`, `ApprovalsBounded`, `NoApprovalAfterShutdown`, `ApprovalCoversRun` | `ApprovalInv`: a granted approval was minted and is no longer in the table (`MintedOnce`), a closed manager has none |
| `Drained` | `DrainedMeansIdle` | `ClosedFirst`: the shutdown sequence has closed the manager |
| `OutcomesFinal`, `EvictionOldest` | `OneOutcome`, `EvictionMakesRoom` | action properties, from the invariants above |
| `MutationsAnsweredFor`, `ApprovalsAreSound`, `RetentionIsOrdered` | `MutationsAnswered`, `ApprovalsSound`, `RetentionOrdered` | the conjunctions the runs check |

The central argument is capacity: `active` counts the executing runs, so
`active < MaxActive <= MaxRetained` leaves a finished run in a full table
(`RoomForStart`); hence making room cannot fail after the approval was journaled,
one eviction is enough, and an approved mutation is never left without a run.
This is the comment of `manager.go:442-444` turned into a theorem.

`TypeCorrect`, `TableBounded` and `Drained` hold for every instance by these
proofs, so no run repeats them.

`StateRemovalProofs` proves, from `RemovalAssumption` and
`NonePreviewAssumption`, for every set of requests, tokens, removals, addresses
and lineages and any number of writers:

| Theorem | Property | Strengthening |
| --- | --- | --- |
| `RemovalTypes`, `OneAtATime`, `PreparedFirst` | `TypeOK`, `SingleFlight`, `RemovalPrepared` | `CoreInv`: the three together with what each phase of a request (`PhaseInv`) and of its Terraform (`RunInv`) has behind it; the types of what Terraform writes rest on the phases, the phases on there being one request at a time |
| `TokenUsedOnce` | `PreviewUsedOnce` | `TokenInv`: a token is in the table, in the hands of one request, or in one removal |
| `RemovedIsTruthful`, `RefusalIsHarmless`, `OverwrittenSaved` | `RemovedFromPreviewed`, `RefusedMeansUntouched`, `OverwrittenIsSaved` | `HistoryInv`: while only Terraform writes, everything read from the file is what the file holds or has a smaller serial, and a Terraform that holds the lock works on the file as it is |
| `RemovalIsSafe`, `OutcomesTruthful`, `RequestsAreExclusive` | `RemovalSafe`, `OutcomeTruthful`, `RequestsExclusive` | the conjunctions the run checks |

The argument for "removed": the lock makes our Terraform's read the state it
overwrites, so every Terraform write raises the serial above all that was read
before; a backup with the previewed serial therefore is the previewed state, and
a file whose bytes are the previewed ones was not written by us.  An editor breaks
this (`edited`), as the code's comments say.

`SessionProofs` proves, from `SessionAssumption`, for every set of pages and
browsers and any number of starts, runs and clock ticks:

| Theorem | Property | Strengthening |
| --- | --- | --- |
| `SessionTypes` | `TypeOK` | - |
| `OneSessionPerStart` | `OneSession` | `GrantInv`: the first exchange is the only one, and whoever holds this start's cookie or was redirected was granted it |
| `ChangesAreTheSessions` | `ChangesAreOwn` | the same: the cookie that `Boundary` accepts was granted, and a start begins with nobody in a handler |
| `ShutdownIsOrdered` | `ShutdownOrdered` | `LifeInv`: what is open, and who may still be at work, at each step of `app.Run` |

`AuditTrailProofs` proves, from `JournalAssumption` and `NoneAssumption` (`None` is
no process, file or entry), for every set of processes, runs and quarantine
names, any length of the journal and any number of crashes, cut writes and power
losses:

| Theorem | Property | Strengthening |
| --- | --- | --- |
| `JournalInvariant` | - | `JournalInv`: `TypeOK`, one process past the lock, and the three below |
| `JournalStaysUsable` | `FileUsable` | `HolderInv`: at each step from the lock on, what its holder has in memory is what the file holds, but for the entry it is writing; `DamageInv`: the file verifies with or without its last line, and without an I/O error or a power loss as it is |
| `AnswersAreDurable` | `AckedIsDurable` | `TrailInv`: behind an answer, behind a run a manager has to complete and behind a completion in the file there is an entry that is synced or in quarantine |
| `QuarantineKeepsEvidenceThm` | `QuarantineKeepsEvidence` | action property, from `HolderInv` |
| `JournalImplementsSinkThm` | `JournalImplementsSink` | refinement: `Initially` maps to the empty trail, and every step to an `Approve`, a `Complete` or a stutter of `AuditSink` |

The argument rests on what a verified chain is: a prefix of one is one, appending
the right next entry keeps it one, and in a verified chain a run occurs at most once
with each action (lemmas of the second part of the module).  A power loss keeps a
prefix that has everything synced, so the abstract trail, which is defined by what
is synced, does not change; a sync makes at most one entry durable, and the
manager's order of calls makes it the one `AuditSink` allows.

`RunManager` and `StateRemoval` use `AuditSink` as their journal: with this
theorem that is what the file gives them.

`CommandProofs` is about a command on its way from a pack file to a result.  About
`PackPlan` it proves, from `PackAssumption` (a pack is two halves, its inputs and
arguments are lists, its input names are ones a request may give; an output that is
an object is one row), for every set of packs, drafts, requests and outputs, any
number of edits, and whatever the texts of a request are:

| Theorem | Property | Strengthening |
| --- | --- | --- |
| `PackInvariant` | - | `PackInv`: `PackTypeOK`; `HeldInv` (what a file holds is among what it has held); `ReadInv` (while the time stamp stands still, what was read is what the file holds, and what is accepted it has held); `RegistryInv`; `PlanInv` (a plan is `Build` of the pack admitted, what is shown was rendered from it) |
| `OneVersion` | `LoadedIsOneVersion` | `ReadInv`: every overwrite leaves a greater stamp, so the same stamp after reading means that neither half was overwritten since `Open` |
| `TotalPlans` | `PlansAreTotal` | lemmas about `Build`: each branch that ends in `invalid_plan_state` contradicts a rule of `validateSemantics` |
| `DeclaredPlans` | `PlanIsDeclared` | lemmas `ArgumentIs`, `ArgvIs`, `StdinIs`, `ImpactIs`: what one argument, the whole of argv, stdin and the target are, given parsed values |
| `DeclaredResults` | `ResultIsDeclared` | lemma `ParsedResult`: keys are unique in the pack and in the object, so a field has one value |

The run applies `Build` to a family of packs; these theorems say the same of every
pack that validation accepts, so a rule that validation lost, or that the planner
came to rely on without it, would have no proof.

About `Executor` it proves, from `ExecutorAssumption`, for every set of streams and
every limit of output:

| Theorem | Property | Strengthening |
| --- | --- | --- |
| `RunInvariant` | - | `Sound`: `TypeOK`, `PlaceInv` (what is alive at each step of `Run`), `KillInv` (a kill reaches the whole group, and only a cancelled or abandoned run is killed), `TalkInv` (nothing reaches the sink before `started`, nothing at all if attaching failed), and the parts of `RunIsTruthful` |
| `RunReportsTruth` | `RunIsTruthful` | the parts are inductive relative to those |
| `RunLeavesNothing` | `NothingLeftRunning` | `PlaceInv` at the return |

`ConjurProofs` is about the two services of the Conjur platform.  About
`SecretAudit` it proves, from `AuditAssumption` (identifiers are numbered in the
order the vendor lists them, inventories are finite, pages and batches hold at least
one), for every inventory, every page and batch size, and any number of scans,
requests and changes:

| Theorem | Property | Strengthening |
| --- | --- | --- |
| `AuditInvariant` | - | `AuditInv`: `AuditTypeOK`; `OrderInv` (nothing is read before the first listing ended, identifiers are inspected in order and once); `BatchInv` (what was read or lost is exactly the current batch so far); `FoundInv` (findings are those of what was inspected); `ListInv` (a listing has no identifier twice, and of an inventory that stands still it is a part with the length the count announced); `ReportInv`; `CancelInv` |
| `NoValueStays` | `ValuesDropped` | `BatchInv` |
| `ReportsAreWhole` | `ReportIsWhole` | `ListInv`: a list without repetitions that is as long as a finite set it stays in is all of it |
| `OnlyVouchedFindingsAreShown` | `ShownIsCurrent` | `ReportInv`: findings are in a report, or in a copy of one, only after its verification |
| `CancellationsHit` | `CancelHitsItsScan` | `CancelInv`: whoever holds a cancel function was asked to end that very scan |

The number of identifiers is not bounded: that a finite set of numbers has an
increasing listing, that a page is a part of it and that a batch ends inside the
list are lemmas (`SortedDoes`, `PageAppends`, `BatchDoes`).

About `CredentialLogin` it proves, from `LoginAssumption` and `FileAssumption` (a file
that cannot be read is no blank one), for every set of requests, binaries and
configurations and any number of changes from outside:

| Theorem | Property | Strengthening |
| --- | --- | --- |
| `LoginInvariant` | - | `LoginInv`: `TypeOK`, `CallShape`, `GateInv` (the gate holds exactly who is past it, one request at most), `JudgeInv` (what each stage of a request has decided about the file it has read) |
| `OneInside` | `GateExclusive` | `GateInv` |
| `NamedOverwrite` | `NoBlindOverwrite` | action property, from `JudgeInv`: unless somebody else wrote meanwhile, `init` starts on the very file its verdict is about |
| `SuccessIsTrueThm` | `SuccessIsTrue` | action property, from `JudgeInv`: a stored session belongs to the connection that was read |

Each of these two modules extends both models it is about, which share no state; that
is why `PackPlan` and `SecretAudit` name their specifications `PackSpec` and
`AuditSpec` (with fairness, `AuditFairSpec`), and their parts accordingly.

`RunStreamProofs` proves, from `StreamAssumption`, for every set of viewers, any
number of events, slots and failures, of a run that may be evicted at any moment:

| Theorem | Property | Strengthening |
| --- | --- | --- |
| `StreamInvariant` | - | `StreamInv`: everything that was ever sent is true of the run.  Every frame, on the wire or in a handler's batch, carries an event of the log, or the outcome with the whole log behind it; every answer under way is a state the run was in; the subscription is never ahead of the page; a handler waiting on the current channel has sent everything; slots are the handlers, of which there are finitely many |
| `ViewIsFaithful` | `ViewFaithful` | what is true when sent is true when it arrives, because logs grow and outcomes are final |
| `NobodyIsStarved` | `StreamServed` | `StreamInv` |
| `FinalViewStays` | `FinishedViewStays` | action property, one lemma per step of a page |

`ToolInstallProofs` proves, from `ToolAssumption` and `FileAssumption` (managed
places are not on the search path, others put ordinary files into the places of
the model, `NoFile` and "none" are no file and no request), for every set of
processes, requests, managed and other places and any number of starts, ageings and
changes from outside:

| Theorem | Property | Strengthening |
| --- | --- | --- |
| `ToolInvariant` | - | `ToolInv`: `Shape` (types; what each kind of request has in hand at each step; staged and installed bytes are the pinned ones), `CacheOnlyPinned`, `Holders`, `PartsInv`, `FindInv` |
| `UsersAgree` | `PublishedTogether` | `Holders`: the mutex of a process is held by its one request past `Lock`, and a process that starts has no other; `PartsInv`: without a holder the three parts agree, with one they have learnt of the tool as far as its step says |
| `PinnedOnly` | `OnlyPinned` | `Shape`: what is staged is renamed only once its bytes were compared with the reviewed ones, and so is what a request activates |
| `RestartsFindTheTool` | `RestartFindsTool` | `FindInv`: while nobody else touches the files, an installed tool is verified in a place a start looks at, and a startup that owes the tool is on a path that ends with it |

The proof step of each of these modules has one lemma per action or group of
actions with the same effect on the invariant; the invariants were checked by TLC
on the instances of section 3 before they were proved.

What a definition by recursion over a list or a set computes is needed in four
places: the increasing listing of an inventory (`SecretAudit`), the end of a batch,
the joined arguments of a command (`FlattenSeq`), and the first of several inputs that are
refused.  Each is proved by a least counterexample: the naturals are well founded, a
set of bad lengths that is not empty has a least one (`LeastOf`), and the length
before it yields a contradiction.

Reasoning about the models corrected some of them.  `DurableTrail` and `Seen` of
`AuditTrail` were CASE expressions whose arms overlapped: TLC takes the first arm
that holds, the logic leaves the choice open, and the refinement could not be
proved.  They say now with IF what they meant.  `Sorted` of `SecretAudit` says what an
increasing listing is and no longer how it is computed.  `validateArgument` and the
planner say what happens to an argument without any mapping (both refuse it, as the
`default` of their switches does), which a CASE without that arm left open.

Left to TLC: liveness under fairness (`RunsEnd`, `RunReturns`, `PageSettles`,
`EveryoneServed`, `ScanEnds`, `StopEnds`), because fairness is about ENABLED, and the
expected violation.  Every other property of a run is a theorem.

## 5. Observations

What the models show and no property refutes:

* The execution context of a Start is resolved before the mutex is taken and not
  looked at again (`internal/runs/manager.go:389`): an approval is compared with the
  context as it was resolved, and a context that changes while Start waits for
  the mutex does not void it, although
  `docs/CONJUR_INTEGRATION.md:337` calls approvals void "if any input, the
  executable or the Conjur context changes".
* Signal 0 and SIGKILL succeed on a process that has exited and was not reaped, so
  a cancellation that meets a completed root counts as applied and `Run` reports
  "cancelled" with exit code -1, although
  `internal/processcontrol/controller_unix.go:59` says that a completed root must
  retain its exit result.
* Another Terraform may write between the end of ours and the post-check's read;
  the post-check then sees a later state than ours
  (`docs/TERRAFORM_INTEGRATION.md:109` names only writers that do not change the
  serial).
* A mutation of a validated pack whose impact target is given as empty text is
  answered `invalid_plan_state`, the code for states that validation excludes;
  `PlansAreTotal` names this exception.
* Validation accepts an artifact name that differs from the declared executable in
  case on every platform; discovery's `matchesDeclaredExecutable` compares exactly
  outside Windows, so such a tool is downloaded and verified and then refused.

## 6. Not modelled, and the plan

`PROJECT.json` gives the status of each component.  Left out, and why:

* **Evidence export and reading, evaluation bundle, diagnostics**: one sequential
  call each, which looks at the system, writes a temporary file and renames it; no
  second actor and no state that outlives the call.
* **Pack authoring tools, self test, doctor, command line and build tools**:
  sequential programs over text.  `audit quarantine` is an action of `AuditTrail`.
* **Other pages of the browser**: forms and rendering over answers of the API.
* **The Windows job object and terminal launchers**: only that attaching or
  launching may fail; the process group of Unix is modelled.
* **YAML, JSON schema, migrations, regular expressions, ZIP, HTTP**: data the
  properties do not tell apart beyond "accepted or not".
* **Support packages**: tables and lookups without state.

What remains worth doing, in order:

1. The read-only probe (bounded capture, deadline, process group) as a variant of
   `Executor`, and with it liveness of a removal and of an installation.
2. The choice of a version constraint and the migrations of packs as operators
   against a reference definition.
