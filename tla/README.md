# Elepha, specified

Elepha is a local memory for coding assistants. A daemon watches the
transcripts that Claude Code, Codex and OpenCode write, cuts them into turns,
summarises each turn, and stores it in one encrypted SQLite database; hooks, an
MCP server and a command line read that memory back, and let the user consent
to, delete, back up and restore it.

This directory holds TLA+ modules of the parts of Elepha where several
processes, awaits and transactions meet, the TLC configurations that check
them, and TLAPS proofs about them. Paths below are relative to `src/` of the
program unless they start with `docs/`.

## 1. Inventory

Elepha has three kinds of processes and one database. The **daemon** is one Node
process: single-threaded, but every file read and every model call is an await,
and up to three jobs run interleaved. **Command-line** processes (`elepha
consent grant`, `elepha rollup`, `elepha purge`, ...) open the same database and
some of them run the same code as the daemon. **Hooks and MCP servers** are
started by the assistants, and mostly read. SQLite transactions (better-sqlite3
is synchronous) are the only atomicity they share.

| Component | State it keeps | Operations | Talks to | What is hard, and what makes it correct |
|---|---|---|---|---|
| **Transcript capture** (`daemon/index.ts`, `storage/memory-store.ts`, `turn-store.ts`, `session-store.ts`, `injection-store.ts`) | `sessions` with a cursor per segment, `memories`, `mcp_receipts`, tombstones; in memory the `processing` set, the job queue, idle timers | file event, idle scan, startup sweep, grant replay, per-turn transactions | parser, consent, summariser, retention, rollups | events that race a scan, awaits between check and write, several scanning processes, crashes. No turn behind a cursor without a record, none stored twice, no Elepha output stored as memory, nothing stored without consent, everything settled in the end |
| **Session rollups** (`daemon/rollup-service.ts`, `storage/rollup-store.ts`, `cli/commands/rollup.ts`) | `session_rollups`: content, watermark, state, version | refresh after a scan, finalise at a cut, idle sweep, `elepha rollup`, rebuild | capture, purge, model | multi-batch model calls under a compare-and-set watermark. Content is exactly the turns up to the watermark; a quiet session is closed |
| **Live-memory retention** (`storage/live-memory-*.ts`) | usage ledger, removals, deferrals, retry time, warning schedule | measured write, cleanup, capacity guard, warning | every writer | a cleanup decided on one snapshot and applied in another. Usage stays under capacity, only backed-up idle sessions go, oldest first |
| **Open turns** (`storage/open-turn-store.ts`, `daemon/index.ts`) | `open_turns`: revision, validation epoch, staged summary | observe, stage, invalidate, grace timer | capture, OpenCode receipts | a summary of a failed turn must belong to the turn as it is now |
| **Consent** (`storage/consent-store.ts`, `cli/commands/consent.ts`) | `memory_roots` | grant, revoke, deny, move; closest-ancestor lookup | capture, hooks | decisions that land during a scan |
| **Purge and destructive operations** (`cli/destructive-op.ts`, `cli/commands/purge.ts`, `storage/orphan-classification.ts`) | tombstones, safety backups | preview, confirm, pause, apply | capture, rollups, service control | a plan older than what it is applied to |
| **Source parsers** (`adapters/*.ts`) | parse position, partial lines, desync state | resume, emit turns, open tail | capture | files that grow, shrink or are replaced while read |
| **OpenCode scans and format handoff** (`storage/opencode-v2-pending.ts`, `opencode-v2-handoff.ts`) | pending sources, handoff phase | database polling, handoff from v1 to v2 | capture | two formats naming one chat |
| **Task-state manifests** (`daemon/task-state-manifests.ts`, `storage/task-state-*.ts`) | requests, manifests, receipts | request, recover, validate, serve | capture, hooks, MCP | a report must be of the turn it names |
| **Database lifecycle and migration** (`storage/database-lifecycle.ts`, `database-migration.ts`, `db.ts`) | schema version, lock files, leases | open, migrate, exclusive maintenance | everything | locks across processes, a crash in a migration |
| **Backup, restore, import, export** (`cli/commands/*.ts`, `storage/backup.ts`) | files beside the database | verified copy, replacement, merge | lifecycle, retention | replacing a database others have open |
| **Encryption and paranoid mode** (`storage/paranoid-gate.ts`, `database-encryption.ts`) | key, gate state | encrypt, rekey, lock | everything | a lock that arrives during a scan |
| **Init and its journal** (`cli/init*.ts`, `config/init-apply-journal.ts`) | journal file, `config.json`, consent rows | review, apply, undo, recover | consent and config commands | decisions that land between review and commit; settings and consent in two places |
| **Search index and embeddings** (`storage/turn-search-index.ts`, `durable-capture-store.ts`, `*embedding*.ts`) | filtered copies, coverage rows, FTS rows, vectors, staleness keys | generate, refresh, drop | capture, retention, readers | vectors and copies of text that changed meanwhile |
| **Serving** (`serving/`, `mcp/tools.ts`) | none | recall, list, read | store | budgets, paging |
| **Hooks** (`hooks/`) | injection receipts, session rules | session start, prompt submit | store | once-only injections |
| **Summariser** (`summarizer/`) | call log | summarise, roll up | model | failures, budgets |
| **Standing rules and project resolution** (`serving/standing-rules.ts`, `storage/standing-rules-*.ts`, `project-resolver.ts`) | `standing_rules`, `session_rules`, `projects` | add, import, edit, deliver; grouping of checkouts | consent, Git, hooks | authority prepared before the transaction and asked again inside; a project's members change meanwhile |
| **Installers, service management** (`install/`, `cli/capture-service.ts`) | the tools' config files, launcher and unit, the loaded service, rollback journal, snapshots | install, uninstall, update, pause, resume, doctor | OS, package manager | several files and a service change together; failure or kill at every step, a user who edits the same files |
| **Rendering, sanitising, paths** (`rendering/`, `security/`, `config/`) | none | pure functions | all | wording |

`PROJECT.json` lists them with their status.

## 2. Plan

Most important behaviour first; each module is written so that it can be
checked by TLC and reasoned about by TLAPS (constants with named assumptions,
one action per operation, no RECURSIVE operator).

Done, in this order:

1. `Capture`, refining the abstract `CapturePromise`, with `CaptureProofs`.
2. `Rollup`, with `RollupProofs`.
3. `Retention`, with `RetentionProofs`; the warning schedule is left.
4. What surrounds the database: `Lifecycle` (leases and intents), `Migration`
   (encryption), `Archive` (restore and import).
5. Where turns come from: `Source` (growing transcripts), `Opencode` (database scans).
6. What is served: `TaskState`, `Rules`, `Evidence`, `Paranoid`.
7. What the user sets up: `Setup` (onboarding and its journal), `Install`.
8. `OpenTurn`: the turn that failed and is served before it is closed. `TurnProofs` proves
   properties of `OpenTurn` and `Source`; `PartsProofs`, `ToolFilesProofs` and
   `OpencodeProofs` those of 4 to 8 as the runs check them; and `SetLemmas` holds what several
   proofs need of finite sets and of numbers.

Left:

9. A module of pure algorithms against reference definitions:
   `evaluateSegmentBoundary`, `FailureWindow`, `chunkTurns`, budgets.
10. The warning cadence, the hooks' injection receipts, rekeying.
11. Compositions: capture with open turns, capture with rollups (turns stored
    late), Lifecycle under Archive and Migration.

Theorems: section 5 lists what is proved, and what is left to prove.

## 3. Modules and the code they stand for

One action is one SQLite transaction, or one stretch of JavaScript between two
awaits. A check made before an await and repeated inside the writing transaction
is kept in both places. `PROJECT.json` "map" gives the source lines of every
definition.

### Capture

One native transcript, from the provider's file to its rows.

| Model | Code |
|---|---|
| `len` | what the provider has written; turn `len` is the trailing one, still open |
| `consent`, `veto` | decisions of `memory_roots` by root; the three tombstone tables |
| `session`, `mem` | `sessions` (segment index -> `cursor`, and `trail`, the last recorded turn), `memories` |
| `receipts` | `mcp_receipts`, bounded by `ReceiptRoom` |
| `deferred`, `full` | the row of `live_memory_capture_deferrals`; whether a write now reaches capacity without a possible cleanup |
| `queue`, `phase`, `closing`, `at`, `end`, `cut` | per process: queued jobs and idle timer, the scan's place, `closeTrailingOnIdle`, loop position, end of the parse, the segment decision held over the summariser's await |
| `plan` | the purge the user is previewing |
| `refused` | history: turns passed over without a record |

`Begin` is the `processing` mutex and its idle-scan fallback; `Gate`, `Resume`,
`Turn`, `Finish` are `scanFile`; the disjuncts of `Turn` are the ways through
`persistTurn`. `Decide` ends where the summariser is awaited, `Write` and its
siblings are `recordIngestedTurn`, which asks everything again. `Grant` starts the
same scan in another process, which has its own mutex. `Crash` clears what is in
memory only.

`CapturePromise` is the same transcript seen by its user: what is remembered,
whether it is frozen. `KeepsPromise` says that Capture implements it under
`remembered <- {p[2] : p \in mem}`, `frozen <- veto # {}`.

### Rollup

The rollups of the segments of some chats; each turn folded in is a tuple of
chat, segment, turn, and the format (`ROLLUP_VERSION`) it was made by, so a rollup
knows what it was made from.

| Model | Code |
|---|---|
| `sess` | `sessions`: row id -> chat, segment, number of turns stored |
| `roll` | `session_rollups`: row id -> watermark, version, state, content |
| `frozen`, `quiet` | purged chats; chats idle longer than the sweep's threshold |
| `scan` | the scan that stores turns, cuts, marks live and refreshes |
| `list`, `job` | per worker (scan, sweeps, the `elepha rollup` process): sessions still to visit; the rollup whose answer is awaited: expected watermark, last turn, carried content |

`Begin` is `rollupSessionGuarded` up to its first model call, `Answers` one batch
and its compare-and-set write, `Refused` and `Fails` the other outcomes. `NewId`
is SQLite's choice of a rowid for `INTEGER PRIMARY KEY` without AUTOINCREMENT.

### Retention

The bytes of whole chats, and the writes that several processes have in hand.

| Model | Code |
|---|---|
| `rows` | the live-memory tables by native session. `used`, their sum, is the ledger `live_memory_usage`: row triggers charge every change in its own transaction, so it is no state of its own here |
| `recent`, `unsettled` | chats ingested within the active window; chats with another reason not to be removed (open turn, incomplete copy, uncertain identity, pending consent) |
| `removed`, `purged` | `live_memory_retention_removals`, `purged_transcripts` |
| `wait` | `retry_after_ms` lies in the future |
| `job` | per process: the write in hand and how far its cleanup has come; `units` is what the plan froze |

A measured write is `Writes` if it fits. Otherwise it is rolled back (`Probes`) and
goes through the four transactions of a cleanup: `Plans`, `BacksUp`, and `Removes` or
`WritesAfterAll`, each of which may end in a deferral. `BulkWrites` is a backfill, which
only the capacity guard holds. The state `write` of a job is the await on its summary:
no table knows of it.

### Lifecycle

Every process that opens or replaces the database file. Nothing locks the
protocol: each side publishes an owner file first and looks again afterwards.

| Model | Code |
|---|---|
| `owner`, `torn`, `pen`, `baseline` | the owner file of each process: what it says, that it is truncated and not rewritten, what is about to be written, the file it names |
| `file`, `created`, `frames`, `conn` | the inode at the path, its write-ahead log, the file each process has open |
| `authority`, `retired` | the file the last exclusive owner left, and those that were replaced |
| `deferred`, `prey`, `manifest` | dead leases an opener took over until it has read the database; dead migrations a migrator claims; the migration's progress as the lock protocol sees it |
| `alive`, `at` | a process may die at every step and leaves its files |

An opener publishes a lease, surveys the others, proves the identity of the
file, opens and confirms; a maintainer publishes an intent, drains the leases,
holds, mutates and leaves. `Rewrites` and `Written` are the two moments of a
truncating write.

### Migration

`database-migration.ts`, one stage of the manifest per step: quiesce, generate a
key, build and verify the sidecar and the rollback copy, store the key, clean the
log, swap, convert each managed backup, finalise. `canonical`, `sidecar`, `rollback`,
`source`, `replacement` are files described by their key (0 for plaintext) and
their content; `stored` and `late` are the key store and a call that timed out and
may still take effect. `Stops` clears the process at any step; `RecoversPlain` and
`RecoversEncrypted` are what the next command finds.

### Archive

A database is what was granted, vetoed (purged, incognito) and given up for good
(evicted), and the chats and durable turns it holds. A restore is preview,
recheck under the exclusive lease, overlay of the decisions on the staged copy,
snapshot, replacement and, if that fails, rollback; an import is a plan, a second
look and a merge in one transaction. `Decides` are the other processes while the user
reads the preview, and `shut` an owner that died inside the replacement.

### Source

A JSONL transcript grows record by record (`lines`); each scan resumes at `cursor`,
parses what is complete and hands on `turns`. A provider may mark where its attempts
start and end (`explicit`), or not; then a turn closes at the next prompt or when
the file has been idle. A turn remembers the records it was cut from, so the
turns of many scans can be compared with one parse of the whole. A turn that asks
Elepha is withheld (`ask` and its answer). `replaced` is the file another one takes
the place of.

### Opencode

The chats of an OpenCode database as rows in order, with the update time of their
session row. A scan discovers by `watermark` and by its overlap cycle (`visited`),
adds the chats left `pending`, reads a page of rows of each, and commits turns,
cursor and pending row together. A migrated chat (`Migrants`) has a history of the
old format; `handoff` records the boundary behind which the new format goes on.

### TaskState

One chat whose hook asks for its task (`request`), whose turns may carry a report,
whose recovery pass (`pass`) reads the transcript and publishes `manifests`, and whose
next hook prepares a `delivery`. Consent, checkout, source generation and the retained
version of each turn may change between any of the reads and the write that follows.

### Rules

Checkouts, nested folders, and the remote they may share; `row` is `projects`,
`decision` is `consent_roots`. `Together` is the grouping of rows into a project,
`Resolved` the project a directory belongs to. A command, a delivery or an import
prepares a `job` and commits it in a later step that asks again.

### Paranoid

The read gate is in two places, a row (`authority`) and a signed `file`; `job` is
what each process is doing between its reads and writes of the two, and `answer` what
a reader was told. `closed` and `locks` are history: a lock has returned and no
passphrase was accepted since, and how many have returned; a reader's `since` and `late`
are what it found of that at its first and its last look at the row.

### Evidence

Of every turn: the version the transcript holds (`source`), the stored summary
(`memory`), the filtered `copy`, its `coverage` row, its `vector`. `worker` is the
embedding pass, which reads a row, its text and the key it answers for, awaits the
model, and stores if nothing changed. `lookup` is a semantic lookup that stops at
an await between its candidates and the text it returns.

### Setup

`elepha init` reviews a plan, rechecks it, publishes a journal, writes `config.json`
and commits consent last. A setting remembers who changed it, a consent row who
decided and when, so that the undo of an interrupted apply can be told from the
decision of someone else. `Commands` are `elepha consent` and `elepha config`, which
look for a journal first and write later.

### Install

Each tool's file holds the user's text and Elepha's entry; `artifacts` are the
launcher and the unit, `service` the loaded job, `package` the installed version.
Install and uninstall write a `journal` of what they are about to change and roll back
or finish from it; self-update has its own rollback and no journal. Any step may
fail or be killed, and the user edits, decides, pauses and resumes between commands.

### OpenTurn

A transcript whose last turn may have failed (`source`: its turn, its text, and `rev`,
which stands for size and times), the row of `open_turns` with its two epochs, the
daemon's epoch, and the scan of the daemon and of a replay. `HandlesEvent` invalidates
the row before anything is read; `Opens`, `Begins`, `Parses`, `Stores`,
`HandlesOpenTail` and `Stages` are `scanFile` and `handleOpenTail` between their awaits;
`Collides` is a second scan of the same file, which gives way. `due` counts queued
scans and the idle timer, `timer` is the one that waits for the grace of a failure.
`told` is history: what the transcript was when a validation last began.

### MCParts

`MCParts` instantiates the twelve modules from `Lifecycle` to `OpenTurn`. A behaviour
follows one of them, chosen in its initial state (`part`), and the others keep the first of their
initial states: they share no variables, so their product would say nothing more.
Interactions between these modules are inside them, as choices (a process that
dies, a decision that lands). A property of a part is stated in its
module; `MCParts` names it again for the behaviours of that part.

## 4. Runs

Every bound is a constant of the configuration. `CHECK_DEADLOCK FALSE` everywhere:
a memory whose chats are finished may stay as it is for good.

| Run | Bounds | Shows |
|---|---|---|
| `capture_safety` | 4 turns: a question to Elepha, a turn that repeats its answer, two others with a segment break between them, one of which may be too long to compare; daemon and one replay; everything but the loss of a root may happen | nothing lost behind a cursor, one home per turn, no self-ingestion, the promise. A second process is enough for every race of a check with a write, since a third could only repeat it |
| `capture_live` | 6 turns of 2 roots, one process, room for 1 receipt, crashes, the loss of the file's root | liveness; where segments are cut: between the two segments lie a turn without a record and two without memory; what happens at the receipt limit: one of two answers is refused its receipt and both are quoted |
| `capture_deferral` | 2 turns | **violated**: `docs/storage.md` says that capture of a deferred turn "retries automatically" |
| `rollup_safety` | one chat, 2 segments of 2 turns, scan, sweep and command line; upgrade, purge, one failure, crashes | content matches the watermark; a rebuild interrupted between two batches never passes for complete |
| `rollup_live` | the same with two overlapping sweeps and no command line | the latest segment of a quiet chat is closed |
| `rollup_final` | one segment | **violated**: `final` does not imply complete |
| `rollup_purged` | two chats | **violated**: purged content reappears under a reused row id |
| `rollup_closing` | two segments, one failure | **violated**: an earlier segment whose closing failed is never closed |
| `retention_safety` | 3 chats, of which a second process writes the newest; sizes 1 and 2 over a capacity of 3, so that one write may need the space of two chats, may be an unwarned jump, and may miss its target; one unsettled chat at a time | the capacity holds, removed chats stay empty, removals are of what was planned and backed up, and only for a write that is stored in the same step and had no room beside them. With two chats besides the one written, the oldest-first prefix may be empty, one or both |
| `retention_active` | the same | **violated**: a resumed chat whose turn is with the summariser is removed |
| `parts` | the bounds below | the 26 properties of the parts around capture, rollups and retention |
| `source_idle` | one header, 6 records, 2 attempts | **violated**: an idle scan takes a start marker whose prompt is still to come, and the next turn is handed on while its attempt is running |

The six violated properties are findings: each states what a document or comment
of the repository says, and `PROJECT.json` quotes the line.

Bounds of `parts`, by part:

| Part | Bounds | Why they are enough |
|---|---|---|
| Lifecycle | an opener, a restorer, two migrators; 3 files, 2 deaths | every pair of kinds meets, a migrator takes over from a dead one, and a process that takes over may die too |
| Archive | one chat, 2 decisions | each decision is about one chat; two land on either side of the recheck |
| Migration | 2 backups, 3 stops, 1 write | one backup converted and one not, stops in a recovery of a recovery, a plaintext write between them |
| Source | one header, 6 records, 2 attempts | two whole turns with prompt, answer and markers, and the one that follows |
| Opencode | a native and a migrated chat, pages of 4 rows, 3 changes, 1 failed scan | a turn that spans pages, a chat that changes while the other is read, a scan repeated after a failure |
| TaskState | 2 turns, 3 changes | a report, and the turn that repeats it or replaces it; a change in each of the three windows |
| Rules | 2 clones, one nested folder, one chat; 1 rule or 2 characters; 2 changes | both limits are reached by the second rule, projects merge and split |
| Paranoid | 2 processes, one also a reader; 3 operations, 1 stop | enable, lock and unlock with a reader across them, and one of them interrupted |
| Evidence | 2 turns, 2 versions, a window of 1, 2 events | a turn in the window and one outside, one long and changing |
| Setup | 2 runs of `init`, one command; one project inside a folder; 1 apply, 1 change, 1 kill | the second run recovers what the first left, with a decision in between |
| Install | 2 files, 1 update, 2 troubles | one file written and one not when it fails, and a failure of what makes up for it (3 troubles pass as well) |
| OpenTurn | 3 turns, of which the 2nd asks Elepha and the 3rd quotes it, the first open one being any; 2 changes, 1 decision, failed scan or restart; 2 scans to come; collisions up to epoch 3 | a failure and what follows it (retry, end, rewrite) with scans before, between and after (3 changes with 3 scans to come, and 2 troubles, pass as well) |

### Fairness

`Capture`: a queued job runs and an armed timer fires (`WF` of `Begin`), a scan that
can take a step takes one (`WF` of `ScanStep`: promises settle, and a failing
model call gives an outcome), and the service manager restarts the daemon (`WF` of
`Restart`: launchd and systemd units ask for it). Nothing makes the provider write,
the user decide, or the store empty, and `EventuallyCaptured` assumes that the
daemon stays up from some moment on. `Rollup`: the sweep timer fires and its loop
goes on, the model answers or fails (at most `MaxFailures` times), the daemon is
restarted. `MCParts`: a migration that can take a step takes one, and one that was
stopped is gone on with (`WF` of `MigrationStep` and `MigrationRecovers`), since
every command that opens the database recovers it first; stops are bounded, and
no other part is given fairness.

## 5. Proofs

Every theorem holds for all values of the constants that its module's assumptions admit:
any number of turns, chats, processes, stops and changes. A theorem states `Spec => []P`
(or `[][A]_vars`) for a property a run checks, or for the same property of a component by
itself. Where the property is not inductive, the invariant that is has been checked by
TLC first.

| Module | Theorems | Hypotheses beyond the module's own |
|---|---|---|
| `CaptureProofs` | `TypeCorrect`, `NothingLost`, `OneHome`, `NoSelf`, `Refines` (`Spec => KeepsPromise`), `SegmentsFollow` | `SegmentsFollow`: `Backfills = {}` |
| `RollupProofs` | `CurrentIsRebuiltHolds`, `ContentMatchesWatermarkHolds` | the second: `NoIdReuse` |
| `RetentionProofs` | `RetentionTypeCorrect`, `FrozenStaysEmptyHolds`, `RemovesOnlyIdleBackedUpHolds`, `UnderCapacityHolds`, `RemovesOnlyForAWriteHolds` | |
| `TurnProofs` | `SnapshotIsOfTheTurnHolds`, `FailedTurnIsNotForgottenHolds`; what Source's three below rest on (`SourceStep`, `ResumingStep`, `ResumedIsInvisible`) | `MaxTurns` a number, room for one queued scan (`MaxDue > 0`) |
| `PartsProofs` | `DecisionsSurviveHolds`, `OpenMeansWholeHolds`, `ImportsOnlyGrantedHolds`; `EncryptedIsReadableHolds`, `FinishedIsWholeHolds`; `OneReportPerRequestHolds`, `RegrantRevivesNothingHolds`, `CurrentMeansLatestHolds`; `VectorsDescribeTurnsHolds`, `ServesCurrentTextHolds`; `ServedInPlaceHolds`, `WrittenWithinBoundsHolds`; `ServedWhileOpenHolds`; `NoCommitIsLostHolds` | for Rules', clones and nested paths are numbers (`Numbered`), and so is the limit `MaxRules`; for Lifecycle's, no process is both an opener and a maintainer (`Roles`) |
| `ToolFilesProofs` | `CommitsWhatWasReviewedHolds`, `AllOrNothingHolds`; `NoHalfInstallHolds`; the two of `TurnProofs`, for their part (`...InParts`); `AnswersAreWithheldHolds`, `TurnsAreOfOneFileHolds`, `ResumingIsInvisibleHolds` | OpenTurn's, for its two; for Source's three, `MaxAttempts` a number |
| `OpencodeProofs` | `CapturedInOrderHolds`, `NothingForgottenHolds` | `ChatsGiven`: the ids of the chats are numbers, a chat is native or migrated and not both, there are finitely many, and a page is a number of rows |
| `SetLemmas` | induction over the subsets of a finite set and over the natural numbers, the largest of a finite set of numbers, the smallest of any, sums | |

**Capture.** `NothingLostBehindCursor` is not inductive: a scan's loop position `at` becomes
the next cursor, and it was read from a cursor that may have moved since. The invariant
that is (`CoverInv`) adds `ScansCovered`: every turn a scan in progress has passed is
covered too. It survives because evidence only grows while nothing is vetoed (receipts
are not evicted, `refused` and `mem` only shrink with a tombstone). `NoSelfIngest` needs the
same covering facts: a turn that repeats an answer comes after it, so its scan has
passed the answer's turn. `OneHomePerTurn` is inductive alone, because the write itself
asks `~Stored(t)`. The refinement needs one more conjunct: only ordinary turns are in `mem`.
`SegmentsFollowBoundaries` needs `OrderInv`: while nothing is vetoed, the turns of the last
segment come in order and behind those of every earlier one, none is beyond the cursor, and the
segment decision a scan holds over the summariser's await is still the one it would take
now. The last is why the theorem assumes that no backfill runs beside the daemon: with
one, the row the decision was taken on may have moved, which is the hazard listed at
`daemon/index.ts:2451`.

**Rollup.** `CurrentIsRebuilt` is not inductive: a batch is written from what its worker
carries. `RebuiltInv` adds that no worker ever carries content of an older version, because it
starts from nothing or from a rollup that is current. `ContentMatchesWatermark` needs
`CountInv`: a session id belongs to one chat and segment, whose row only gains turns; a
rollup's content is one fold of turns 1 up to its watermark, and so is what a worker carries up to the
watermark it read, so that a write that finds this watermark again extends the very rows it was
computed from. It assumes `NoIdReuse`: nothing is purged, or there is one chat only.
SQLite gives the row ids of purged sessions out again, and run `rollup_purged` shows
what happens then: without the hypothesis the theorem would be false.

**Retention.** `FrozenStaysEmpty` is inductive with `TypeOK`, for two reasons: the guards
inside the write see a chat frozen during the await, and the cleanup never takes the
chat it makes room for (`TriggerKept`), so the same transaction cannot empty a chat and
write it. With these, `UnderCapacity` is inductive: a write adds to the sum of the rows what
it was measured to add (`GrownMeasures`, from the lemmas on sums in `SetLemmas`), and a
cleanup commits only if the rows it leaves measure no more than the target. Both
together give `RemovesOnlyForAWrite`. Memory is under its capacity before the step, so a write
that still finds no room adds something; a chat that was purged or removed since the plan
is given nothing (`AddingIsToLive`), so that something is of a chat that stays; and with the
removed chats kept, the rows would be those of the write alone (`KeptIsStored`), which
were measured to reach the capacity.

**Archive.** `RestoreInv` says what holds at each step of a restore: what was read again
under the lease is what the database decides until the copy is installed, the copy keeps
it (`Keeps`), and copy and snapshot hold nothing of what is vetoed or given up (`Clean`).
`ImportsOnlyGranted` is an action property and needs the types only.

**Migration.** The invariant has a part for the key store (until a key may have been stored
there is none, and later none but the manifest's), for the files (nothing is encrypted and
no copy of a backup is started before the key is committed; after that every encrypted
file has its key), and for the running process (it holds the key of the manifest, and is
where the stage says).

**Open turns.** Nothing orders the steps of the daemon's scan and of a replay, so `TurnInv`
relates what each has read to the row and to the transcript. `SeenInv`: every change makes
another text, so whatever was read of one text describes the same turn. `ServedInv`: a summary is
of the text of its row, and a row whose two epochs agree was read no earlier than
`told`. `DueInv`: whatever the daemon's scan missed (another text, another size, a new epoch)
left an event or a scan to come. `FailedTurnIsNotForgotten` is inductive with these.

**Task state.** `TaskInv`: an open request carries the last id given out (`RequestInv`); a
pass holds a request that was issued, and a manifest that names it and its consent
(`PassInv`); manifests name requests that are no longer open, each at most once
(`ManifestsInv`); a delivery prepared as current is of the chat's last turn
(`DeliveryInv`).

**Evidence.** `EvidenceInv`: a copy that no reingest superseded is of the version in
memory, only a stored turn has one, and an incognito chat has none (`CopiesInv`);
while the model is awaited, the version the worker read stays the one in memory until
the turn is reingested (`WorkerInv`), which the write then sees.

**Rules.** `ServedInPlace` and `WrittenWithinBounds` are action properties. Most of what
they say the transaction asks for again; the rest is that all rows of a project have the
same stored set, whichever of them it is computed from (`TogetherIsShared`), that the rules
are a finite set (`RuleRows`; a limit is a count), and that the owner a command writes for is of
the set it has read, and the directory a delivery falls back to above the one it is for
(`PreparedInv`). `Numbered` gives the set of paths a first one, which the code takes.

**Paranoid.** The row only goes forward (`Rank`): every command's write is of the generation
after the one it saw and is made only if the row is still that one, and what a database takes
over from its file comes before all of them. So a reader that finds its token again has
looked at one and the same row throughout, and `ReaderInv` says of that row that no lock has
returned since. `GateInv`: while `closed`, the row is locked, or there is no row yet and
the file is. `CommandInv`: what a command is about to write is of the next generation, and
only `unlock` and `disable` write a row that opens reads. The first attempt at this proof
failed for a good reason. The property used to hold the reader to its answer; with three
processes TLC finds a reader that looks at the row, then a lock that returns, then
the file of an `unlock` that was accepted before the lock and is slow to write. The two
looks agree on what was there before the lock, and the reader is answered. The property now
says so: a reader is held to its last look at the row, and to its answer only if the row is
the same then.

**Source.** A parse is a recursive function of the records, and the theorems of the library
that say such a function exists take an operator. `UpwardInduction` has its property as a set
instead, which is enough: `ParsedSteps` says that a parse starts where its cursor says and
goes on record by record. `ParsedInv` is what it keeps: the open turn lies behind the cursor
and in front of a start marker that is still pending, it has a call open or answered if it asked
Elepha, and whatever was cut lies between two cursors (`IsCut`). `SourceInv` is
what the scans keep: the turns handed on lie behind the cursor as long as the file is the first
one, and the cursor of a file that was replaced is marked as that file's, so that no scan
trusts it again, however long the other one grows.

`ResumingIsInvisible` compares the turns of many parses with those of one (`WholeAt`). A
parse that resumes at a cursor does not have the state of the whole: the whole still has its
turn open, and has noted other headers. `GoesOnAt` says what they share. Up to the first
prompt behind the cursor the resumed parse has no turn open (`Quiet`); that prompt makes the two
states alike in all that later records look at (`Alike`), and `Follows` keeps them so, record
by record, with the same turns cut. Every cursor that a prompt cuts is of this kind (`CutResumes`),
because it lies in front of the start marker that waits for the prompt and only headers are
between the two (`MarkerIs`, part of `FileInv`), and it carries the header in force there
(`HeadersNoted`, `CursorsCarryHeaders`). A cursor that an idle scan cut has no prompt behind it
yet. It is `AtRest`: what was handed on is what the whole has cut and has open (`Given`), and
the next record can only be a header, a start marker or a prompt. That is what the order in which
the provider writes its markers is for: `ProviderInv` says that the parse of the whole knows
which attempt is in progress and whether the open turn has finished its own, so that a turn an
idle scan may close gets no more content. The idle scan that closes a turn over a pending start
marker breaks it, and the property leaves it out (`swallowed`; section 4, `source_idle`).
`ResumeInv` is these together.

**Opencode.** A parse is a recursive function of the rows; lemma `SplitRead` says that a parse
started behind a row where no turn is open goes on as one that started earlier, so that the
turns a page closes are a piece of the turns the whole chat closes (`IsPage`), as long as no
turn is longer than a page. Neither property is inductive. `ScansInv` adds, for each chat,
what role its format leaves it (`RoleOf`: only the overlap cycle works on a migrated chat, at
the offset of its old history), and, while its turns fit (`FitsInv`): the cursor stands
behind a closed turn (`CursorOf`); what is stored is what is kept of the turns up to the cursor,
in order (`HistoryOf`); and what a scan holds in its hand over all the reads and writes of
others is still a piece of the turns, which it has passed or has before it (`InHand`:
`Piece`, `Passed`, `Left`). While a handover has stored nothing yet, a turn it drops moves no
cursor, nor does one it may not store because the old rows changed: the second alternative of
`Passed`, which lasts because old rows that no longer verify never verify again
(`VerifiedStays`). `CapturedInOrder` follows from
`HistoryOf`. `NothingForgotten` needs the watermark too. `QueueInv`: the chats discovery has
listed and not reached yet are in the order of their times, all behind the watermark
(`AheadInOrder`, `AheadFollows`), and a chat the watermark has not passed is among them or was
written after they were listed (`DueIsAhead`), so that moving the watermark to the chat that
was just finished passes no other. `Left` then says that what a finished chat has not
been read of was written since its revision was taken, and since anything was listed.

**Setup.** The invariant has four parts. `SetupTypes`. `JournalInv`: who published a
journal holds it, number and all, until it is released; who undoes another's holds an older
one than that process may have published since. `ReviewedInv`: what a review has seen was
decided before it, and a row that a prepared commit captured has not been decided since.
`ProgressInv`: the settings are written together and before consent, so that what a recovery
finds in the rows tells whether the apply was committed. The first attempt at this proof
failed for a good reason: the model counted the daemon's recording of a root it had not seen
as a decision, and TLC, given enough changes, then found `AllOrNothing` violated after a
prune and a rediscovery. `RecordsPending` now decides nothing, as in the code, and an
apply's number is never given twice (`About`), where the code takes a random operation id.

**Install.** The property speaks of the moments between commands, the invariant of what each
step leaves. `FilesInv`: a file holds the user's text and Elepha's entry or not, and what
the journal, the snapshots and the plans hold of it is the same text, so that putting any of
them back loses no edit. `EvenInv`: as long as no failure was reported, what the running command
would go back to (`Base`: what the journal holds, or the files themselves when there is none)
has an entry in every tool or in none. `IsCommand`: files the command is done with are as it
wants them; an uninstall that met no failure has a journal and cleans every file, an update
only writes where an entry is.

**Lifecycle.** An opener publishes its lease and looks for intents again; a maintainer
publishes its intent and waits for the leases to go. `ExclusiveInv`: while a maintainer that
found no lease holds its intent, no opener is past its second look and the log is empty.
`ManifestInv`: while there is a manifest, no opener is past its look for one and the log is
empty. `FramesInv`: what is only in the log has a lease behind it, of a process that has the
database open or of one that died. A replacement is made under the first, or, by a migrator
that resumes another's, under the second; so the theorem holds for any number of migrators,
where `ExclusiveMeansAlone` does not (below).

**From components to parts.** `parts` checks a component where `MCParts` instantiates it.
Lemma `OpenTurnFollowed` says that a behaviour of the whole is one of the component, whose
variables no other part touches; the component's theorems then carry over. For `Source` the
parsers have to be shown the same too, which needs that a parse is the only function of its
kind (`ParsesAlike`); `TranscriptIsKept` carries its invariants over, and the theorems follow
from them. The other parts have their invariants over `MCParts` at once.

**Only model-checked.** Liveness (`EventuallyCaptured`, `LatestCloses`, `MigrationEnds`), which
this prover does not reach. `ExclusiveMeansAlone`, because it does not hold for every
number of migrators: with four of them and two deaths, TLC finds a late claim (section 6)
whose owner dies and is claimed in its turn while an opener is already bound; that
opener gets in while the last migrator, which has nothing left to replace, still holds the
database.

## 6. What is left out, and abstractions

* A turn is a unit: parsing, desync and the growth of a turn already stored are
  not modelled, nor is the replacement of a source while it is scanned
  (`validateSource`), after which the rest of that parse cannot be written.
* A turn's kind, the turns it quotes and the boundaries between turns are constants.
  `Boundary` relates the last recorded turn to the next one, as
  `evaluateSegmentBoundary` does.
* Roots refused for technical reasons behave as undecided ones and are one with
  `pending`.
* The transaction of a measured write and its possible cleanup is one action here
  (`full` says whether it fails).
* `Retention` has bytes by whole chats. The confirmation after a cleanup only reads and
  is left out, as are its refusals that need a ledger already wrong or a caller already
  in a transaction. A planned chat whose rows change without changing in size counts as
  unchanged unless it becomes recent or unsettled. That import and restore lift
  removals is left out. `docs/storage.md:44` says that a cleanup removes "only as many as
  needed"; that holds of the plan. When others free something between plan and decision, but not
  enough for the write to fit, the decision (`storage/live-memory-retention.ts:384-390`)
  still removes every planned chat: with four chats, a capacity of 4 and a target of 3, TLC finds two removed
  where one would do. No property here says otherwise.
* `TaskState`: `IssuesRequest`, `PublishesManifest` and `DeliversManifest` look at the
  transcript (`Unmoved`, `ChatCurrent`) and commit in one step. In the code the `stat` comes just before the
  commit, with no await between, but another process, the tool that writes the
  transcript above all, can still append in that window; what it appends is noticed by the next
  look and not by this one.
* `Rules`: `CommitsFirst` does not repeat the check that the chat's anchor still matches
  (`serving/standing-rules.ts:687`), so the model writes some first rules that the
  code refuses.
* In `Rollup` the check before each batch and the model call after it are one step;
  eligibility by session kind is static; `elepha rollup` is one process.
* `Lifecycle`: a close that finds its checkpoint incomplete keeps the connection and the
  lease in the code; `Closes` lets it go on, with the log left behind, which is one behaviour
  more. Directory permissions and how a platform proves a process's start
  time are left out. A process that dies after a complete replacement and before
  it removes its owner file leaves a record that blocks everyone until it is
  resolved by hand (`storage/database-lifecycle.ts:1520`): closed, not lost. So does
  a second living claimant of one dead migrator whose claim is published after the
  first has finished and released (`storage/database-lifecycle.ts:1787`): the name of
  the claim is free again, there is nothing left to inherit, and the intent stays.
  `ExclusiveMeansAlone` therefore speaks of a claim only while a manifest is there or
  its owner replaces. With a third migrator, which this case needs, an opener, a
  restorer, 2 files and 2 deaths, both properties of the part hold as well
  (260,000 states), but `parts` has no room for it.
* `Evidence`: `recordLiveParseGap` (`daemon/index.ts:2241`) may put `parse_error` in
  place of `evicted`, which `storage/durable-capture-store.ts:174` treats as final; no adapter
  sets the source key, so `source_digest` is null and is left out; the
  awaits between the turns of one source fallback are one step, as are the two checks of
  a ranked hit around the one read awaited between them (`GathersEvidence`; the last look
  at all hits before the answer is a step of its own); sizes and the checks
  of a rendered text are abstracted to `Window` and `Long`.
* `Paranoid`: of two `elepha lock` at once, one may finish the file of the other after
  an unlock and report "locked" while the row is unlocked; the property speaks of
  locks that left the row locked. A reader whose two looks, at the row and then at the
  file, fall around a lock may still be answered when an `unlock` accepted before that
  lock puts its file back between them (three processes; section 5). A first `paranoid enable` killed between row and file
  leaves the gate locked with no command that finishes it. Key derivation, attempts
  and their delays are left out.
* `Setup`: an update of `config.json` and a recovery's classification with its undo
  are one step each, as are the reads from the first prompt to the review. A key that
  is changed and changed back between the capture of the previous values and the
  publication of the journal is undone to the wrong value; `AllOrNothing` leaves such a key
  out (`About`). A setting made between recheck and write is
  overwritten. `Folder` holds all `Projects`; duplicate rows, the validation of a
  journal and notices about worktrees are left out; the replay that follows a
  commit is Capture's.
* `Install`: one command at a time, since the code takes no lock; the user does not edit a
  file while a command runs or has left a journal, whose replay would overwrite the
  edit. launchd and systemd are one service, the unit and its launcher one version
  each. `elepha install` killed while it migrates leaves the service stopped. Left out:
  the retirement of old registrations, the rendering of plugins, `doctor`, and
  `ELEPHA_SERVICE_KEEP_ON_FAILURE`.
* `Archive` has one backup and leaves out the formats, the listing and rotation of
  backups. `Source` has the signals of Codex; branches of Claude Code, and decisions and
  titles that a parse collects, are left out. `Opencode` leaves out the rotation of
  more pending chats than a scan takes.
* `OpenTurn`: source generations and the reconciliation of retractable sources are
  left out. A scan that fails leaves a failed turn to the next event, and so does a
  replay that takes the turn over within its grace, since its timer ends with its
  process: `FailedTurnIsNotForgotten` excepts both. A rewrite that leaves size and
  time alone is noticed by one process at a time, so with a replay a summary of the text
  before it may be served until the next scan: `SnapshotIsOfTheTurn` excepts it.
* Not modelled: the summariser, and rendering, sanitising and paths; most of serving and hooks
  reads and composes text. What of them keeps state is in the plan above, the
  rest is left to ordinary tests.
