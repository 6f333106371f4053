------------------------------- MODULE MCParts -------------------------------
(* The components around capture and rollups, each for itself: a behaviour    *)
(* follows one of them, and the others stay as they were.                      *)
EXTENDS TLC, Functions

CONSTANTS
    Openers, Restorers, Migrators, MaxFiles, MaxDeaths, ArchiveChats, ArchiveMaxChanges,
    Backups, MigrationMaxStops, MigrationMaxWrites, MaxHeaders, MaxRecords, MaxAttempts,
    Natives, Migrants, PageRows, OpencodeMaxWrites, OpencodeMaxStops, TaskStateMaxTurns,
    TaskStateMaxChanges, Clones, Nested, RulesChats, Texts, MaxRules, MaxChars,
    RulesMaxChanges, ParanoidProcs, Readers, Phrases, MaxOps, ParanoidMaxStops,
    TurnCount, Versions, Edited, Long, Window, Native, MaxEvents, Setups, Commands,
    Projects, Old, Modes, Searches, Tools, MaxApplies, SetupMaxChanges, SetupMaxStops,
    Files, MaxUpdates, InstallMaxTroubles, OpenTurnMaxTurns, Asks, Quotes,
    OpenTurnMaxChanges, OpenTurnMaxTroubles, MaxDue, MaxEpochs

VARIABLES
    part,
    alive, lifecycleAt, owner, torn, pen, baseline, deferred, prey, lifecycleFile,
    created, frames, conn, lifecycleAuthority, retired, manifest,
    active, backup, staged, snapshot, preview, archiveAt, shut, archiveChanges,
    stage, keySha, original, recorded, backupStage, canonical, sidecar, rollback,
    migrationSource, replacement, migrationStored, late, metadata, step, key, keys,
    migrationStops,
    lines, explicit, running, prompted, attempts, sourceCursor, turns, replaced,
    rows, updated, v1, opencodeBarred, history, opencodeCursor, segment, pending,
    handoff, watermark, visited, opencodeScan, writes, opencodeStops,
    taskStateSource, retained, generation, taskStateConsent, decisions, taskStateBarred,
    checkout, request, issued, issuing, manifests, pass, delivery, delivered,
    repos, shared, rulesRow, decision, rules, rulesJob, served, rulesChanges,
    paranoidAuthority, paranoidFile, paranoidJob, answer, closed, locks, ops,
    paranoidStops, earlier,
    evidenceSource, memory, copy, coverage, status, vector, refresh, chat, worker,
    lookup, events,
    settings, setupConsent, place, broken, setupJournal, latest, setup, setupCommand,
    setupChanges, setupStops,
    text, config, artifacts, service, package, approved, installJournal, snapshots,
    installCommand, blemish, installTroubles,
    openTurnSource, graced, openTurnConsent, openTurnBarred, openTurnStored,
    openTurnCursor, openTurnRow, epoch, news, due, timer, openTurnScan, told,
    openTurnTroubles

L == INSTANCE Lifecycle WITH at <- lifecycleAt, file <- lifecycleFile, authority <-
     lifecycleAuthority
A == INSTANCE Archive WITH at <- archiveAt, changes <- archiveChanges, Chats <-
     ArchiveChats, MaxChanges <- ArchiveMaxChanges
M == INSTANCE Migration WITH source <- migrationSource, stored <- migrationStored, stops
     <- migrationStops, MaxStops <- MigrationMaxStops, MaxWrites <- MigrationMaxWrites
S == INSTANCE Source WITH cursor <- sourceCursor
O == INSTANCE Opencode WITH barred <- opencodeBarred, cursor <- opencodeCursor, scan <-
     opencodeScan, stops <- opencodeStops, MaxWrites <- OpencodeMaxWrites, MaxStops <-
     OpencodeMaxStops
T == INSTANCE TaskState WITH source <- taskStateSource, consent <- taskStateConsent,
     barred <- taskStateBarred, MaxTurns <- TaskStateMaxTurns, MaxChanges <-
     TaskStateMaxChanges
R == INSTANCE Rules WITH row <- rulesRow, job <- rulesJob, changes <- rulesChanges,
     Chats <- RulesChats, MaxChanges <- RulesMaxChanges
P == INSTANCE Paranoid WITH authority <- paranoidAuthority, file <- paranoidFile, job <-
     paranoidJob, stops <- paranoidStops, Procs <- ParanoidProcs, MaxStops <-
     ParanoidMaxStops
E == INSTANCE Evidence WITH source <- evidenceSource
U == INSTANCE Setup WITH consent <- setupConsent, journal <- setupJournal, command <-
     setupCommand, changes <- setupChanges, stops <- setupStops, MaxChanges <-
     SetupMaxChanges, MaxStops <- SetupMaxStops
I == INSTANCE Install WITH journal <- installJournal, command <- installCommand,
     troubles <- installTroubles, MaxTroubles <- InstallMaxTroubles
N == INSTANCE OpenTurn WITH source <- openTurnSource, consent <- openTurnConsent, barred
     <- openTurnBarred, stored <- openTurnStored, cursor <- openTurnCursor, row <-
     openTurnRow, scan <- openTurnScan, troubles <- openTurnTroubles, MaxTurns <-
     OpenTurnMaxTurns, MaxChanges <- OpenTurnMaxChanges, MaxTroubles <-
     OpenTurnMaxTroubles

lifecycleVars ==
    <<alive, lifecycleAt, owner, torn, pen, baseline, deferred, prey, lifecycleFile,
      created, frames, conn, lifecycleAuthority, retired, manifest>>
archiveVars ==
    <<active, backup, staged, snapshot, preview, archiveAt, shut, archiveChanges>>
migrationVars ==
    <<stage, keySha, original, recorded, backupStage, canonical, sidecar, rollback,
      migrationSource, replacement, migrationStored, late, metadata, step, key, keys,
      migrationStops>>
sourceVars ==
    <<lines, explicit, running, prompted, attempts, sourceCursor, turns, replaced>>
opencodeVars ==
    <<rows, updated, v1, opencodeBarred, history, opencodeCursor, segment, pending,
      handoff, watermark, visited, opencodeScan, writes, opencodeStops>>
taskStateVars ==
    <<taskStateSource, retained, generation, taskStateConsent, decisions,
      taskStateBarred, checkout, request, issued, issuing, manifests, pass, delivery,
      delivered>>
rulesVars ==
    <<repos, shared, rulesRow, decision, rules, rulesJob, served, rulesChanges>>
paranoidVars ==
    <<paranoidAuthority, paranoidFile, paranoidJob, answer, closed, locks, ops,
      paranoidStops, earlier>>
evidenceVars ==
    <<evidenceSource, memory, copy, coverage, status, vector, refresh, chat, worker,
      lookup, events>>
setupVars ==
    <<settings, setupConsent, place, broken, setupJournal, latest, setup, setupCommand,
      setupChanges, setupStops>>
installVars ==
    <<text, config, artifacts, service, package, approved, installJournal, snapshots,
      installCommand, blemish, installTroubles>>
openTurnVars ==
    <<openTurnSource, graced, openTurnConsent, openTurnBarred, openTurnStored,
      openTurnCursor, openTurnRow, epoch, news, due, timer, openTurnScan, told,
      openTurnTroubles>>
vars == <<part, lifecycleVars, archiveVars, migrationVars, sourceVars, opencodeVars,
          taskStateVars, rulesVars, paranoidVars, evidenceVars,
          setupVars, installVars, openTurnVars>>

Parts == {"lifecycle", "archive", "migration", "source", "opencode", "taskState",
          "rules", "paranoid", "evidence", "setup", "install", "openTurn"}

\* The part that is followed starts anywhere it may, the others at one state.
Init ==
    /\ part \in Parts
    /\ L!LifecycleInit
    /\ part # "lifecycle" => lifecycleFile = 0
    /\ A!ArchiveInit
    /\ part # "archive" => {active.chats, active.vetoed, active.evicted, active.turns, backup.chats, backup.vetoed, backup.evicted, backup.turns} = {{}}
    /\ M!MigrationInit
    /\ S!SourceInit
    /\ part # "source" => ~explicit
    /\ O!OpencodeInit
    /\ part # "opencode" => Range(rows) = {<<>>}
    /\ T!TaskInit
    /\ R!RulesInit
    /\ part # "rules" => repos = {} /\ ~shared /\ rulesRow[<<1>>] = R!Absent /\ decision[<<1>>] = "approved"
    /\ P!ParanoidInit
    /\ part # "paranoid" => paranoidFile = P!NoFile /\ paranoidAuthority = P!Pristine
    /\ E!EvidenceInit
    /\ part # "evidence" => status = [state |-> "none", current |-> TRUE]
    /\ U!SetupInit
    /\ I!InstallInit
    /\ part # "install" => approved
    /\ N!OpenTurnInit
    /\ part # "openTurn" => openTurnSource.turn = 1 /\ openTurnConsent = "approved"

LifecycleSteps ==
    /\ part = "lifecycle" /\ L!LifecycleNext
    /\ UNCHANGED <<part, archiveVars, migrationVars, sourceVars, opencodeVars, taskStateVars,
                   rulesVars, paranoidVars, evidenceVars, setupVars,
                   installVars, openTurnVars>>

ArchiveSteps ==
    /\ part = "archive" /\ A!ArchiveNext
    /\ UNCHANGED <<part, lifecycleVars, migrationVars, sourceVars, opencodeVars,
                   taskStateVars, rulesVars, paranoidVars, evidenceVars,
                   setupVars, installVars, openTurnVars>>

MigrationSteps ==
    /\ part = "migration" /\ M!MigrationNext
    /\ UNCHANGED <<part, lifecycleVars, archiveVars, sourceVars, opencodeVars, taskStateVars,
                   rulesVars, paranoidVars, evidenceVars, setupVars,
                   installVars, openTurnVars>>

SourceSteps ==
    /\ part = "source" /\ S!SourceNext
    /\ UNCHANGED <<part, lifecycleVars, archiveVars, migrationVars, opencodeVars,
                   taskStateVars, rulesVars, paranoidVars, evidenceVars,
                   setupVars, installVars, openTurnVars>>

OpencodeSteps ==
    /\ part = "opencode" /\ O!OpencodeNext
    /\ UNCHANGED <<part, lifecycleVars, archiveVars, migrationVars, sourceVars,
                   taskStateVars, rulesVars, paranoidVars, evidenceVars,
                   setupVars, installVars, openTurnVars>>

TaskStateSteps ==
    /\ part = "taskState" /\ T!TaskNext
    /\ UNCHANGED <<part, lifecycleVars, archiveVars, migrationVars, sourceVars, opencodeVars,
                   rulesVars, paranoidVars, evidenceVars, setupVars,
                   installVars, openTurnVars>>

RulesSteps ==
    /\ part = "rules" /\ R!RulesNext
    /\ UNCHANGED <<part, lifecycleVars, archiveVars, migrationVars, sourceVars, opencodeVars,
                   taskStateVars, paranoidVars, evidenceVars, setupVars,
                   installVars, openTurnVars>>

ParanoidSteps ==
    /\ part = "paranoid" /\ P!ParanoidNext
    /\ UNCHANGED <<part, lifecycleVars, archiveVars, migrationVars, sourceVars, opencodeVars,
                   taskStateVars, rulesVars, evidenceVars, setupVars,
                   installVars, openTurnVars>>

EvidenceSteps ==
    /\ part = "evidence" /\ E!EvidenceNext
    /\ UNCHANGED <<part, lifecycleVars, archiveVars, migrationVars, sourceVars, opencodeVars,
                   taskStateVars, rulesVars, paranoidVars, setupVars,
                   installVars, openTurnVars>>

SetupSteps ==
    /\ part = "setup" /\ U!SetupNext
    /\ UNCHANGED <<part, lifecycleVars, archiveVars, migrationVars, sourceVars, opencodeVars,
                   taskStateVars, rulesVars, paranoidVars, evidenceVars,
                   installVars, openTurnVars>>

InstallSteps ==
    /\ part = "install" /\ I!InstallNext
    /\ UNCHANGED <<part, lifecycleVars, archiveVars, migrationVars, sourceVars, opencodeVars,
                   taskStateVars, rulesVars, paranoidVars, evidenceVars,
                   setupVars, openTurnVars>>

OpenTurnSteps ==
    /\ part = "openTurn" /\ N!OpenTurnNext
    /\ UNCHANGED <<part, lifecycleVars, archiveVars, migrationVars, sourceVars, opencodeVars,
                   taskStateVars, rulesVars, paranoidVars, evidenceVars,
                   setupVars, installVars>>

Next ==
    \/ LifecycleSteps
    \/ ArchiveSteps
    \/ MigrationSteps
    \/ SourceSteps
    \/ OpencodeSteps
    \/ TaskStateSteps
    \/ RulesSteps
    \/ ParanoidSteps
    \/ EvidenceSteps
    \/ SetupSteps
    \/ InstallSteps
    \/ OpenTurnSteps

Spec ==
    /\ Init /\ [][Next]_vars
    /\ WF_migrationVars(part = "migration" /\ M!MigrationStep)
    /\ WF_migrationVars(part = "migration" /\ M!MigrationRecovers)

ExclusiveMeansAlone      == part = "lifecycle" => L!ExclusiveMeansAlone
NoCommitIsLost           == L!NoCommitIsLost
OpenMeansWhole           == part = "archive" => A!OpenMeansWhole
DecisionsSurvive         == A!DecisionsSurvive
ImportsOnlyGranted       == A!ImportsOnlyGranted
EncryptedIsReadable      == part = "migration" => M!EncryptedIsReadable
FinishedIsWhole          == part = "migration" => M!FinishedIsWhole
MigrationEnds            == part = "migration" => M!MigrationEnds
ResumingIsInvisible      == part = "source" => S!ResumingIsInvisible
AnswersAreWithheld       == part = "source" => S!AnswersAreWithheld
TurnsAreOfOneFile        == part = "source" => S!TurnsAreOfOneFile
CapturedInOrder          == part = "opencode" => O!CapturedInOrder
NothingForgotten         == part = "opencode" => O!NothingForgotten
OneReportPerRequest      == part = "taskState" => T!OneReportPerRequest
RegrantRevivesNothing    == part = "taskState" => T!RegrantRevivesNothing
CurrentMeansLatest       == T!CurrentMeansLatest
ServedInPlace            == R!ServedInPlace
WrittenWithinBounds      == R!WrittenWithinBounds
ServedWhileOpen          == P!ServedWhileOpen
ServesCurrentText        == part = "evidence" => E!ServesCurrentText
VectorsDescribeTurns     == part = "evidence" => E!VectorsDescribeTurns
AllOrNothing             == part = "setup" => U!AllOrNothing
CommitsWhatWasReviewed   == U!CommitsWhatWasReviewed
NoHalfInstall            == part = "install" => I!NoHalfInstall
SnapshotIsOfTheTurn      == part = "openTurn" => N!SnapshotIsOfTheTurn
FailedTurnIsNotForgotten == part = "openTurn" => N!FailedTurnIsNotForgotten
=============================================================================
