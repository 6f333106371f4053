-------------------------------- MODULE Install --------------------------------
(* Registering with the coding tools and running the capture service            *)
(* (install/installer.ts, install/config-file.ts, install/integrations.ts,      *)
(* install/service-backend.ts with its launchd and systemd backends,            *)
(* install/self-update.ts, cli/commands/install.ts, cli/capture-service.ts).    *)
(* The tools' configuration is the user's, with Elepha's entry in each file;    *)
(* several files, two service artifacts and the service change together, and a  *)
(* journal lets a later command finish what was interrupted.                    *)
EXTENDS Naturals

CONSTANTS
    Files,      \* configuration files of the tools that are present, numbered in their order
    MaxUpdates, \* bound: new versions of the package
    MaxTroubles \* bound: what fails, is killed, edited, decided, paused or resumed

VARIABLES
    text,      \* file -> [edit, own]: the user's last edit; it has a server named elepha
    config,    \* file -> [text, entry]: the edit it contains, the version of Elepha's entry
    artifacts, \* [launcher, manifest]: the version of each, 0 for none
    service,   \* [loaded, disabled]
    package,   \* the installed version
    approved,  \* some root is approved
    journal,   \* rollback journal of install and uninstall
    snapshots, \* file -> what it was before install, and what install wrote
    command,   \* the command that runs
    blemish,   \* "now" or "before": an uninstall met a failure, and none has made up for it
    troubles

filesVars   == <<config, artifacts>>
userVars    == <<text, approved>>
installVars == <<filesVars, userVars, service, package, journal, snapshots, command, blemish, troubles>>

None      == [kind |-> "none"]
NoCommand == [kind |-> "none", step |-> "none", todo |-> {}, plan |-> <<>>, was |-> <<>>,
              prior |-> [loaded |-> FALSE, disabled |-> FALSE], counted |-> FALSE, from |-> 0]

InstallInit ==
    /\ text = [f \in Files |-> [edit |-> 0, own |-> FALSE]]
    /\ config = [f \in Files |-> [text |-> text[f], entry |-> 0]]
    /\ artifacts = [launcher |-> 0, manifest |-> 0]
    /\ service = [loaded |-> FALSE, disabled |-> FALSE]
    /\ package = 1 /\ approved \in BOOLEAN
    /\ journal = None /\ snapshots = [f \in Files |-> None]
    /\ command = NoCommand /\ blemish = "none"
    /\ troubles = 0

----------------------------------------------------------------------------
\* What the steps are made of.

At(kind, step)  == command.kind = kind /\ command.step = step
Goes(step)      == command' = [command EXCEPT !.step = step]
GoesOver(step, files) == command' = [command EXCEPT !.step = step, !.todo = files]
Ends            == command' = NoCommand
Disturbed       == troubles < MaxTroubles /\ troubles' = troubles + 1
Works           == UNCHANGED troubles

Stopped(s)  == [s EXCEPT !.loaded = FALSE]
Disabled(s) == [s EXCEPT !.disabled = TRUE]
Running     == [loaded |-> TRUE, disabled |-> FALSE]

IsInstalled   == artifacts.manifest # 0 /\ artifacts.launcher = artifacts.manifest
Modified      == artifacts.manifest # 0 /\ artifacts.launcher \notin {0, artifacts.manifest}
UpToDate      == IsInstalled /\ artifacts.manifest = package

\* reconcileCaptureService: the service follows the consent that was counted.
Reconciled(counted) ==
    IF ~IsInstalled THEN service ELSE IF counted THEN Running ELSE Disabled(Stopped(service))

Snapshot == [kind |-> "journal", config |-> config, artifacts |-> artifacts, service |-> service,
             unknown |-> FALSE]

\* systemctl may not tell.
UnknownService == [Snapshot EXCEPT !.unknown = TRUE]

\* applyConfigTransaction writes the files of a plan that differ.
Differing(plan) == {f \in DOMAIN plan : plan[f] # config[f]}

IsNext(f) == f \in command.todo /\ \A g \in command.todo : f <= g

WritesFile(f) ==
    /\ IsNext(f) /\ config' = [config EXCEPT ![f] = command.plan[f]]
    /\ command' = [command EXCEPT !.todo = @ \ {f}]

\* Transforming a document touches Elepha's entry only.
WithEntry(f, version) == [config[f] EXCEPT !.entry = version]

Registered(f) == WithEntry(f, package)
Removed(f)    == WithEntry(f, 0)
Owned(f)      == config[f].entry # 0

\* A server of that name which is the user's is neither replaced nor removed.
Foreign(f) == config[f].text.own
Conflicts  == \E f \in Files : Foreign(f)

----------------------------------------------------------------------------
\* elepha install.  The service is stopped first, then the database is migrated
\* and the approved roots are counted.

StartsInstall ==
    /\ command = NoCommand
    /\ \E step \in {"stopped", "failed"} :
          /\ command' = [NoCommand EXCEPT !.kind = "install", !.step = step, !.prior = service]
          /\ IF step = "stopped" THEN Works /\ service' = Stopped(service) ELSE Disturbed /\ UNCHANGED service
    /\ UNCHANGED <<filesVars, userVars, package, journal, snapshots, blemish>>

CountsApproved ==
    /\ At("install", "stopped")
    /\ \/ Works /\ command' = [command EXCEPT !.step = "counted", !.counted = approved]
       \/ Disturbed /\ Goes("failed")
    /\ UNCHANGED <<filesVars, userVars, service, package, journal, snapshots, blemish>>

\* A journal that is found is replayed before anything else.
ReplaysJournal ==
    /\ At("install", "counted")
    /\ IF journal = None THEN Goes("recovered") ELSE GoesOver("replaying", Files)
    /\ UNCHANGED <<filesVars, userVars, troubles, service, package, journal, snapshots, blemish>>

Restoring == command.kind = "install" /\ command.step \in {"replaying", "compensating"}

\* Mutant of RestoresFile: a file that cannot be restored is passed over.
RestoresOthers(f) ==
    /\ Restoring /\ IsNext(f)
    /\ command' = [command EXCEPT !.todo = @ \ {f}]
    /\ (Works /\ config' = [config EXCEPT ![f] = journal.config[f]]) \/ (Disturbed /\ UNCHANGED config)
    /\ UNCHANGED <<artifacts, userVars, service, package, journal, snapshots, blemish>>

\* The journal stays when a file cannot be restored.
RestoresFile(f) ==
    /\ Restoring /\ IsNext(f)
    /\ \/ /\ Works /\ command' = [command EXCEPT !.todo = @ \ {f}]
          /\ config' = [config EXCEPT ![f] = journal.config[f]]
       \/ Disturbed /\ Goes("failed") /\ UNCHANGED config
    /\ UNCHANGED <<artifacts, userVars, service, package, journal, snapshots, blemish>>

\* Restoring the service is an effort: what fails is a warning.  A journal that
\* cannot be removed is replayed again.
RestoredService ==
    IF journal.unknown THEN [loaded |-> FALSE, disabled |-> TRUE]
    ELSE IF journal.service.loaded THEN Running
    ELSE [loaded |-> FALSE, disabled |-> journal.service.disabled]

RestoresService ==
    /\ Restoring /\ command.todo = {}
    /\ artifacts' = journal.artifacts
    /\ \/ /\ Works /\ service' = RestoredService /\ journal' = None
       \/ /\ Disturbed /\ service' = Stopped(service) /\ journal' = None
       \/ /\ Disturbed /\ service' = RestoredService /\ UNCHANGED journal
    /\ Goes(IF command.step = "replaying" /\ journal' = None THEN "recovered" ELSE "failed")
    /\ UNCHANGED <<config, userVars, package, snapshots, blemish>>

\* Every document is transformed, and the journal written, before any file is.
PlansInstall ==
    /\ At("install", "recovered")
    /\ \/ /\ ~Conflicts
          /\ (Works /\ journal' = Snapshot) \/ (Disturbed /\ journal' = UnknownService)
          /\ LET plan == [f \in Files |-> Registered(f)] IN
             command' = [command EXCEPT !.step = "writing", !.plan = plan, !.was = config,
                                        !.todo = Differing(plan)]
       \/ Conflicts /\ Works /\ Goes("failed") /\ UNCHANGED journal
       \/ ~Conflicts /\ Disturbed /\ Goes("failed") /\ journal' \in {None, Snapshot}
    /\ UNCHANGED <<filesVars, userVars, service, package, snapshots, blemish>>

Registers(f) ==
    /\ At("install", "writing") /\ WritesFile(f)
    /\ UNCHANGED <<artifacts, userVars, troubles, service, package, journal, snapshots, blemish>>

\* From here on whatever fails is compensated from the journal.
FailsToInstall ==
    /\ command.kind = "install" /\ command.step \in {"writing", "registered", "launching", "starting", "finishing"}
    /\ Disturbed /\ GoesOver("compensating", Files)
    /\ UNCHANGED <<filesVars, userVars, service, package, journal, snapshots, blemish>>

\* An artifact somebody modified is not overwritten.
ChecksArtifacts ==
    /\ At("install", "writing") /\ command.todo = {}
    /\ IF Modified THEN GoesOver("compensating", Files) /\ UNCHANGED service
       ELSE IF UpToDate THEN Goes("starting") /\ UNCHANGED service
       ELSE /\ Goes("registered")
            /\ service' = IF command.counted THEN Stopped(service) ELSE Disabled(Stopped(service))
    /\ UNCHANGED <<filesVars, userVars, troubles, package, journal, snapshots, blemish>>

WritesLauncher ==
    /\ At("install", "registered") /\ Goes("launching")
    /\ artifacts' = [artifacts EXCEPT !.launcher = package]
    /\ UNCHANGED <<config, userVars, troubles, service, package, journal, snapshots, blemish>>

WritesManifest ==
    /\ At("install", "launching") /\ Goes("starting")
    /\ artifacts' = [artifacts EXCEPT !.manifest = package]
    /\ UNCHANGED <<config, userVars, troubles, service, package, journal, snapshots, blemish>>

Starts ==
    /\ At("install", "starting") /\ GoesOver("finishing", Differing(command.was))
    /\ service' = Reconciled(command.counted)
    /\ UNCHANGED <<filesVars, userVars, troubles, package, journal, snapshots, blemish>>

\* rememberInstallSnapshots keeps the bytes from before, for uninstall.
Remembers(f) ==
    /\ At("install", "finishing") /\ IsNext(f)
    /\ snapshots' = [snapshots EXCEPT ![f] = [kind |-> "snapshot", original |-> command.was[f],
                                              installed |-> command.plan[f]]]
    /\ command' = [command EXCEPT !.todo = @ \ {f}]
    /\ UNCHANGED <<filesVars, userVars, troubles, service, package, journal, blemish>>

FinishesInstall ==
    /\ At("install", "finishing") /\ command.todo = {}
    /\ journal' = None /\ blemish' = "none" /\ Ends
    /\ UNCHANGED <<filesVars, userVars, troubles, service, package, snapshots>>

\* runInstall puts the service back to what it was before it stopped it.
GivesUpInstall ==
    /\ At("install", "failed") /\ Ends
    /\ \/ Works /\ service' = IF command.prior.disabled THEN Disabled(Stopped(service))
                              ELSE [loaded |-> command.prior.loaded, disabled |-> FALSE]
       \/ Disturbed /\ service' = Stopped(service)
    /\ UNCHANGED <<filesVars, userVars, package, journal, snapshots, blemish>>

----------------------------------------------------------------------------
\* elepha uninstall goes on past every failure and reports it.

Blemishes == Disturbed /\ blemish' = "now"
Cleanly   == Works /\ UNCHANGED blemish

StartsUninstall ==
    /\ command = NoCommand
    /\ command' = [NoCommand EXCEPT !.kind = "uninstall", !.step = "recovering",
                                    !.todo = IF journal = None THEN {} ELSE Files]
    /\ blemish' = (IF blemish = "none" THEN "none" ELSE "before")
    /\ UNCHANGED <<filesVars, userVars, troubles, service, package, journal, snapshots>>

RecoversFile(f) ==
    /\ At("uninstall", "recovering") /\ IsNext(f)
    /\ command' = [command EXCEPT !.todo = @ \ {f}]
    /\ \/ Cleanly /\ config' = [config EXCEPT ![f] = journal.config[f]]
       \/ Blemishes /\ UNCHANGED config
    /\ UNCHANGED <<artifacts, userVars, service, package, journal, snapshots>>

DropsJournal ==
    /\ At("uninstall", "recovering") /\ command.todo = {} /\ Goes("planning")
    /\ \/ Cleanly /\ journal' = None
       \/ Blemishes /\ journal # None /\ UNCHANGED journal
    /\ artifacts' = IF journal = None THEN artifacts ELSE journal.artifacts
    /\ UNCHANGED <<config, userVars, service, package, snapshots>>

\* The exact bytes come back only if nobody changed the file since install.
HasSnapshot(f) == snapshots[f] # None
Untouched(f)   == HasSnapshot(f) /\ snapshots[f].installed = config[f]

Cleaned(f) ==
    IF Untouched(f) THEN [snapshots[f].original EXCEPT !.entry = 0] ELSE Removed(f)

PlansUninstall ==
    /\ At("uninstall", "planning")
    /\ LET plan == [f \in {g \in Files : ~Foreign(g)} |-> Cleaned(f)] IN
       command' = [command EXCEPT !.step = "stopping", !.plan = plan, !.todo = DOMAIN plan]
    /\ \/ Works /\ journal' = Snapshot /\ blemish' = (IF Conflicts THEN "now" ELSE blemish)
       \/ Blemishes /\ journal' \in {journal, Snapshot}
    /\ UNCHANGED <<filesVars, userVars, service, package, snapshots>>

StopsService ==
    /\ At("uninstall", "stopping") /\ Goes("cleaning")
    /\ \/ Cleanly /\ service' = Disabled(Stopped(service))
       \/ Blemishes /\ service' \in {Stopped(service), Disabled(service)}
    /\ UNCHANGED <<filesVars, userVars, package, journal, snapshots>>

Cleans(f) ==
    /\ At("uninstall", "cleaning") /\ IsNext(f)
    /\ \/ Cleanly /\ WritesFile(f) /\ snapshots' = [snapshots EXCEPT ![f] = None]
       \/ Blemishes /\ command' = [command EXCEPT !.todo = @ \ {f}] /\ UNCHANGED <<config, snapshots>>
    /\ UNCHANGED <<artifacts, userVars, service, package, journal>>

RemovesArtifacts ==
    /\ At("uninstall", "cleaning") /\ command.todo = {} /\ Goes("removed")
    /\ \/ Cleanly /\ artifacts' = [launcher |-> 0, manifest |-> 0]
       \/ Blemishes /\ artifacts' \in {[artifacts EXCEPT !.launcher = 0], [artifacts EXCEPT !.manifest = 0]}
    /\ UNCHANGED <<config, userVars, service, package, journal, snapshots>>

\* A partial teardown is never replayed.
FinishesUninstall ==
    /\ At("uninstall", "removed") /\ Ends
    /\ \/ Works /\ journal' = None /\ blemish' = (IF blemish = "before" THEN "none" ELSE blemish)
       \/ Blemishes /\ journal # None /\ UNCHANGED journal
    /\ UNCHANGED <<filesVars, userVars, service, package, snapshots>>

----------------------------------------------------------------------------
\* elepha update has no journal.  It refreshes entries that are there, and undoes
\* what it did when the service does not come back.

StartsUpdate ==
    /\ command = NoCommand /\ package < MaxUpdates + 1
    /\ package' = package + 1
    /\ LET plan == [f \in {g \in Files : Owned(g)} |-> WithEntry(f, package + 1)] IN
       command' = [NoCommand EXCEPT !.kind = "update", !.step = "refreshing", !.from = package,
                                    !.plan = plan, !.was = [f \in Differing(plan) |-> config[f]],
                                    !.todo = Differing(plan)]
    /\ UNCHANGED <<filesVars, userVars, troubles, service, journal, snapshots, blemish>>

Refreshes(f) ==
    /\ At("update", "refreshing") /\ WritesFile(f)
    /\ UNCHANGED <<artifacts, userVars, troubles, service, package, journal, snapshots, blemish>>

\* The transaction restores what it wrote.
FailsToRefresh ==
    /\ At("update", "refreshing") /\ Disturbed
    /\ config' = [f \in Files |-> IF f \in DOMAIN command.was THEN command.was[f] ELSE config[f]]
    /\ command' = [command EXCEPT !.step = "reverting", !.was = <<>>]
    /\ UNCHANGED <<artifacts, userVars, service, package, journal, snapshots, blemish>>

StopsForUpdate ==
    /\ \/ At("update", "refreshing") /\ command.todo = {} /\ Goes("restarting")
       \/ At("update", "reverted") /\ Goes("returning")
    /\ service' = Stopped(service)
    /\ UNCHANGED <<filesVars, userVars, troubles, package, journal, snapshots, blemish>>

Restarts ==
    /\ \/ At("update", "restarting") \/ At("update", "returning")
    /\ IsInstalled /\ service' = Reconciled(approved) /\ Ends
    /\ UNCHANGED <<filesVars, userVars, troubles, package, journal, snapshots, blemish>>

\* The migration or the health check fails, or the service is not installed.
FailsToRestart ==
    /\ \/ At("update", "restarting") /\ Goes("reverting")
       \/ At("update", "returning") /\ Ends
    /\ Disturbed \/ (~IsInstalled /\ Works)
    /\ UNCHANGED <<filesVars, userVars, service, package, journal, snapshots, blemish>>

RevertsPackage ==
    /\ At("update", "reverting")
    /\ \/ Works /\ package' = command.from /\ Goes("restoring")
       \/ Disturbed /\ Ends /\ UNCHANGED package
    /\ UNCHANGED <<filesVars, userVars, service, journal, snapshots, blemish>>

\* An edit made meanwhile is not overwritten.
Unedited == \A f \in DOMAIN command.was : config[f] = command.plan[f]

RestoresRefreshed ==
    /\ At("update", "restoring")
    /\ IF Unedited
       THEN /\ Goes("reverted")
            /\ config' = [f \in Files |-> IF f \in DOMAIN command.was THEN command.was[f] ELSE config[f]]
       ELSE Ends /\ UNCHANGED config
    /\ UNCHANGED <<artifacts, userVars, troubles, service, package, journal, snapshots, blemish>>

----------------------------------------------------------------------------
\* The user, other commands, and the machine.

\* While install or uninstall is under way, or left a journal, the files are not
\* edited: what the journal holds would replace the edit.
MayEdit == journal = None /\ (command = NoCommand \/ command.step \in {"restarting", "reverting", "returning"})

Edits(f, own) ==
    /\ MayEdit /\ Disturbed /\ (text[f].own => own)
    /\ text' = [text EXCEPT ![f] = [edit |-> @.edit + 1, own |-> own]]
    /\ config' = [config EXCEPT ![f] = [text |-> text'[f], entry |-> IF own THEN 0 ELSE @.entry]]
    /\ UNCHANGED <<artifacts, approved, service, package, journal, snapshots, command, blemish>>

\* elepha consent: the service follows.
DecidesConsent ==
    /\ Disturbed
    /\ approved' = ~approved /\ service' = Reconciled(~approved)
    /\ UNCHANGED <<text, filesVars, package, journal, snapshots, command, blemish>>

PausesCapture ==
    /\ IsInstalled /\ (service.loaded \/ ~service.disabled) /\ Disturbed
    /\ service' = Disabled(Stopped(service))
    /\ UNCHANGED <<text, approved, filesVars, package, journal, snapshots, command, blemish>>

ResumesCapture ==
    /\ IsInstalled /\ service # Running /\ service' = Running /\ Disturbed
    /\ UNCHANGED <<text, approved, filesVars, package, journal, snapshots, command, blemish>>

ModifiesLauncher ==
    /\ artifacts.launcher # 0 /\ Disturbed
    /\ artifacts' = [artifacts EXCEPT !.launcher = MaxUpdates + 2]
    /\ UNCHANGED <<config, userVars, service, package, journal, snapshots, command, blemish>>

IsKilled ==
    /\ command # NoCommand /\ Ends /\ Disturbed
    /\ UNCHANGED <<filesVars, userVars, service, package, journal, snapshots, blemish>>

InstallNext ==
    \/ StartsInstall \/ CountsApproved \/ ReplaysJournal \/ RestoresService \/ PlansInstall
    \/ FailsToInstall \/ ChecksArtifacts \/ WritesLauncher \/ WritesManifest \/ Starts
    \/ FinishesInstall \/ GivesUpInstall
    \/ StartsUninstall \/ DropsJournal \/ PlansUninstall \/ StopsService \/ RemovesArtifacts
    \/ FinishesUninstall
    \/ StartsUpdate \/ FailsToRefresh \/ StopsForUpdate \/ Restarts \/ FailsToRestart
    \/ RevertsPackage \/ RestoresRefreshed
    \/ \E f \in Files :
          \/ RestoresFile(f) \/ Registers(f) \/ Remembers(f)
          \/ RecoversFile(f) \/ Cleans(f) \/ Refreshes(f)
          \/ \E own \in BOOLEAN : Edits(f, own)
    \/ DecidesConsent \/ PausesCapture \/ ResumesCapture \/ ModifiesLauncher \/ IsKilled

----------------------------------------------------------------------------

\* No command loses an edit of the user, and what is left by commands that were
\* interrupted, failed and resumed is an entry in every tool or in none, with a
\* journal, or a failure that uninstall reported, otherwise (installer.ts:202, :455).
NoHalfInstall ==
    /\ \A f \in Files : config[f].text = text[f]
    /\ (command = NoCommand /\ journal = None /\ blemish = "none") =>
          \A f, g \in {h \in Files : ~Foreign(h)} : (config[f].entry = 0) = (config[g].entry = 0)
=============================================================================
