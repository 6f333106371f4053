----------------------------- MODULE PartsProofs -----------------------------
(* The runs check the components around capture together, as parts of MCParts. *)
(* Here their properties are proved of the whole, for all constants.  Archive, *)
(* Migration, TaskState, Evidence, Rules, Paranoid and Lifecycle have their    *)
(* inductive invariants here; Setup and Install, and what carries over of the  *)
(* open turn and of transcripts, are in ToolFilesProofs, Opencode in           *)
(* OpencodeProofs.                                                             *)
EXTENDS MCParts, Integers, Sequences, FiniteSets, FiniteSetTheorems, SetLemmas, TLAPS

------------------------------------------------------------------------------
\* What a restore and an import may never do to the decisions of the user (Archive).
Database == [granted : SUBSET ArchiveChats, vetoed : SUBSET ArchiveChats,
             evicted : SUBSET ArchiveChats, chats : SUBSET ArchiveChats,
             turns : SUBSET ArchiveChats, whole : BOOLEAN]

ArchiveTypes ==
    /\ active \in Database /\ backup \in Database
    /\ staged \in Database /\ snapshot \in Database
    /\ archiveChanges \in Nat

\* Nothing vetoed or given up has durable turns.
Clean(d) == d.turns \intersect (d.vetoed \union d.evicted) = {}

\* d keeps what was decided in the database.
Keeps(d) ==
    /\ d.granted = active.granted
    /\ active.vetoed \subseteq d.vetoed /\ active.evicted \subseteq d.evicted

\* From the second look on nobody else writes, so what the copy took over is
\* still what was decided when it is installed; the snapshot is of a clean
\* database; and what was vetoed in either is gone from the copy.
RestoreInv ==
    /\ archiveAt = "rechecked" => preview.controls = A!Controls(active)
    /\ archiveAt \in {"overlaid", "snapshotted", "replacing"} => Keeps(staged) /\ Clean(staged)
    /\ archiveAt \in {"snapshotted", "replacing", "installed", "failed"} =>
          snapshot.whole /\ Clean(snapshot)
    /\ archiveAt = "installed" => Clean(active)
    /\ archiveAt \notin {"installed", "failed"} /\ ~shut => active.whole /\ Clean(active)
    /\ shut => archiveAt = "idle"

ArchiveInv == ArchiveTypes /\ RestoreInv

LEMMA ArchiveStarts == A!ArchiveInit => ArchiveInv
<1> SUFFICES ASSUME A!ArchiveInit
             PROVE  ArchiveInv
  OBVIOUS
<1>1. /\ active \in A!Databases /\ backup \in A!Databases
      /\ staged = backup /\ snapshot = active
      /\ archiveAt = "idle" /\ shut = FALSE /\ archiveChanges = 0
  BY DEF A!ArchiveInit
<1>2. \A d \in A!Databases : d \in Database /\ d.whole /\ Clean(d)
  BY DEF A!Databases, Database, Clean
<1>3. ArchiveTypes
  BY <1>1, <1>2 DEF ArchiveTypes
<1>4. RestoreInv
  BY <1>1, <1>2 DEF RestoreInv
<1> QED  BY <1>3, <1>4 DEF ArchiveInv

\* A decision of another process leaves no turns of what it vetoes or gives up.
LEMMA DecisionIsClean ==
    ASSUME ArchiveInv, A!Decides
    PROVE  /\ ~A!Locked /\ ~shut /\ archiveChanges' = archiveChanges + 1
           /\ UNCHANGED <<backup, staged, snapshot, preview, archiveAt, shut>>
           /\ active' \in Database /\ active'.whole /\ Clean(active')
<1>1. active \in Database
  BY DEF ArchiveInv, ArchiveTypes
<1>2. PICK c \in ArchiveChats :
        \/ A!Changes([active EXCEPT !.granted = IF c \in @ THEN @ \ {c} ELSE @ \union {c}])
        \/ A!Changes([active EXCEPT !.vetoed = @ \union {c}, !.chats = @ \ {c},
                                  !.turns = @ \ {c}, !.evicted = @ \ {c}])
        \/ c \in active.chats
             /\ A!Changes([active EXCEPT !.evicted = @ \union {c}, !.turns = @ \ {c}])
        \/ c \in active.granted \ active.vetoed
             /\ A!Changes([active EXCEPT !.chats = @ \union {c},
                                       !.turns = IF c \in active.evicted THEN @ ELSE @ \union {c}])
  BY DEF A!Decides
<1>3. /\ ~A!Locked /\ ~shut /\ archiveChanges' = archiveChanges + 1
      /\ UNCHANGED <<backup, staged, snapshot, preview, archiveAt, shut>>
  BY <1>2 DEF A!Changes
<1>4. active.whole /\ Clean(active)
  BY <1>3 DEF ArchiveInv, RestoreInv, A!Locked
<1>5. CASE active' = [active EXCEPT !.granted = IF c \in @ THEN @ \ {c} ELSE @ \union {c}]
  BY <1>1, <1>3, <1>4, <1>5 DEF Database, Clean
<1>6. CASE active' = [active EXCEPT !.vetoed = @ \union {c}, !.chats = @ \ {c},
                                    !.turns = @ \ {c}, !.evicted = @ \ {c}]
  BY <1>1, <1>3, <1>4, <1>6 DEF Database, Clean
<1>7. CASE active' = [active EXCEPT !.evicted = @ \union {c}, !.turns = @ \ {c}]
  BY <1>1, <1>3, <1>4, <1>7 DEF Database, Clean
<1>8. CASE /\ c \in active.granted \ active.vetoed
           /\ active' = [active EXCEPT !.chats = @ \union {c},
                                       !.turns = IF c \in active.evicted THEN @ ELSE @ \union {c}]
  BY <1>1, <1>3, <1>4, <1>8 DEF Database, Clean
<1> QED  BY <1>2, <1>5, <1>6, <1>7, <1>8 DEF A!Changes

\* What the copy becomes, once the decisions have not changed since the preview.
LEMMA OverlayKeeps ==
    ASSUME ArchiveTypes, preview.controls = A!Controls(active)
    PROVE  LET d == A!Overlaid(staged) IN d \in Database /\ Keeps(d) /\ Clean(d)
<1> DEFINE vetoed  == staged.vetoed \union active.vetoed
           evicted == staged.evicted \union active.evicted
           d == [staged EXCEPT !.granted = active.granted,
                    !.vetoed = vetoed, !.evicted = evicted,
                    !.chats = @ \union active.evicted,
                    !.turns = @ \ (vetoed \union evicted)]
<1>1. A!Overlaid(staged) = d
  BY DEF A!Overlaid, A!Controls
<1>2. staged \in Database /\ active \in Database
  BY DEF ArchiveTypes
<1>3. /\ d \in Database
      /\ d.granted = active.granted /\ d.vetoed = vetoed /\ d.evicted = evicted
      /\ d.turns = staged.turns \ (vetoed \union evicted)
  BY <1>2 DEF Database
<1> QED  BY <1>1, <1>3 DEF Keeps, Clean

LEMMA ArchiveKeepsTypes ==
    ASSUME ArchiveInv, [A!ArchiveNext]_(A!archiveVars)
    PROVE  ArchiveTypes'
<1>1. ArchiveTypes
  BY DEF ArchiveInv
<1>2. CASE A!Decides
  BY <1>1, <1>2, DecisionIsClean DEF ArchiveTypes
<1>3. CASE A!PreviewsRestore \/ A!TakesSnapshot \/ A!Installs \/ A!RollsBack
  BY <1>1, <1>3 DEF A!PreviewsRestore, A!TakesSnapshot, A!Installs, A!RollsBack, ArchiveTypes
<1>4. CASE A!OverlaysControls
  <2>1. A!Overlaid(staged) \in Database
    BY <1>4, OverlayKeeps DEF A!OverlaysControls, ArchiveInv, RestoreInv
  <2> QED  BY <1>1, <1>4, <2>1 DEF A!OverlaysControls, ArchiveTypes
<1>5. CASE A!DamagesStage
  BY <1>1, <1>5 DEF A!DamagesStage, ArchiveTypes, Database
<1>6. CASE A!Merges
  BY <1>1, <1>6 DEF A!Merges, A!StillAuthorised, ArchiveTypes, Database
<1>7. CASE A!Overwrites
  BY <1>1, <1>7 DEF A!Overwrites, A!StillAuthorised, ArchiveTypes, Database
<1>8. CASE UNCHANGED <<active, backup, staged, snapshot, archiveChanges>>
  BY <1>1, <1>8 DEF ArchiveTypes
<1> QED
  BY <1>2, <1>3, <1>4, <1>5, <1>6, <1>7, <1>8 DEF A!ArchiveNext, A!archiveVars,
     A!RechecksRestore, A!RefusesRestore, A!BeginsRestore, A!CompletesRestore,
     A!FailsInstalling, A!StaysShut, A!PlansImport, A!RefusesImport

LEMMA ArchiveKeepsRestore ==
    ASSUME ArchiveInv, [A!ArchiveNext]_(A!archiveVars)
    PROVE  RestoreInv'
<1>1. ArchiveTypes /\ RestoreInv
  BY DEF ArchiveInv
<1>2. CASE A!Decides
  BY <1>1, <1>2, DecisionIsClean DEF RestoreInv, A!Locked
<1>3. CASE A!PreviewsRestore \/ A!PlansImport \/ A!RefusesImport
  BY <1>1, <1>3 DEF A!PreviewsRestore, A!PlansImport, A!RefusesImport, RestoreInv, Clean
<1>4. CASE A!RechecksRestore \/ A!RefusesRestore
  BY <1>1, <1>4 DEF A!RechecksRestore, A!SameControls, A!RefusesRestore, RestoreInv, Clean,
     A!Controls
<1>5. CASE A!OverlaysControls
  <2>1. Keeps(A!Overlaid(staged)) /\ Clean(A!Overlaid(staged))
    BY <1>1, <1>5, OverlayKeeps DEF A!OverlaysControls, RestoreInv
  <2> QED  BY <1>1, <1>5, <2>1 DEF A!OverlaysControls, RestoreInv, Keeps, Clean
<1>6. CASE A!TakesSnapshot
  BY <1>1, <1>6 DEF A!TakesSnapshot, RestoreInv, Keeps, Clean
<1>7. CASE A!DamagesStage
  <2>1. /\ staged'.granted = staged.granted /\ staged'.vetoed = staged.vetoed
        /\ staged'.evicted = staged.evicted /\ staged'.turns = staged.turns
    BY <1>1, <1>7 DEF A!DamagesStage, ArchiveTypes, Database
  <2> QED  BY <1>1, <1>7, <2>1 DEF A!DamagesStage, RestoreInv, Keeps, Clean
<1>8. CASE A!BeginsRestore
  BY <1>1, <1>8 DEF A!BeginsRestore, RestoreInv, Keeps, Clean
<1>9. CASE A!Installs
  BY <1>1, <1>9 DEF A!Installs, RestoreInv, Clean
<1>10. CASE A!CompletesRestore
  BY <1>1, <1>10 DEF A!CompletesRestore, A!Installed, RestoreInv, Clean
<1>11. CASE A!FailsInstalling \/ A!StaysShut
  BY <1>1, <1>11 DEF A!FailsInstalling, A!StaysShut, RestoreInv, Clean
<1>12. CASE A!RollsBack
  BY <1>1, <1>12 DEF A!RollsBack, RestoreInv, Clean
<1>13. CASE A!Merges \/ A!Overwrites
  <2>1. /\ active'.vetoed = active.vetoed /\ active'.evicted = active.evicted
        /\ active'.whole = active.whole /\ active'.turns \subseteq active.turns
    BY <1>1, <1>13 DEF A!Merges, A!Overwrites, ArchiveTypes, Database
  <2> QED  BY <1>1, <1>13, <2>1 DEF A!Merges, A!Overwrites, RestoreInv, Clean
<1>14. CASE UNCHANGED A!archiveVars
  BY <1>1, <1>14 DEF A!archiveVars, RestoreInv, Keeps, Clean, A!Controls
<1> QED
  BY <1>2, <1>3, <1>4, <1>5, <1>6, <1>7, <1>8, <1>9, <1>10, <1>11, <1>12, <1>13, <1>14
     DEF A!ArchiveNext

LEMMA ArchiveStep == ArchiveInv /\ [A!ArchiveNext]_(A!archiveVars) => ArchiveInv'
BY ArchiveKeepsTypes, ArchiveKeepsRestore DEF ArchiveInv

LEMMA SurvivesStep ==
    ASSUME ArchiveInv, [A!ArchiveNext]_(A!archiveVars)
    PROVE  archiveChanges' = archiveChanges /\ archiveAt # "failed" =>
             /\ active.vetoed \subseteq active'.vetoed
             /\ active.evicted \subseteq active'.evicted
             /\ active.granted = active'.granted
<1>1. ArchiveTypes /\ RestoreInv
  BY DEF ArchiveInv
<1>2. CASE A!Decides
  <2>1. archiveChanges' # archiveChanges
    BY <1>1, <1>2, DecisionIsClean DEF ArchiveTypes
  <2> QED  BY <2>1
<1>3. CASE A!Installs
  BY <1>1, <1>3 DEF A!Installs, RestoreInv, Keeps
<1>4. CASE A!RollsBack
  BY <1>4 DEF A!RollsBack
<1>5. CASE A!Merges \/ A!Overwrites
  BY <1>1, <1>5 DEF A!Merges, A!Overwrites, ArchiveTypes, Database
<1>6. CASE UNCHANGED active
  BY <1>6
<1> QED
  BY <1>2, <1>3, <1>4, <1>5, <1>6 DEF A!ArchiveNext, A!archiveVars, A!PreviewsRestore,
     A!RechecksRestore, A!RefusesRestore, A!OverlaysControls, A!TakesSnapshot,
     A!DamagesStage, A!BeginsRestore, A!CompletesRestore, A!FailsInstalling, A!StaysShut,
     A!PlansImport, A!RefusesImport

LEMMA AddsGranted ==
    ASSUME ArchiveInv, [A!ArchiveNext]_(A!archiveVars), archiveAt = "planned"
    PROVE  \/ active'.chats \ active.chats \subseteq active.granted \ active.vetoed
           \/ archiveChanges' # archiveChanges
<1>1. ArchiveTypes
  BY DEF ArchiveInv
<1>2. CASE A!Decides
  BY <1>1, <1>2, DecisionIsClean DEF ArchiveTypes
<1>3. CASE A!Merges \/ A!Overwrites
  <2>1. active'.chats = active.chats \union preview.new
    BY <1>1, <1>3 DEF A!Merges, A!Overwrites, ArchiveTypes, Database
  <2> QED  BY <1>3, <2>1 DEF A!Merges, A!Overwrites, A!StillAuthorised
<1>4. CASE UNCHANGED active
  BY <1>4
<1> QED
  BY <1>2, <1>3, <1>4
     DEF A!ArchiveNext, A!archiveVars, A!PreviewsRestore, A!RechecksRestore, A!RefusesRestore,
         A!OverlaysControls, A!TakesSnapshot, A!DamagesStage, A!BeginsRestore, A!Installs,
         A!CompletesRestore, A!FailsInstalling, A!RollsBack, A!StaysShut, A!PlansImport,
         A!RefusesImport

LEMMA ArchiveFollowed == [Next]_vars => [A!ArchiveNext]_(A!archiveVars)
BY DEF Next, vars, archiveVars, A!archiveVars, LifecycleSteps, ArchiveSteps, MigrationSteps,
   SourceSteps, OpencodeSteps, TaskStateSteps, RulesSteps, ParanoidSteps, EvidenceSteps,
   SetupSteps, InstallSteps, OpenTurnSteps

LEMMA ArchiveIsKept == ArchiveInv /\ [Next]_vars => ArchiveInv'
BY ArchiveFollowed, ArchiveStep

\* A database that can be opened outside a replacement is whole and holds no
\* durable turns of what was vetoed or given up, for any chats, any backup and any
\* history of failures (restore.ts: the snapshot is taken back, or the lease stays).
THEOREM OpenMeansWholeHolds == Spec => []OpenMeansWhole
<1>1. Init => ArchiveInv
  BY ArchiveStarts DEF Init
<1>2. ArchiveInv => OpenMeansWhole
  BY DEF ArchiveInv, RestoreInv, OpenMeansWhole, A!OpenMeansWhole, A!Locked, Clean
<1> QED  BY <1>1, <1>2, ArchiveIsKept, PTL DEF Spec

\* No restore and no import takes back a purge, an incognito chat or an eviction or
\* changes a consent (restore.ts: the controls shown are read again under the lease
\* and laid over the copy before it is installed).
THEOREM DecisionsSurviveHolds == Spec => DecisionsSurvive
<1>1. Init => ArchiveInv
  BY ArchiveStarts DEF Init
<1>2. ArchiveInv /\ [Next]_vars =>
        [archiveChanges' = archiveChanges /\ archiveAt # "failed" =>
           /\ active.vetoed \subseteq active'.vetoed
           /\ active.evicted \subseteq active'.evicted
           /\ active.granted = active'.granted]_(A!archiveVars)
  BY ArchiveFollowed, SurvivesStep
<1> QED  BY <1>1, <1>2, ArchiveIsKept, PTL DEF Spec, DecisionsSurvive, A!DecisionsSurvive

\* A chat that an import adds is granted and not vetoed at that moment, whatever was
\* decided while the user read the plan (import.ts: the transaction looks again).
THEOREM ImportsOnlyGrantedHolds == Spec => ImportsOnlyGranted
<1>1. Init => ArchiveInv
  BY ArchiveStarts DEF Init
<1>2. ArchiveInv /\ [Next]_vars =>
        [archiveAt = "planned" =>
           active'.chats \ active.chats \subseteq active.granted \ active.vetoed
           \/ archiveChanges' # archiveChanges]_(A!archiveVars)
  BY ArchiveFollowed, AddsGranted
<1> QED  BY <1>1, <1>2, ArchiveIsKept, PTL DEF Spec, ImportsOnlyGranted, A!ImportsOnlyGranted

------------------------------------------------------------------------------
\* The encryption of the database (Migration).
\* The stages before a key is known to be stored, and after.
Uncommitted == {"quiesced", "key_prepared", "sidecar_encrypted"}
Committed   == M!KeyCommitted \union {"verified"}

MigrationTypes ==
    /\ stage \in Uncommitted \union Committed \union {"none", "key_commitment_started"}
    /\ keySha \in Nat /\ migrationStored \in Nat /\ late \in Nat /\ keys \in Nat
    /\ canonical.key \in Int /\ sidecar.key \in Int /\ rollback.key \in Int
    /\ DOMAIN migrationSource = Backups /\ DOMAIN replacement = Backups
    /\ \A b \in Backups : migrationSource[b].key \in Int /\ replacement[b].key \in Int

Untouched ==
    /\ canonical.key = 0
    /\ \A b \in Backups : migrationSource[b].key = 0 /\ replacement[b] = M!Missing
NoCopies ==
    /\ sidecar = M!Missing /\ rollback = M!Missing
    /\ \A b \in Backups : replacement[b] = M!Missing

\* What the key store holds at each stage.
StoreInv ==
    /\ stage \in Uncommitted => migrationStored = 0 /\ late = 0
    /\ stage \in Committed => migrationStored = keySha /\ late = 0 /\ metadata
    /\ stage = "key_commitment_started" =>
          (migrationStored = 0 /\ late \in {0, keySha}) \/ (migrationStored = keySha /\ late = 0)
    /\ stage \in Committed \union {"key_commitment_started"} => keySha > 0
    /\ stage = "none" => late = 0

\* What may be encrypted at each stage, and with which key.
FilesInv ==
    /\ stage \in Uncommitted \union {"key_commitment_started"} => Untouched
    /\ stage \in Committed =>
          /\ canonical.key > 0 => canonical.key = keySha
          /\ \A b \in Backups : migrationSource[b].key > 0 => migrationSource[b].key = keySha
    /\ stage = "verified" =>
          canonical.key = keySha /\ \A b \in Backups : migrationSource[b].key = keySha
    /\ sidecar.key > 0 => sidecar.key = keySha
    /\ rollback.key > 0 => rollback.key = keySha
    /\ \A b \in Backups : replacement[b].key > 0 => replacement[b].key = keySha
    /\ stage = "none" =>
          /\ NoCopies
          /\ \A b \in Backups : migrationSource[b].key = canonical.key
          /\ canonical.key > 0 => canonical.key = migrationStored /\ metadata

\* Where a running process is, and that it holds the key of the manifest.
StepInv ==
    /\ step \in {"idle", "plain", "building", "committing", "storing", "reading",
                 "backups", "swapping", "swapped", "finalizing", "removing"}
    /\ step \in {"building", "committing", "storing", "reading", "backups", "swapping",
                 "swapped", "finalizing"} => key = keySha /\ keySha > 0
    /\ step # "idle" => stage # "none"
    /\ step = "building" =>
          stage = "key_prepared" \/ (migrationStored = keySha /\ late = 0 /\ stage # "verified")
    /\ step = "committing" => stage = "sidecar_encrypted"
    /\ step \in {"storing", "reading"} => stage = "key_commitment_started"
    /\ step = "storing" => migrationStored = 0 /\ late = 0
    /\ step \in {"backups", "swapping", "swapped"} => stage \in M!KeyCommitted
    /\ step = "finalizing" => stage = "verified"
    /\ step = "removing" => NoCopies /\ (stage = "sidecar_encrypted" \/ stage = "verified")

MigrationInv == MigrationTypes /\ StoreInv /\ FilesInv /\ StepInv


LEMMA MigrationBegins == M!MigrationInit => MigrationInv
BY DEF M!MigrationInit, MigrationInv, MigrationTypes, StoreInv, FilesInv, StepInv,
   Uncommitted, Committed, M!KeyCommitted, NoCopies, M!Missing, M!Plain

LEMMA MigrationStepKeeps ==
    ASSUME MigrationInv, [M!MigrationNext]_(M!migrationVars)
    PROVE  MigrationInv'
<1>0. MigrationTypes /\ StoreInv /\ FilesInv /\ StepInv
  BY DEF MigrationInv
<1> USE DEF MigrationTypes, StoreInv, FilesInv, StepInv, Uncommitted, Committed, M!KeyCommitted,
        Untouched, NoCopies, M!Missing, M!Partial, M!Plain, M!Sealed, M!Running, M!Enter,
        M!manifestVars, M!artifactVars, M!keyStoreVars, M!processVars
<1>1. CASE M!Starts
  BY <1>0, <1>1 DEF M!Starts, MigrationInv
<1>2. CASE M!RecoversPlain
  BY <1>0, <1>2 DEF M!RecoversPlain, MigrationInv
<1>3. CASE M!RecoversEncrypted
  \* An encrypted database has a committed key: before that all is plaintext.
  <2>1. stage \in Committed /\ canonical.key = keySha /\ keySha > 0 /\ key' = keySha
    BY <1>0, <1>3 DEF M!RecoversEncrypted
  <2>2. step' = IF stage = "verified" THEN "finalizing" ELSE "swapped"
    BY <1>3 DEF M!RecoversEncrypted
  <2>3. UNCHANGED <<M!manifestVars, M!artifactVars, M!keyStoreVars, keys, migrationStops>>
    BY <1>3 DEF M!RecoversEncrypted
  <2>4. StepInv'
    BY <1>0, <2>1, <2>2, <2>3
  <2> QED  BY <1>0, <2>3, <2>4 DEF MigrationInv
<1>4. CASE M!GeneratesKey
  BY <1>0, <1>4 DEF M!GeneratesKey, MigrationInv
<1>5. CASE M!TakesStoredKey
  BY <1>0, <1>5 DEF M!TakesStoredKey, MigrationInv
<1>6. CASE M!CleansUp
  BY <1>0, <1>6 DEF M!CleansUp, M!MayCleanUp, MigrationInv
<1>7. CASE M!StartsCopy
  BY <1>0, <1>7 DEF M!StartsCopy, MigrationInv
<1>8. CASE M!FinishesCopy
  BY <1>0, <1>8 DEF M!FinishesCopy, MigrationInv
<1>9. CASE M!RevalidatesNew
  BY <1>0, <1>9 DEF M!RevalidatesNew, M!Copied, MigrationInv
<1>10. CASE M!RevalidatesStored
  BY <1>0, <1>10 DEF M!RevalidatesStored, M!Copied, MigrationInv
<1>11. CASE M!StartsCommitment
  BY <1>0, <1>11 DEF M!StartsCommitment, MigrationInv
<1>12. CASE M!StoresKey
  BY <1>0, <1>12 DEF M!StoresKey, MigrationInv
<1>13. CASE M!StoresLate
  BY <1>0, <1>13 DEF M!StoresLate, MigrationInv
<1>14. CASE M!CommitsKey
  BY <1>0, <1>14 DEF M!CommitsKey, M!ReadBack, MigrationInv
<1>15. CASE M!ClosesPlaintext
  BY <1>0, <1>15 DEF M!ClosesPlaintext, M!BackupsEncrypted, MigrationInv
<1>16. CASE M!Swaps
  BY <1>0, <1>16 DEF M!Swaps, MigrationInv
<1>17. CASE M!SwapFails
  BY <1>0, <1>17 DEF M!SwapFails, MigrationInv
<1>18. CASE M!Verifies
  BY <1>0, <1>18 DEF M!Verifies, M!BackupsEncrypted, MigrationInv
<1>19. CASE M!RemovesArtifacts
  BY <1>0, <1>19 DEF M!RemovesArtifacts, MigrationInv
<1>20. CASE M!EndsMigration
  BY <1>0, <1>20 DEF M!EndsMigration, MigrationInv
<1>21. CASE M!Stops
  BY <1>0, <1>21 DEF M!Stops, MigrationInv
<1>22. CASE M!GivesUp
  BY <1>0, <1>22 DEF M!GivesUp, MigrationInv
<1>23. CASE M!WritesPlaintext
  BY <1>0, <1>23 DEF M!WritesPlaintext, MigrationInv
<1>24. CASE UNCHANGED M!migrationVars
  BY <1>0, <1>24 DEF M!migrationVars, MigrationInv
<1>25. ASSUME NEW b \in Backups, M!PreparesBackup(b)
      PROVE  MigrationInv'
  BY <1>0, <1>25 DEF M!PreparesBackup, MigrationInv
<1>26. ASSUME NEW b \in Backups, M!ReplacesBackup(b)
      PROVE  MigrationInv'
  BY <1>0, <1>26 DEF M!ReplacesBackup, MigrationInv
<1>27. ASSUME NEW b \in Backups, M!MarksBackup(b)
      PROVE  MigrationInv'
  BY <1>0, <1>27 DEF M!MarksBackup, MigrationInv
<1> QED
  BY <1>1, <1>2, <1>3, <1>4, <1>5, <1>6, <1>7, <1>8, <1>9, <1>10, <1>11, <1>12, <1>13,
     <1>14, <1>15, <1>16, <1>17, <1>18, <1>19, <1>20, <1>21, <1>22, <1>23, <1>24, <1>25,
     <1>26, <1>27 DEF M!MigrationNext, M!MigrationStep, M!MigrationRecovers

LEMMA MigrationFollowed == [Next]_vars => [M!MigrationNext]_(M!migrationVars)
BY DEF Next, vars, migrationVars, M!migrationVars, M!manifestVars, M!artifactVars,
   M!keyStoreVars, M!processVars, LifecycleSteps, ArchiveSteps, MigrationSteps, SourceSteps,
   OpencodeSteps, TaskStateSteps, RulesSteps, ParanoidSteps, EvidenceSteps, SetupSteps,
   InstallSteps, OpenTurnSteps

\* Whatever is encrypted can be read with the key in the key store, for any backups
\* and however often a migration is stopped (database-migration.ts: no file is
\* replaced before the key has been read back, and the key of the manifest is the
\* only one that is ever taken again).
THEOREM EncryptedIsReadableHolds == Spec => []EncryptedIsReadable
<1>1. Init => MigrationInv
  BY MigrationBegins DEF Init
<1>2. MigrationInv /\ [Next]_vars => MigrationInv'
  BY MigrationStepKeeps, MigrationFollowed
<1>3. MigrationInv => EncryptedIsReadable
  BY DEF MigrationInv, MigrationTypes, StoreInv, FilesInv, EncryptedIsReadable,
     M!EncryptedIsReadable, Uncommitted, Committed, Untouched
<1> QED  BY <1>1, <1>2, <1>3, PTL DEF Spec

\* Without a manifest nothing or everything is encrypted and no copy is left, for
\* any backups and any history of stops (database-migration.ts: the manifest is
\* removed last).
THEOREM FinishedIsWholeHolds == Spec => []FinishedIsWhole
<1>1. Init => MigrationInv
  BY MigrationBegins DEF Init
<1>2. MigrationInv /\ [Next]_vars => MigrationInv'
  BY MigrationStepKeeps, MigrationFollowed
<1>3. MigrationInv => FinishedIsWhole
  BY DEF MigrationInv, FilesInv, NoCopies, FinishedIsWhole, M!FinishedIsWhole
<1> QED  BY <1>1, <1>2, <1>3, PTL DEF Spec

------------------------------------------------------------------------------
\* A manifest that was verified or stored.
IsManifest(m) ==
    /\ m = [turn |-> m.turn, request |-> m.request, generation |-> m.generation,
            digests |-> m.digests, asked |-> m.asked, given |-> m.given]
    /\ m.request \in 1 .. issued

\* The row of a chat is its latest request.
RequestInv ==
    /\ issued \in Nat
    /\ request # T!None =>
          issued > 0 /\ request.id = issued /\ request.consumed \in BOOLEAN
    /\ request # T!None => request = [id |-> request.id, after |-> request.after,
          consumed |-> request.consumed, consent |-> request.consent,
          checkout |-> request.checkout, generation |-> request.generation]

\* A pass holds the request it answers; what it verified was asked for by it.
PassInv ==
    pass # T!None =>
        /\ pass = [turn |-> pass.turn, ver |-> pass.ver, request |-> pass.request,
                   manifest |-> pass.manifest]
        /\ pass.request \in 1 .. issued
        /\ pass.manifest # T!None =>
              /\ IsManifest(pass.manifest) /\ pass.manifest.request = pass.request
              /\ request # T!None /\ request.id = pass.request =>
                    request.consent = pass.manifest.asked

ManifestsInv ==
    /\ \A m \in manifests : IsManifest(m)
    /\ T!OneReportPerRequest
    /\ T!RegrantRevivesNothing

DeliveryInv ==
    delivery # T!None /\ delivery.current => delivery.manifest.turn = Len(delivery.chat.source)

TaskInv == RequestInv /\ PassInv /\ ManifestsInv /\ DeliveryInv

LEMMA TaskStarts == T!TaskInit => TaskInv
BY DEF T!TaskInit, TaskInv, RequestInv, PassInv, ManifestsInv, DeliveryInv,
   T!OneReportPerRequest, T!RegrantRevivesNothing

LEMMA RequestIssued ==
    ASSUME TaskInv, T!IssuesRequest
    PROVE  TaskInv'
<1>1. RequestInv /\ PassInv /\ ManifestsInv /\ DeliveryInv
  BY DEF TaskInv
<1>2. /\ issued \in Nat /\ issued' = issued + 1
      /\ UNCHANGED <<manifests, pass, delivery>>
      /\ request' = [id |-> issued + 1, after |-> Len(retained), consumed |-> FALSE,
                     consent |-> taskStateConsent, checkout |-> issuing.checkout,
                     generation |-> generation]
  BY <1>1 DEF T!IssuesRequest, RequestInv
<1>3. RequestInv'
  BY <1>2 DEF RequestInv
<1>4. ASSUME NEW m, IsManifest(m)
      PROVE  IsManifest(m)' /\ m.request # request'.id
  BY <1>2, <1>4 DEF IsManifest
<1>5. PassInv'
  BY <1>1, <1>2, <1>4 DEF PassInv
<1>6. ManifestsInv'
  BY <1>1, <1>2, <1>4 DEF ManifestsInv, T!OneReportPerRequest, T!RegrantRevivesNothing
<1>7. DeliveryInv'
  BY <1>1, <1>2 DEF DeliveryInv
<1> QED  BY <1>3, <1>5, <1>6, <1>7 DEF TaskInv

LEMMA ReportVerified ==
    ASSUME TaskInv, NEW quoted, T!VerifiesReport(quoted)
    PROVE  TaskInv'
<1>1. RequestInv /\ PassInv /\ ManifestsInv /\ DeliveryInv
  BY DEF TaskInv
<1>2. /\ pass # T!None /\ pass' = [pass EXCEPT !.manifest = T!Evidence(quoted)]
      /\ UNCHANGED <<request, issued, manifests, delivery>>
      /\ request.id = pass.request
  BY DEF T!VerifiesReport, T!Verifying, T!Answers
<1> DEFINE e == T!Evidence(quoted)
<1>3. e.request = pass.request /\ e.asked = request.consent /\ IsManifest(e)
  BY <1>1, <1>2 DEF T!Evidence, IsManifest, PassInv
<1>4. pass' = [turn |-> pass.turn, ver |-> pass.ver, request |-> pass.request, manifest |-> e]
  BY <1>1, <1>2 DEF PassInv
<1> HIDE DEF e
<1>5. PassInv'
  BY <1>1, <1>2, <1>3, <1>4 DEF PassInv, IsManifest
<1> QED
  BY <1>1, <1>2, <1>5 DEF TaskInv, RequestInv, ManifestsInv, DeliveryInv, IsManifest,
     T!OneReportPerRequest, T!RegrantRevivesNothing

\* The request that is consumed is the one the manifest answers, and no manifest
\* answers it yet.
LEMMA ManifestPublished ==
    ASSUME TaskInv, T!PublishesManifest
    PROVE  TaskInv'
<1>1. RequestInv /\ PassInv /\ ManifestsInv /\ DeliveryInv
  BY DEF TaskInv
<1> DEFINE s == [pass.manifest EXCEPT !.given = taskStateConsent]
<1>2. /\ pass # T!None /\ pass.manifest # T!None /\ pass' = T!None
      /\ request # T!None /\ request.id = pass.request /\ ~request.consumed
      /\ request.consent = taskStateConsent
      /\ manifests' = manifests \union {s}
      /\ request' = [request EXCEPT !.consumed = TRUE]
      /\ UNCHANGED <<issued, delivery>>
  BY DEF T!PublishesManifest, T!Answers, T!Stands, T!Stored, T!Consumed
<1>3. IsManifest(pass.manifest) /\ pass.manifest.request = request.id
      /\ pass.manifest.asked = taskStateConsent
  BY <1>1, <1>2 DEF PassInv
<1>4. IsManifest(s) /\ s.request = request.id /\ s.asked = s.given
  BY <1>3 DEF IsManifest
<1> HIDE DEF s
<1>5. request'.id = request.id /\ request'.consumed = TRUE
  BY <1>1, <1>2 DEF RequestInv
<1>6. RequestInv'
  BY <1>1, <1>2, <1>5 DEF RequestInv
<1>7. \A m \in manifests : m.request # request.id
  BY <1>1, <1>2 DEF ManifestsInv, T!OneReportPerRequest
<1>8. ManifestsInv'
  <2>1. \A m \in manifests' : IsManifest(m)'
    BY <1>1, <1>2, <1>4 DEF ManifestsInv, IsManifest
  <2>2. T!OneReportPerRequest'
    BY <1>1, <1>2, <1>4, <1>5, <1>7 DEF ManifestsInv, T!OneReportPerRequest
  <2>3. T!RegrantRevivesNothing'
    BY <1>1, <1>2, <1>4 DEF ManifestsInv, T!RegrantRevivesNothing
  <2> QED  BY <2>1, <2>2, <2>3 DEF ManifestsInv
<1>9. PassInv' /\ DeliveryInv'
  BY <1>1, <1>2 DEF PassInv, DeliveryInv
<1> QED  BY <1>6, <1>8, <1>9 DEF TaskInv

LEMMA TaskStepKeeps ==
    ASSUME TaskInv, [T!TaskNext]_(T!taskVars)
    PROVE  TaskInv'
<1>1. RequestInv /\ PassInv /\ ManifestsInv /\ DeliveryInv
  BY DEF TaskInv
\* Most steps leave requests and passes alone and may only drop manifests.
<1>2. ASSUME UNCHANGED <<request, issued, pass, delivery>>, manifests' \subseteq manifests
      PROVE  TaskInv'
  BY <1>1, <1>2 DEF TaskInv, RequestInv, PassInv, ManifestsInv, DeliveryInv, IsManifest,
     T!OneReportPerRequest, T!RegrantRevivesNothing
<1>3. ASSUME NEW r, T!TakesTurn(r) \/ T!ContinuesTurn(r)
      PROVE  TaskInv'
  BY <1>2, <1>3 DEF T!TakesTurn, T!ContinuesTurn, T!memoryVars
<1>4. ASSUME NEW i, T!Reingests(i) \/ T!Retracts(i)
      PROVE  TaskInv'
  BY <1>2, <1>4 DEF T!Reingests, T!Retracts
<1>5. CASE T!CapturesTurn \/ T!Revokes \/ T!Grants \/ T!SwapsCheckout
  BY <1>2, <1>5 DEF T!CapturesTurn, T!Revokes, T!Grants, T!SwapsCheckout, T!memoryVars
<1>6. CASE T!Bars \/ T!PreparesRequest \/ T!GivesUpRequest \/ T!CompletesTurn
  BY <1>2, <1>6 DEF T!Bars, T!PreparesRequest, T!GivesUpRequest, T!CompletesTurn, T!chatVars
<1>7. CASE T!IssuesRequest
  BY <1>7, RequestIssued
<1>8. CASE T!FindsReport
  <2>1. PICK i : pass' = [turn |-> i, ver |-> taskStateSource[i].ver, request |-> request.id,
                          manifest |-> T!None]
    BY <1>8 DEF T!FindsReport
  <2>2. UNCHANGED <<request, issued, manifests, delivery>> /\ request # T!None
    BY <1>8 DEF T!FindsReport, T!Pending
  <2> QED
    BY <1>1, <2>1, <2>2 DEF TaskInv, RequestInv, PassInv, ManifestsInv, DeliveryInv,
       IsManifest, T!OneReportPerRequest, T!RegrantRevivesNothing
<1>9. ASSUME NEW quoted, T!VerifiesReport(quoted)
      PROVE  TaskInv'
  BY <1>9, ReportVerified
<1>10. CASE T!PublishesManifest
  BY <1>10, ManifestPublished
<1>11. CASE T!GivesUpPass \/ T!DeliversManifest \/ T!GivesUpDelivery
  BY <1>1, <1>11 DEF T!GivesUpPass, T!DeliversManifest, T!GivesUpDelivery, T!memoryVars,
     TaskInv, RequestInv, PassInv, ManifestsInv, DeliveryInv, IsManifest,
     T!OneReportPerRequest, T!RegrantRevivesNothing
<1>12. CASE T!SelectsManifest
  <2>1. PICK m : delivery' = [manifest |-> m, chat |-> T!Chat, current |-> T!NothingFollows(m)]
    BY <1>12 DEF T!SelectsManifest
  <2>2. DeliveryInv'
    BY <2>1 DEF DeliveryInv, T!Chat, T!NothingFollows
  <2> QED
    BY <1>1, <1>12, <2>2 DEF T!SelectsManifest, T!memoryVars, TaskInv, RequestInv, PassInv,
       ManifestsInv, IsManifest, T!OneReportPerRequest, T!RegrantRevivesNothing
<1>13. CASE UNCHANGED T!taskVars
  BY <1>2, <1>13 DEF T!taskVars, T!memoryVars
<1> QED
  BY <1>3, <1>4, <1>5, <1>6, <1>7, <1>8, <1>9, <1>10, <1>11, <1>12, <1>13 DEF T!TaskNext

\* The part "taskState" takes the steps of TaskState and no others.
LEMMA TaskFollowed == [Next]_vars => [T!TaskNext]_(T!taskVars)
BY DEF Next, vars, taskStateVars, T!taskVars, T!chatVars, T!memoryVars, LifecycleSteps,
   ArchiveSteps, MigrationSteps, SourceSteps, OpencodeSteps, TaskStateSteps, RulesSteps,
   ParanoidSteps, EvidenceSteps, SetupSteps, InstallSteps, OpenTurnSteps

\* A request is answered by one manifest at most, and never while it is open, for any
\* number of turns and changes (task-state-requests.ts: the transaction that stores a
\* manifest consumes the request it answers).
THEOREM OneReportPerRequestHolds == Spec => []OneReportPerRequest
<1>1. Init => TaskInv
  BY TaskStarts DEF Init
<1>2. TaskInv /\ [Next]_vars => TaskInv'
  BY TaskFollowed, TaskStepKeeps
<1>3. TaskInv => OneReportPerRequest
  BY DEF TaskInv, ManifestsInv, OneReportPerRequest
<1> QED  BY <1>1, <1>2, <1>3, PTL DEF Spec

\* The consent under which a manifest is stored is the one its request was issued
\* under, whatever was withdrawn and given again in between (task-state-requests.ts:
\* a request stands only under the decision that approved it).
THEOREM RegrantRevivesNothingHolds == Spec => []RegrantRevivesNothing
<1>1. Init => TaskInv
  BY TaskStarts DEF Init
<1>2. TaskInv /\ [Next]_vars => TaskInv'
  BY TaskFollowed, TaskStepKeeps
<1>3. TaskInv => RegrantRevivesNothing
  BY DEF TaskInv, ManifestsInv, RegrantRevivesNothing
<1> QED  BY <1>1, <1>2, <1>3, PTL DEF Spec

\* What is delivered as the current task is the last thing the chat said, of turns
\* as they are retained (task-state-delivery.ts: the chat that was read and every
\* row the proof rests on are compared inside the injection's transaction).
THEOREM CurrentMeansLatestHolds == Spec => CurrentMeansLatest
<1> DEFINE Latest ==
             delivered' \notin {T!None, delivered} /\ delivered'.current =>
               /\ delivered'.manifest.turn = Len(taskStateSource)
               /\ delivered'.manifest \in manifests
               /\ \A i \in DOMAIN delivered'.manifest.digests :
                     retained[i] = delivered'.manifest.digests[i]
<1>1. Init => TaskInv
  BY TaskStarts DEF Init
<1>2. TaskInv /\ [Next]_vars => TaskInv'
  BY TaskFollowed, TaskStepKeeps
<1>3. ASSUME TaskInv, T!DeliversManifest
      PROVE  Latest
  <2>1. /\ delivery # T!None /\ delivery.chat = T!Chat
        /\ delivery.manifest \in manifests /\ T!SourcesCurrent(delivery.manifest)
        /\ delivered' = [manifest |-> delivery.manifest, current |-> delivery.current]
    BY <1>3 DEF T!DeliversManifest, T!StillSelected, T!ChatCurrent, T!Newest
  <2>2. delivery.current => delivery.manifest.turn = Len(taskStateSource)
    BY <1>3, <2>1 DEF TaskInv, DeliveryInv, T!Chat
  <2> QED  BY <2>1, <2>2 DEF T!SourcesCurrent
<1>4. ASSUME T!TaskNext, ~T!DeliversManifest
      PROVE  delivered' \in {delivered, T!None}
  BY <1>4 DEF T!TaskNext, T!TakesTurn, T!ContinuesTurn, T!CapturesTurn, T!Revokes, T!Grants,
     T!Bars, T!SwapsCheckout, T!Reingests, T!Retracts, T!PreparesRequest, T!IssuesRequest,
     T!GivesUpRequest, T!FindsReport, T!CompletesTurn, T!PublishesManifest, T!GivesUpPass,
     T!VerifiesReport, T!SelectsManifest, T!GivesUpDelivery
<1>5. TaskInv /\ [Next]_vars => [Latest]_(T!taskVars)
  BY <1>3, <1>4, TaskFollowed
<1> HIDE DEF Latest
<1>6. Spec => [][Latest]_(T!taskVars)
  BY <1>1, <1>2, <1>5, PTL DEF Spec
<1> QED  BY <1>6 DEF Latest, CurrentMeansLatest, T!CurrentMeansLatest

------------------------------------------------------------------------------
MemoryRows   == [version : Nat, reingested : BOOLEAN, older : BOOLEAN]
CopyRows     == [version : Int, clean : BOOLEAN, cut : BOOLEAN, current : BOOLEAN]
CoverageRows == [kind : {"none", "included", "truncated"}, digest : Nat, current : BOOLEAN]

EvidenceTypes ==
    /\ evidenceSource \in [E!Turns -> Nat \ {0}]
    /\ memory \in [E!Turns -> MemoryRows]
    /\ copy \in [E!Turns -> CopyRows]
    /\ coverage \in [E!Turns -> CoverageRows]
    /\ vector = [t \in E!Turns |-> vector[t]]
    /\ worker = [step |-> worker.step, part |-> worker.part, row |-> worker.row,
                 version |-> worker.version, clean |-> worker.clean,
                 epoch |-> worker.epoch, from |-> worker.from]
    /\ chat = [capture |-> chat.capture, consent |-> chat.consent, incognito |-> chat.incognito]
    /\ chat.incognito \in BOOLEAN

\* The copy of a turn that no reingest superseded is of the version in memory; only
\* a stored turn has any, and the chat none once it is incognito.
CopiesInv ==
    \A t \in E!Turns :
        /\ evidenceSource[t] >= memory[t].version
        /\ copy[t] # E!NoCopy /\ ~E!Superseded(memory[t], copy[t], coverage[t]) =>
              copy[t].version = memory[t].version
        /\ ~E!Stored(t) => copy[t] = E!NoCopy /\ ~E!Covered(t)
        /\ chat.incognito => copy[t] = E!NoCopy

\* While the worker waits for the model, the version it read stays the one in memory
\* until the turn is reingested, and its row is of a turn that was not.
WorkerInv ==
    worker.step \in {"read", "embedding"} =>
        /\ ~worker.row.reingested
        /\ worker.row.turn \in E!Turns /\ ~memory[worker.row.turn].reingested =>
              /\ E!Stored(worker.row.turn)
              /\ worker.version = memory[worker.row.turn].version

EvidenceInv == EvidenceTypes /\ CopiesInv /\ WorkerInv /\ E!VectorsDescribeTurns

LEMMA EvidenceStarts == E!EvidenceInit => EvidenceInv
<1> SUFFICES ASSUME E!EvidenceInit
             PROVE  EvidenceInv
  OBVIOUS
<1>1. PICK state \in {"none", "complete", "evicted"}, reingested, clean, current \in BOOLEAN :
          LET full   == state = "complete"
              old(x) == [t \in E!Turns |-> x]
              had    == [version |-> IF reingested THEN 0 ELSE 1, clean |-> clean, cut |-> FALSE, current |-> current]
              row    == [kind |-> "included", digest |-> had.version, current |-> current]
          IN /\ <<reingested, clean, current>> \in IF full THEN E!Legacy ELSE {<<FALSE, TRUE, TRUE>>}
             /\ status = [state |-> state, current |-> current]
             /\ memory = [old(E!Missing) EXCEPT ![1] =
                    IF state = "none" THEN E!Missing
                    ELSE [version |-> 1, reingested |-> reingested, older |-> reingested]]
             /\ copy = [old(E!NoCopy) EXCEPT ![1] = IF full THEN had ELSE E!NoCopy]
             /\ coverage = E!Reconciled(memory, copy, [old(E!NoCoverage) EXCEPT ![1] = row])
  BY DEF E!EvidenceInit
<1>2. /\ evidenceSource = [t \in E!Turns |-> 1]
      /\ vector = [t \in E!Turns |-> E!NoVector]
      /\ chat = [capture |-> TRUE, consent |-> TRUE, incognito |-> FALSE]
      /\ worker = E!Resting
  BY DEF E!EvidenceInit
<1> DEFINE had == [version |-> IF reingested THEN 0 ELSE 1, clean |-> clean, cut |-> FALSE,
                   current |-> current]
           row == [kind |-> "included", digest |-> had.version, current |-> current]
           m1  == IF state = "none" THEN E!Missing
                  ELSE [version |-> 1, reingested |-> reingested, older |-> reingested]
           c1  == IF state = "complete" THEN had ELSE E!NoCopy
           covering == [[t \in E!Turns |-> E!NoCoverage] EXCEPT ![1] = row]
<1>3. /\ memory = [[t \in E!Turns |-> E!Missing] EXCEPT ![1] = m1]
      /\ copy = [[t \in E!Turns |-> E!NoCopy] EXCEPT ![1] = c1]
      /\ coverage = E!Reconciled(memory, copy, covering)
  BY <1>1
<1>4. /\ m1 \in MemoryRows /\ E!Missing \in MemoryRows
      /\ c1 \in CopyRows /\ E!NoCopy \in CopyRows
      /\ row \in CoverageRows /\ E!NoCoverage \in CoverageRows
      /\ m1.version <= 1 /\ (m1.reingested => m1.older)
      /\ m1 = E!Missing => c1 = E!NoCopy
      /\ c1 # E!NoCopy /\ ~m1.reingested => c1.version = m1.version
  BY DEF MemoryRows, E!Missing, CopyRows, E!NoCopy, CoverageRows, E!NoCoverage
<1> HIDE DEF m1, c1, row
<1>5. /\ memory \in [E!Turns -> MemoryRows] /\ copy \in [E!Turns -> CopyRows]
      /\ coverage \in [E!Turns -> CoverageRows]
  <2>1. covering \in [E!Turns -> CoverageRows]
    BY <1>4
  <2> HIDE DEF covering
  <2>2. coverage \in [E!Turns -> CoverageRows]
    BY <1>3, <1>4, <2>1 DEF E!Reconciled
  <2> QED  BY <1>3, <1>4, <2>2
<1>6. EvidenceTypes
  BY <1>2, <1>5 DEF EvidenceTypes, E!Resting
<1>7. ASSUME NEW t \in E!Turns
      PROVE  /\ memory[t].version <= 1
             /\ copy[t] # E!NoCopy /\ ~memory[t].reingested => copy[t].version = memory[t].version
             /\ memory[t].reingested => memory[t].older
             /\ memory[t] = E!Missing => copy[t] = E!NoCopy
             /\ copy[t] = E!NoCopy => coverage[t] = E!NoCoverage
  <2>1. coverage[t] = IF copy[t] = E!NoCopy \/ (memory[t].reingested /\ memory[t].older)
                      THEN E!NoCoverage ELSE covering[t]
    BY <1>3 DEF E!Reconciled
  <2>2. CASE t = 1
    BY <1>3, <1>4, <2>1, <2>2
  <2>3. CASE t # 1
    BY <1>3, <2>1, <2>3 DEF E!Missing
  <2> QED  BY <2>2, <2>3
<1>8. CopiesInv
  BY <1>2, <1>5, <1>7 DEF CopiesInv, E!Superseded, E!Stored, E!Covered, MemoryRows
<1> QED
  BY <1>2, <1>6, <1>8 DEF EvidenceInv, WorkerInv, E!VectorsDescribeTurns, E!Resting

\* recordTurn and reingestTurn: the memory of one turn is written, and its copy, its
\* coverage and its vector with it, or the copy is superseded.
LEMMA TurnWritten ==
    ASSUME EvidenceInv, NEW t \in E!Turns, E!Records(t) \/ E!Reingests(t)
    PROVE  EvidenceInv'
<1>1. EvidenceTypes /\ CopiesInv /\ WorkerInv /\ E!VectorsDescribeTurns
  BY DEF EvidenceInv
<1>2. UNCHANGED <<evidenceSource, worker, chat>> /\ ~chat.incognito
  BY DEF E!Records, E!Reingests, E!Writable
<1>3. PICK r \in MemoryRows :
        /\ memory' = [memory EXCEPT ![t] = r]
        /\ r.version = evidenceSource[t] /\ r # E!Missing
        /\ r.reingested \/ ~E!Stored(t)
  <2>1. evidenceSource[t] \in Nat \ {0}
    BY <1>1 DEF EvidenceTypes
  <2>2. CASE E!Records(t)
    <3> DEFINE r == [version |-> evidenceSource[t], reingested |-> FALSE, older |-> FALSE]
    <3>1. r \in MemoryRows /\ r # E!Missing
      BY <2>1 DEF MemoryRows, E!Missing
    <3> QED  BY <2>2, <3>1 DEF E!Records
  <2>3. CASE E!Reingests(t)
    <3>1. PICK older \in BOOLEAN : E!Reingested(t, older)
      BY <2>3 DEF E!Reingests
    <3> DEFINE r == [version |-> evidenceSource[t], reingested |-> TRUE, older |-> older]
    <3>2. r \in MemoryRows /\ r # E!Missing
      BY <2>1 DEF MemoryRows, E!Missing
    <3> QED  BY <3>1, <3>2 DEF E!Reingested
  <2> QED  BY <2>2, <2>3
<1> DEFINE written ==
             /\ copy' = [copy EXCEPT ![t] = E!Projected(t)]
             /\ coverage' = [coverage EXCEPT ![t] = E!Indexed(t)]
             /\ vector' = [vector EXCEPT ![t] = E!NoVector]
           without == ~E!Stored(t) /\ UNCHANGED <<copy, coverage, vector>>
           withdrawn ==
             /\ r.reingested /\ copy' \in {copy, [copy EXCEPT ![t] = E!NoCopy]}
             /\ coverage' = [coverage EXCEPT ![t] = E!NoCoverage]
             /\ vector' = [vector EXCEPT ![t] = E!NoVector]
<1>4. written \/ without \/ withdrawn
  <2>1. CASE E!Records(t)
    BY <2>1 DEF E!Records, E!Replaced
  <2>2. CASE E!Reingests(t)
    <3>1. CASE E!Keeps
      BY <2>2, <3>1 DEF E!Reingests, E!Replaced
    <3>2. CASE ~E!Keeps
      <4>1. r.reingested
        <5>1. PICK older \in BOOLEAN : E!Reingested(t, older)
          BY <2>2 DEF E!Reingests
        <5>2. memory'[t].reingested
          BY <1>1, <5>1 DEF E!Reingested, EvidenceTypes
        <5> QED  BY <1>1, <1>3, <5>2 DEF EvidenceTypes
      <4> QED  BY <2>2, <3>2, <4>1 DEF E!Reingests
    <3> QED  BY <3>1, <3>2
  <2> QED  BY <2>1, <2>2
<1>5. E!Projected(t) \in CopyRows /\ E!Projected(t).version = evidenceSource[t]
  <2>1. (t \in Long /\ evidenceSource[t] = E!Max(Versions)) \in BOOLEAN
    OBVIOUS
  <2> QED  BY <1>1, <2>1 DEF E!Projected, CopyRows, EvidenceTypes
<1>6. E!Indexed(t) \in CoverageRows
  BY <1>1 DEF E!Indexed, E!Kind, CoverageRows, EvidenceTypes
<1>7. E!NoCopy \in CopyRows /\ E!NoCoverage \in CoverageRows
  BY DEF E!NoCopy, E!NoCoverage, CopyRows, CoverageRows
<1>8. EvidenceTypes'
  <2>1. memory' \in [E!Turns -> MemoryRows]
    BY <1>1, <1>3 DEF EvidenceTypes
  <2>2. copy' \in [E!Turns -> CopyRows] /\ coverage' \in [E!Turns -> CoverageRows]
    BY <1>1, <1>4, <1>5, <1>6, <1>7 DEF EvidenceTypes
  <2>3. vector' = [u \in E!Turns |-> vector'[u]]
    BY <1>1, <1>4 DEF EvidenceTypes
  <2> QED  BY <1>1, <1>2, <2>1, <2>2, <2>3 DEF EvidenceTypes
<1> HIDE DEF written, without, withdrawn
<1>9. /\ memory'[t] = r
      /\ \A u \in E!Turns \ {t} : memory'[u] = memory[u]
  BY <1>1, <1>3 DEF EvidenceTypes
<1>10. \A u \in E!Turns \ {t} :
         copy'[u] = copy[u] /\ coverage'[u] = coverage[u] /\ vector'[u] = vector[u]
  BY <1>1, <1>4 DEF written, without, withdrawn, EvidenceTypes
<1>11. /\ vector'[t] = E!NoVector
       /\ \/ copy'[t].version = evidenceSource[t] \/ copy'[t] = E!NoCopy
          \/ E!Superseded(memory'[t], copy'[t], coverage'[t])
  <2>1. CASE written
    BY <1>1, <1>5, <2>1 DEF written, EvidenceTypes
  <2>2. CASE without
    BY <1>1, <2>2 DEF without, CopiesInv, E!VectorsDescribeTurns
  <2>3. CASE withdrawn
    BY <1>1, <1>9, <2>3 DEF withdrawn, EvidenceTypes, E!Superseded
  <2> QED  BY <1>4, <2>1, <2>2, <2>3
<1>12. CopiesInv'
  <2>1. r.version \in Nat
    BY DEF MemoryRows
  <2> QED
    BY <1>1, <1>2, <1>3, <1>9, <1>10, <1>11, <2>1 DEF CopiesInv, E!Stored, E!Covered
<1>13. WorkerInv'
  <2> SUFFICES ASSUME worker.step \in {"read", "embedding"}, worker.row.turn \in E!Turns,
                      ~memory'[worker.row.turn].reingested
               PROVE  /\ memory'[worker.row.turn] # E!Missing
                      /\ worker.version = memory'[worker.row.turn].version
    BY <1>1, <1>2 DEF WorkerInv, E!Stored
  <2>1. CASE worker.row.turn = t
    BY <1>1, <1>3, <1>9, <2>1 DEF WorkerInv, E!Stored, E!Missing
  <2>2. CASE worker.row.turn # t
    BY <1>1, <1>9, <2>2 DEF WorkerInv, E!Stored
  <2> QED  BY <2>1, <2>2
<1>14. E!VectorsDescribeTurns'
  BY <1>1, <1>9, <1>10, <1>11 DEF E!VectorsDescribeTurns, E!Covered
<1> QED  BY <1>8, <1>12, <1>13, <1>14 DEF EvidenceInv

\* Filters are run over the copies, which keeps their versions.
LEMMA CopiesCleaned ==
    ASSUME EvidenceInv
    PROVE  /\ E!Cleaned \in [E!Turns -> CopyRows]
           /\ \A t \in E!Turns : /\ E!Cleaned[t].version = copy[t].version
                                 /\ copy[t] = E!NoCopy => E!Cleaned[t] = E!NoCopy
<1>1. copy \in [E!Turns -> CopyRows]
  BY DEF EvidenceInv, EvidenceTypes
<1>2. ASSUME NEW c \in CopyRows
      PROVE  /\ [c EXCEPT !.clean = TRUE] \in CopyRows
             /\ [c EXCEPT !.clean = TRUE].version = c.version
             /\ c.clean => [c EXCEPT !.clean = TRUE] = c
  BY DEF CopyRows
<1>3. E!NoCopy \in CopyRows /\ E!NoCopy.clean
  BY DEF E!NoCopy, CopyRows
<1> QED  BY <1>1, <1>2, <1>3 DEF E!Cleaned

LEMMA EvidenceDecided ==
    ASSUME EvidenceInv, E!Decided
    PROVE  EvidenceInv'
<1>1. EvidenceTypes /\ CopiesInv /\ WorkerInv /\ E!VectorsDescribeTurns
  BY DEF EvidenceInv
<1>2. CASE E!Sanitizes \/ E!Normalizes
  <2>1. /\ copy' = E!Cleaned
        /\ UNCHANGED <<evidenceSource, memory, coverage, chat>>
        /\ worker' = worker
    BY <1>2 DEF E!Sanitizes, E!Normalizes
  <2>2. vector' \in {vector, [t \in E!Turns |-> E!NoVector]}
    BY <1>2 DEF E!Sanitizes, E!Normalizes
  <2>3. EvidenceTypes'
    BY <1>1, <2>1, <2>2, CopiesCleaned DEF EvidenceTypes
  <2>4. CopiesInv'
    BY <1>1, <2>1, CopiesCleaned DEF CopiesInv, E!Superseded, E!Stored, E!Covered
  <2>5. WorkerInv' /\ E!VectorsDescribeTurns'
    BY <1>1, <2>1, <2>2 DEF WorkerInv, E!VectorsDescribeTurns, E!Stored, E!Covered
  <2> QED  BY <2>3, <2>4, <2>5 DEF EvidenceInv
<1>3. CASE E!MeetsMalformedRecord \/ E!TurnsCapture \/ E!TurnsConsent
  <2>1. /\ UNCHANGED <<evidenceSource, memory, copy, coverage, vector, worker>>
        /\ chat'.incognito = chat.incognito
        /\ chat' = [capture |-> chat'.capture, consent |-> chat'.consent,
                    incognito |-> chat'.incognito]
    BY <1>1, <1>3 DEF E!MeetsMalformedRecord, E!TurnsCapture, E!TurnsConsent, EvidenceTypes
  <2> QED
    BY <1>1, <2>1 DEF EvidenceInv, EvidenceTypes, CopiesInv, WorkerInv,
       E!VectorsDescribeTurns, E!Superseded, E!Stored, E!Covered
<1>4. CASE E!GoesIncognito
  <2>1. /\ copy' = [t \in E!Turns |-> E!NoCopy] /\ coverage' = [t \in E!Turns |-> E!NoCoverage]
        /\ vector' = [t \in E!Turns |-> E!NoVector]
        /\ UNCHANGED <<evidenceSource, memory, worker>>
        /\ chat' = [capture |-> chat'.capture, consent |-> chat'.consent,
                    incognito |-> chat'.incognito]
        /\ chat'.incognito = TRUE
    BY <1>1, <1>4 DEF E!GoesIncognito, EvidenceTypes
  <2>2. EvidenceTypes'
    <3>1. E!NoCopy \in CopyRows /\ E!NoCoverage \in CoverageRows
      BY DEF E!NoCopy, E!NoCoverage, CopyRows, CoverageRows
    <3> QED  BY <1>1, <2>1, <3>1 DEF EvidenceTypes
  <2> QED
    BY <1>1, <2>1, <2>2 DEF EvidenceInv, CopiesInv, WorkerInv,
       E!VectorsDescribeTurns, E!Stored, E!Covered
<1> QED  BY <1>2, <1>3, <1>4 DEF E!Decided

\* The embedding pass: what it reads is what the memory of the turn has, unless the
\* turn was reingested; and it writes only while its row is as it was.
LEMMA WorkerMoves ==
    ASSUME EvidenceInv, E!Embedded
    PROVE  EvidenceInv'
<1>1. EvidenceTypes /\ CopiesInv /\ WorkerInv /\ E!VectorsDescribeTurns
  BY DEF EvidenceInv
<1>2. UNCHANGED <<evidenceSource, memory, copy, coverage, chat>>
  BY DEF E!Embedded, E!StartsPass, E!Pages, E!Checks, E!Reads, E!Compares, E!Stores, E!Saves,
     E!Worker
<1> DEFINE IsWorker(w) ==
             w = [step |-> w.step, part |-> w.part, row |-> w.row, version |-> w.version,
                  clean |-> w.clean, epoch |-> w.epoch, from |-> w.from]
<1>3. CopiesInv'
  BY <1>1, <1>2 DEF CopiesInv, E!Superseded, E!Stored, E!Covered
\* The steps that read no text and write no vector.
<1>4. ASSUME UNCHANGED vector, IsWorker(worker'), worker'.step \notin {"read", "embedding"}
      PROVE  EvidenceInv'
  BY <1>1, <1>2, <1>3, <1>4 DEF EvidenceInv, EvidenceTypes, WorkerInv, E!VectorsDescribeTurns,
     E!Covered
<1>5. /\ IsWorker(E!Resting) /\ E!Resting.step = "idle"
      /\ IsWorker(E!Next_(worker)) /\ E!Next_(worker).step \in {"paging", "saving"}
  <2>1. IsWorker(worker)
    BY <1>1 DEF EvidenceTypes
  <2> QED  BY <2>1 DEF E!Resting, E!Next_
<1>6. CASE E!StartsPass \/ E!Pages \/ E!Checks \/ E!Saves
  <2>1. IsWorker(worker') /\ worker'.step \notin {"read", "embedding"}
    <3>1. CASE E!StartsPass
      BY <3>1 DEF E!StartsPass, E!Worker, E!Resting
    <3>2. CASE E!Pages
      BY <1>1, <3>2 DEF E!Pages, E!Worker, EvidenceTypes
    <3>3. CASE E!Checks
      BY <1>1, <1>5, <3>3 DEF E!Checks, E!Worker, EvidenceTypes
    <3>4. CASE E!Saves
      BY <1>5, <3>4 DEF E!Saves
    <3> QED  BY <1>6, <3>1, <3>2, <3>3, <3>4
  <2>2. UNCHANGED vector
    BY <1>6 DEF E!StartsPass, E!Pages, E!Checks, E!Saves
  <2> QED  BY <1>4, <2>1, <2>2
<1>7. CASE E!Reads
  <2> DEFINE t == worker.row.turn
             w == [worker EXCEPT !.step = "read", !.version = copy[t].version,
                                 !.clean = copy[t].clean]
  <2>1. UNCHANGED vector
    BY <1>7 DEF E!Reads
  <2>2. CASE worker' \in {E!Resting, E!Next_(worker)}
    BY <1>4, <1>5, <2>1, <2>2
  <2>3. CASE worker' = w /\ E!Evident(t) /\ ~worker.row.reingested
    <3>1. IsWorker(worker') /\ worker'.row = worker.row /\ worker'.version = copy[t].version
      BY <1>1, <2>3 DEF EvidenceTypes
    <3>2. t \in E!Turns /\ ~memory[t].reingested =>
             E!Stored(t) /\ copy[t].version = memory[t].version
      BY <1>1, <2>3 DEF E!Evident, E!Located, E!Whole, CopiesInv
    <3>3. WorkerInv'
      BY <1>2, <2>3, <3>1, <3>2 DEF WorkerInv, E!Stored
    <3> QED
      BY <1>1, <1>2, <1>3, <2>1, <3>1, <3>3 DEF EvidenceInv, EvidenceTypes,
         E!VectorsDescribeTurns, E!Covered
  <2> QED  BY <1>7, <2>2, <2>3 DEF E!Reads, E!Worker
<1>8. CASE E!Compares
  <2>1. UNCHANGED vector
    BY <1>8 DEF E!Compares
  <2>2. CASE worker' \in {E!Resting, E!Next_(worker)}
    BY <1>4, <1>5, <2>1, <2>2
  <2>3. CASE worker.step = "read" /\ worker' = [worker EXCEPT !.step = "embedding"]
    <3>1. IsWorker(worker') /\ worker'.row = worker.row /\ worker'.version = worker.version
      BY <1>1, <2>3 DEF EvidenceTypes
    <3>2. WorkerInv'
      BY <1>1, <1>2, <2>3, <3>1 DEF WorkerInv, E!Stored
    <3> QED
      BY <1>1, <1>2, <1>3, <2>1, <3>1, <3>2 DEF EvidenceInv, EvidenceTypes,
         E!VectorsDescribeTurns, E!Covered
  <2> QED  BY <1>8, <2>2, <2>3 DEF E!Compares, E!Worker
<1>9. CASE E!Stores
  <2>1. CASE UNCHANGED vector /\ worker' = E!Resting
    BY <1>4, <1>5, <2>1
  <2>2. CASE /\ E!Unmoved(worker.row) /\ worker' = E!Next_(worker)
             /\ vector' = [vector EXCEPT ![worker.row.turn] = E!Embedding(worker)]
    <3> DEFINE t == worker.row.turn
    <3>1. /\ t \in E!Turns /\ E!Covered(t)
          /\ coverage[t].digest = worker.row.digest
          /\ memory[t].reingested = worker.row.reingested
      BY <2>2 DEF E!Unmoved, E!Candidates, E!Row
    <3>2. worker.version = memory[t].version
      BY <1>1, <1>9, <3>1 DEF E!Stores, WorkerInv
    <3>3. /\ vector'[t].digest = coverage[t].digest
          /\ vector'[t].version = memory[t].version
          /\ \A u \in E!Turns \ {t} : vector'[u] = vector[u]
          /\ vector' = [u \in E!Turns |-> vector'[u]]
      BY <1>1, <2>2, <3>1, <3>2 DEF EvidenceTypes, E!Embedding
    <3>4. E!VectorsDescribeTurns'
      BY <1>1, <1>2, <3>1, <3>3 DEF E!VectorsDescribeTurns, E!Covered
    <3>5. EvidenceTypes' /\ WorkerInv'
      BY <1>1, <1>2, <1>5, <2>2, <3>3 DEF EvidenceTypes, WorkerInv
    <3> QED  BY <1>3, <3>4, <3>5 DEF EvidenceInv
  <2> QED  BY <1>9, <2>1, <2>2 DEF E!Stores, E!Worker
<1> QED  BY <1>6, <1>7, <1>8, <1>9 DEF E!Embedded

LEMMA EvidenceStep ==
    ASSUME EvidenceInv, [E!EvidenceNext]_(E!evidenceVars)
    PROVE  EvidenceInv'
<1>1. EvidenceTypes /\ CopiesInv /\ WorkerInv /\ E!VectorsDescribeTurns
  BY DEF EvidenceInv
<1>2. CASE E!Written
  <2>1. PICK t \in E!Turns : E!Records(t) \/ E!Reingests(t) \/ E!Edits(t)
    BY <1>2 DEF E!Written
  <2>2. CASE E!Edits(t)
    <3>1. /\ UNCHANGED <<memory, copy, coverage, vector, worker, chat>>
          /\ evidenceSource' = [evidenceSource EXCEPT ![t] = @ + 1]
      BY <2>2 DEF E!Edits
    <3>2. /\ evidenceSource' \in [E!Turns -> Nat \ {0}]
          /\ \A u \in E!Turns : evidenceSource'[u] >= evidenceSource[u]
      BY <1>1, <3>1 DEF EvidenceTypes
    <3>3. \A u \in E!Turns : evidenceSource'[u] >= memory[u].version
      BY <1>1, <3>2 DEF EvidenceTypes, CopiesInv, MemoryRows
    <3> QED
      BY <1>1, <3>1, <3>2, <3>3 DEF EvidenceInv, EvidenceTypes, CopiesInv, WorkerInv,
         E!VectorsDescribeTurns, E!Superseded, E!Stored, E!Covered
  <2> QED  BY <2>1, <2>2, TurnWritten
<1>3. CASE E!Decided
  BY <1>3, EvidenceDecided
<1>4. CASE E!Embedded
  BY <1>4, WorkerMoves
<1>5. CASE E!Looked \/ UNCHANGED E!evidenceVars
  <2>1. UNCHANGED <<evidenceSource, memory, copy, coverage, vector, worker, chat>>
    BY <1>5 DEF E!Looked, E!FindsVectors, E!EndsLookup, E!GathersEvidence, E!Looks, E!evidenceVars
  <2> QED
    BY <1>1, <2>1 DEF EvidenceInv, EvidenceTypes, CopiesInv, WorkerInv,
       E!VectorsDescribeTurns, E!Superseded, E!Stored, E!Covered
<1> QED  BY <1>2, <1>3, <1>4, <1>5 DEF E!EvidenceNext

\* Every reader asks for copies that no reingest superseded, or reads the source.
LEMMA AnswersAreCurrent == EvidenceInv => E!ServesCurrentText
<1> SUFFICES ASSUME EvidenceInv, NEW item \in E!Answers
             PROVE  item.version >= memory[item.turn].version /\ ~chat.incognito
  BY DEF E!ServesCurrentText
<1>1. EvidenceTypes /\ CopiesInv /\ E!VectorsDescribeTurns
  BY DEF EvidenceInv
<1>2. \A t \in E!Turns : memory[t].version \in Nat
  BY <1>1 DEF EvidenceTypes, MemoryRows
\* An item made of a copy that is there and that nothing superseded.
<1>3. ASSUME NEW t \in E!Turns, item = [turn |-> t, version |-> copy[t].version],
             copy[t] # E!NoCopy, ~E!Superseded(memory[t], copy[t], coverage[t])
      PROVE  item.version >= memory[item.turn].version /\ ~chat.incognito
  BY <1>1, <1>2, <1>3 DEF CopiesInv
<1>4. CASE item \in E!TurnEvidence
  BY <1>3, <1>4 DEF E!TurnEvidence, E!Copies, E!Evident, E!Whole
<1>5. CASE item \in E!FirstInteraction
  BY <1>3, <1>5 DEF E!FirstInteraction, E!Copies, E!NotCurrent
<1>6. CASE item \in E!RenderedCopies
  BY <1>3, <1>6 DEF E!RenderedCopies, E!Complete, E!AnyGap, E!Newest, E!Copies, E!NotCurrent
<1>7. CASE item \in E!RenderedSource
  <2>1. ~chat.incognito /\ item \in {[turn |-> t, version |-> evidenceSource[t]] : t \in E!Newest}
    BY <1>7 DEF E!RenderedSource
  <2>2. PICK t \in E!Newest : item = [turn |-> t, version |-> evidenceSource[t]]
    BY <2>1
  <2>3. t \in E!Turns
    BY DEF E!Newest
  <2> QED  BY <1>1, <2>1, <2>2, <2>3 DEF CopiesInv
<1>8. CASE item \in E!Recalled
  BY <1>3, <1>8 DEF E!Recalled, E!Searchable, E!Copies
<1>9. CASE item \in E!Answered
  <2>1. PICK hit \in lookup.found :
          E!Fresh(hit) /\ item = [turn |-> hit.turn, version |-> hit.vector.version]
    BY <1>9 DEF E!Answered
  <2>2. /\ hit.turn \in E!Turns /\ vector[hit.turn] # E!NoVector /\ ~chat.incognito
        /\ hit.vector = vector[hit.turn]
    BY <2>1 DEF E!Fresh, E!Hits
  <2> QED  BY <1>1, <1>2, <2>1, <2>2 DEF E!VectorsDescribeTurns
<1> QED  BY <1>4, <1>5, <1>6, <1>7, <1>8, <1>9 DEF E!Answers

\* The part "evidence" takes the steps of Evidence and no others.
LEMMA EvidenceFollowed == [Next]_vars => [E!EvidenceNext]_(E!evidenceVars)
BY DEF Next, vars, evidenceVars, E!evidenceVars, LifecycleSteps, ArchiveSteps, MigrationSteps,
   SourceSteps, OpencodeSteps, TaskStateSteps, RulesSteps, ParanoidSteps, EvidenceSteps,
   SetupSteps, InstallSteps, OpenTurnSteps

\* A stored vector describes the version its coverage row and its memory have, for any
\* turns, versions and changes made while the worker waited for the model
\* (turn-embedding-store.ts: write asks for the row again in its transaction).
THEOREM VectorsDescribeTurnsHolds == Spec => []VectorsDescribeTurns
<1>1. Init => EvidenceInv
  BY EvidenceStarts DEF Init
<1>2. EvidenceInv /\ [Next]_vars => EvidenceInv'
  BY EvidenceFollowed, EvidenceStep
<1>3. EvidenceInv => VectorsDescribeTurns
  BY DEF EvidenceInv, VectorsDescribeTurns
<1> QED  BY <1>1, <1>2, <1>3, PTL DEF Spec

\* No reader answers with a text older than the memory of its turn, and none answers
\* at all once the chat is incognito, whatever a lookup found before
\* (SUPERSEDED_COPY_SQL, NOT_CURRENT_COPY_SQL, current-chat-semantic-candidates.ts).
THEOREM ServesCurrentTextHolds == Spec => []ServesCurrentText
<1>1. Init => EvidenceInv
  BY EvidenceStarts DEF Init
<1>2. EvidenceInv /\ [Next]_vars => EvidenceInv'
  BY EvidenceFollowed, EvidenceStep
<1>3. EvidenceInv => ServesCurrentText
  BY AnswersAreCurrent DEF ServesCurrentText
<1> QED  BY <1>1, <1>2, <1>3, PTL DEF Spec
------------------------------------------------------------------------------
\* The stored rows that hold a rule's text, and what is prepared for them: the owner is
\* of its own set, and the directory a delivery falls back to is above the one it is for.
RuleRows ==
    /\ IsFiniteSet(rules)
    /\ \A r \in rules : r = [id |-> r.id, owner |-> r.owner, chat |-> r.chat,
                             anchor |-> r.anchor, text |-> r.text]
PreparedInv ==
    /\ rulesJob.kind = "command" => rulesJob.owner \in rulesJob.set
    /\ rulesJob.kind = "delivery" =>
          rulesJob.default = R!None \/ R!Within(rulesJob.default, rulesJob.cwd)
RulesInv == RuleRows /\ PreparedInv

\* A checkout is named by a number, so that of two there is a first.
Numbered == Clones \subseteq Nat /\ Nested \subseteq Nat

LEMMA PathsAre ==
    ASSUME Numbered, NEW p \in R!Paths
    PROVE  /\ p \in Seq(Nat) /\ Len(p) \in {1, 2} /\ p[1] \in Nat
           /\ Len(p) = 1 => p = <<p[1]>>
           /\ Len(p) = 2 => p = <<p[1], 1>>
<1>1. CASE \E c \in Clones : p = <<c>>
  BY <1>1 DEF Numbered
<1>2. CASE \E c \in Nested : p = <<c, 1>>
  BY <1>2 DEF Numbered
<1> QED  BY <1>1, <1>2 DEF R!Paths

\* Of several directories one is the shallowest.
LEMMA ShallowestIsOne ==
    ASSUME Numbered, NEW D \in SUBSET R!Paths, D # {}
    PROVE  R!Shallowest(D) \in D
<1>1. \A p \in D : p \in Seq(Nat) /\ Len(p) \in {1, 2} /\ p[1] \in Nat
  BY PathsAre
<1>2. ASSUME NEW C \in SUBSET D, C # {}
      PROVE  \E p \in C : \A q \in C : p[1] <= q[1]
  <2> DEFINE names == {p[1] : p \in C}
  <2>1. names \subseteq Nat /\ names # {}
    BY <1>1, <1>2
  <2> HIDE DEF names
  <2>2. PICK k \in names : \A l \in names : k <= l
    BY <2>1, LeastOfNaturals
  <2> USE DEF names
  <2> QED  BY <2>2
<1> DEFINE roots == {p \in D : Len(p) = 1}
<1>3. \E p \in D : \A q \in D : R!Shallower(p, q)
  <2>1. CASE roots # {}
    <3>1. PICK p \in roots : \A q \in roots : p[1] <= q[1]
      BY <1>2, <2>1
    <3>2. \A q \in D : R!Shallower(p, q)
      BY <1>1, <3>1 DEF R!Shallower
    <3> QED  BY <3>1, <3>2
  <2>2. CASE roots = {}
    <3>1. PICK p \in D : \A q \in D : p[1] <= q[1]
      BY <1>2
    <3>2. \A q \in D : R!Shallower(p, q)
      BY <1>1, <2>2, <3>1 DEF R!Shallower
    <3> QED  BY <3>2
  <2> QED  BY <2>1, <2>2
<1> QED  BY <1>3 DEF R!Shallowest

\* Rows that are together are together with the same rows.
LEMMA TogetherIsShared ==
    ASSUME NEW p, NEW q \in R!StoredSet(p)
    PROVE  R!StoredSet(q) = R!StoredSet(p)
BY DEF R!StoredSet, R!Together

LEMMA StoredSetsAreRows ==
    ASSUME NEW p
    PROVE  /\ R!StoredSet(p) \subseteq R!Paths
           /\ p \in R!Rows => p \in R!StoredSet(p)
BY DEF R!StoredSet, R!Together, R!Rows

\* The Git root of a directory, and the shallowest row above it, are above it.
LEMMA DefaultIsAbove ==
    ASSUME Numbered, NEW cwd \in R!Paths, NEW D \in SUBSET R!Paths
    PROVE  R!Default(D, cwd) = R!None \/ R!Within(R!Default(D, cwd), cwd)
<1> DEFINE above == {p \in D : R!Within(p, cwd)}
<1>1. CASE R!Toplevel(cwd) # R!None
  <2>1. R!Default(D, cwd) = <<cwd[1]>>
    BY <1>1 DEF R!Default, R!Toplevel
  <2>2. R!Within(<<cwd[1]>>, cwd)
    BY PathsAre DEF R!Within, R!IsPrefix
  <2> QED  BY <2>1, <2>2
<1>2. CASE R!Toplevel(cwd) = R!None /\ above # {}
  <2>1. R!Shallowest(above) \in above
    BY <1>2, ShallowestIsOne
  <2>2. R!Default(D, cwd) = R!Shallowest(above)
    BY <1>2 DEF R!Default
  <2> QED  BY <2>1, <2>2
<1>3. CASE R!Toplevel(cwd) = R!None /\ above = {}
  BY <1>3 DEF R!Default
<1> QED  BY <1>1, <1>2, <1>3

\* The rules that count together with one that is written, before and after; they stay
\* within their limits, and no other has its text.
Beside(set, r) == {q \in rules \union rules' :
                      q.owner \in set /\ q.chat = r.chat /\ q.anchor = r.anchor}
Bounded(set, r) ==
    /\ R!Fits(Beside(set, r) \intersect rules) => R!Fits(Beside(set, r) \intersect rules')
    /\ \A q \in Beside(set, r) \intersect rules' : q # r => q.text # r.text

\* A rule that is added where no rule has its text, and where the limits hold with it.
LEMMA AddedInBounds ==
    ASSUME NEW set, NEW at, NEW where, NEW new, new.chat = at, new.anchor = where,
           \A q \in R!RulesOf(set, at, where) : q.text # new.text,
           R!Fits(R!RulesOf(set, at, where) \union {new}),
           rules' = rules \union {new}, NEW r \in rules' \ rules
    PROVE  r = new /\ Bounded(set, r)
<1> DEFINE seen == R!RulesOf(set, at, where)
<1>1. seen = {q \in rules : q.owner \in set /\ q.chat = at /\ q.anchor = where}
  BY DEF R!RulesOf
<1>2. R!Fits(seen \union {new}) /\ \A q \in seen : q.text # new.text
  OBVIOUS
<1> HIDE DEF seen
<1>3. r = new /\ Beside(set, r) \intersect rules = seen
  BY <1>1 DEF Beside
<1>4. Beside(set, r) \intersect rules' \in {seen, seen \union {new}}
  BY <1>1, <1>3 DEF Beside
<1> QED  BY <1>2, <1>3, <1>4 DEF Bounded

\* Of the rules of one set, one chat and one directory, what a command writes leaves no
\* text twice and no more of them than it may.
LEMMA WrittenInBounds ==
    ASSUME RuleRows, MaxRules \in Nat,
           NEW set, NEW holder \in set, NEW at, NEW where, NEW words,
           R!Writes(R!RulesOf(set, at, where), holder, at, where, words),
           NEW r \in rules' \ rules
    PROVE  r.owner \in set /\ Bounded(set, r)
<1> DEFINE seen   == R!RulesOf(set, at, where)
           before == Beside(set, r) \intersect rules
           after  == Beside(set, r) \intersect rules'
<1>1. seen = {q \in rules : q.owner \in set /\ q.chat = at /\ q.anchor = where}
  BY DEF R!RulesOf
<1>2. CASE R!AddsRule(seen, holder, at, where, words)
  <2> DEFINE new == R!NewRule(holder, at, where, words)
  <2>1. /\ \A q \in seen : q.text # words
        /\ R!Fits(seen \union {new}) /\ rules' = rules \union {new}
    BY <1>2 DEF R!AddsRule
  <2>2. new.owner = holder /\ new.chat = at /\ new.anchor = where /\ new.text = words
    BY DEF R!NewRule
  <2> HIDE DEF new
  <2> QED  BY <2>1, <2>2, AddedInBounds
<1>3. CASE R!RemovesRule(seen)
  BY <1>3 DEF R!RemovesRule
<1>4. CASE R!ReplacesRule(seen, words)
  <2>1. PICK old \in seen :
           LET new == [old EXCEPT !.text = words] IN
             /\ \A q \in seen \ {old} : q.text # words
             /\ R!Chars((seen \ {old}) \union {new}) <= MaxChars
             /\ rules' = (rules \ {old}) \union {new}
    BY <1>4 DEF R!ReplacesRule
  <2> DEFINE new == [old EXCEPT !.text = words]
  <2>2. old = [id |-> old.id, owner |-> old.owner, chat |-> old.chat,
               anchor |-> old.anchor, text |-> old.text]
    BY <1>1, <2>1 DEF RuleRows
  <2>3. r = new /\ new.owner = old.owner /\ new.chat = at /\ new.anchor = where
        /\ new.text = words /\ old.owner \in set
    BY <1>1, <2>1, <2>2
  <2>4. /\ \A q \in seen \ {old} : q.text # words
        /\ R!Chars((seen \ {old}) \union {new}) <= MaxChars
        /\ rules' = (rules \ {old}) \union {new}
    BY <2>1
  <2> HIDE DEF new, seen
  <2>5. before = seen
    BY <1>1, <2>1, <2>3 DEF Beside
  <2>6. after = (seen \ {old}) \union {new}
    BY <1>1, <2>1, <2>3, <2>4 DEF Beside
  <2>7. /\ R!Cardinality(after) \in Nat /\ R!Cardinality(before) \in Nat
        /\ R!Cardinality(after) <= R!Cardinality(before)
    <3>1. IsFiniteSet(seen)
      BY <1>1, FS_Subset DEF RuleRows
    <3>2. /\ IsFiniteSet(seen \ {old}) /\ Cardinality(seen \ {old}) = Cardinality(seen) - 1
          /\ Cardinality(seen) \in Nat
      BY <2>1, <3>1, FS_RemoveElement, FS_CardinalityType
    <3> DEFINE rest == seen \ {old}
    <3> HIDE DEF rest
    <3>3. /\ IsFiniteSet(rest \union {new})
          /\ Cardinality(rest \union {new}) \in {Cardinality(rest), Cardinality(rest) + 1}
      BY <3>2, FS_AddElement DEF rest
    <3>4. /\ Cardinality(rest \union {new}) \in Nat
          /\ Cardinality(rest \union {new}) <= Cardinality(seen)
      BY <3>2, <3>3, FS_CardinalityType DEF rest
    <3> QED  BY <2>5, <2>6, <3>2, <3>4 DEF R!Cardinality, Cardinality, rest
  <2>8. R!Fits(before) => R!Fits(after)
    <3>1. R!Chars(after) <= MaxChars
      BY <2>4, <2>6
    <3> HIDE DEF before, after
    <3> QED  BY <2>7, <3>1 DEF R!Fits
  <2> QED  BY <2>3, <2>4, <2>6, <2>8 DEF Bounded
<1> QED  BY <1>2, <1>3, <1>4 DEF R!Writes

\* A rule is written whole.
LEMMA RowsAreWhole ==
    ASSUME RuleRows, NEW held \in SUBSET rules, NEW holder, NEW at, NEW where, NEW words,
           R!Writes(held, holder, at, where, words)
    PROVE  RuleRows'
<1>1. ASSUME NEW new, rules' \subseteq rules \union {new},
             new = [id |-> new.id, owner |-> new.owner, chat |-> new.chat,
                    anchor |-> new.anchor, text |-> new.text]
      PROVE  RuleRows'
  <2>1. IsFiniteSet(rules \union {new})
    BY FS_AddElement DEF RuleRows
  <2>2. IsFiniteSet(rules')
    BY <1>1, <2>1, FS_Subset
  <2> QED  BY <1>1, <2>2 DEF RuleRows
<1>2. CASE R!AddsRule(held, holder, at, where, words)
  <2> DEFINE new == R!NewRule(holder, at, where, words)
  <2>1. rules' \subseteq rules \union {new}
    BY <1>2 DEF R!AddsRule
  <2>2. new = [id |-> new.id, owner |-> new.owner, chat |-> new.chat,
               anchor |-> new.anchor, text |-> new.text]
    BY DEF R!NewRule
  <2> HIDE DEF new
  <2> QED  BY <1>1, <2>1, <2>2
<1>3. CASE R!RemovesRule(held)
  <2>1. PICK old \in held : rules' = rules \ {old}
    BY <1>3 DEF R!RemovesRule
  <2>2. old = [id |-> old.id, owner |-> old.owner, chat |-> old.chat,
               anchor |-> old.anchor, text |-> old.text]
    BY <2>1 DEF RuleRows
  <2> QED  BY <1>1, <2>1, <2>2
<1>4. CASE R!ReplacesRule(held, words)
  <2>1. PICK old \in held : rules' = (rules \ {old}) \union {[old EXCEPT !.text = words]}
    BY <1>4 DEF R!ReplacesRule
  <2> DEFINE new == [old EXCEPT !.text = words]
  <2>2. old = [id |-> old.id, owner |-> old.owner, chat |-> old.chat,
               anchor |-> old.anchor, text |-> old.text]
    BY <2>1 DEF RuleRows
  <2>3. new = [id |-> new.id, owner |-> new.owner, chat |-> new.chat,
               anchor |-> new.anchor, text |-> new.text]
    BY <2>2
  <2>4. rules' \subseteq rules \union {new}
    BY <2>1
  <2> HIDE DEF new
  <2> QED  BY <1>1, <2>1, <2>3, <2>4
<1> QED  BY <1>2, <1>3, <1>4 DEF R!Writes

\* What a command and a delivery prepare.
LEMMA PreparationHolds ==
    ASSUME Numbered, RulesInv, R!Prepares
    PROVE  RulesInv'
<1>1. PICK p \in R!Paths : \E project, at :
        R!PreparesCommand(p, project, at) \/ R!PreparesFirst(p, project, at)
          \/ R!PreparesDelivery(p, project, at)
  BY DEF R!Prepares
<1> PICK project, at :
        R!PreparesCommand(p, project, at) \/ R!PreparesFirst(p, project, at)
          \/ R!PreparesDelivery(p, project, at)
  BY <1>1
<1>2. CASE R!PreparesCommand(p, project, at)
  <2> DEFINE whole == R!StoredSet(R!Shallowest(project))
  <2>1. /\ rulesJob'.kind = "command" /\ rulesJob'.set = whole
        /\ rulesJob'.owner = R!Shallowest(project) /\ UNCHANGED rules
        /\ project # {} /\ project \subseteq whole
    BY <1>2 DEF R!PreparesCommand
  <2>2. R!Shallowest(project) \in project
    BY <2>1, StoredSetsAreRows, ShallowestIsOne
  <2> HIDE DEF whole
  <2> QED  BY <2>1, <2>2 DEF RulesInv, RuleRows, PreparedInv
<1>3. CASE R!PreparesFirst(p, project, at)
  BY <1>3 DEF R!PreparesFirst, RulesInv, RuleRows, PreparedInv
<1>4. CASE R!PreparesDelivery(p, project, at)
  <2> DEFINE whole == R!StoredSet(R!Owner(p, project))
  <2>1. /\ rulesJob'.kind = "delivery" /\ rulesJob'.cwd = p
        /\ rulesJob'.default = R!Default(whole, p) /\ UNCHANGED rules
    BY <1>4 DEF R!PreparesDelivery
  <2>2. rulesJob'.default = R!None \/ R!Within(rulesJob'.default, p)
    BY <2>1, StoredSetsAreRows, DefaultIsAbove
  <2> QED  BY <2>1, <2>2 DEF RulesInv, RuleRows, PreparedInv, R!None, R!Within, R!IsPrefix
<1> QED  BY <1>1, <1>2, <1>3, <1>4

LEMMA RulesStart == R!RulesInit => RulesInv
BY FS_EmptySet DEF R!RulesInit, RulesInv, RuleRows, PreparedInv, R!Idle

\* The import of a rule adds one, or finds it there.
LEMMA ImportsOne ==
    ASSUME NEW p, R!Imports(p)
    PROVE  \E holder, set :
             /\ set = R!StoredSet(holder)' /\ R!Approved(set) /\ rulesRow'[holder] # R!Absent
             /\ R!Merges(R!ProjectRules(set), holder, rulesJob.text)
             /\ rulesJob' = R!Idle /\ served' = R!Nothing /\ rulesJob.kind = "import"
             /\ UNCHANGED decision
BY DEF R!Imports

LEMMA RulesStepKeeps ==
    ASSUME Numbered, RulesInv, [R!RulesNext]_(R!rulesVars)
    PROVE  RulesInv'
<1>1. RuleRows /\ PreparedInv
  BY DEF RulesInv
<1>2. ASSUME UNCHANGED rules, rulesJob' \in {rulesJob, R!Idle}
      PROVE  RulesInv'
  BY <1>1, <1>2 DEF RulesInv, RuleRows, PreparedInv, R!Idle, R!None, R!Within, R!IsPrefix
<1>3. ASSUME NEW p, R!Grants(p) \/ R!Revokes(p) \/ R!RemovesRoot(p) \/ R!Captures(p)
      PROVE  RulesInv'
  BY <1>2, <1>3 DEF R!Grants, R!Revokes, R!RemovesRoot, R!Captures
<1>4. ASSUME NEW c, R!InitializesRepository(c)
      PROVE  RulesInv'
  BY <1>2, <1>4 DEF R!InitializesRepository
<1>5. CASE R!GivesUp \/ R!Delivers \/ UNCHANGED R!rulesVars
  BY <1>2, <1>5 DEF R!GivesUp, R!Delivers, R!rulesVars
<1>6. ASSUME NEW words, R!CommitsCommand(words) \/ R!CommitsChatCommand(words)
                          \/ R!CommitsFirst(words)
      PROVE  RulesInv'
  <2>1. rulesJob' = R!Idle /\ \E set, holder, at, where :
          R!Writes(R!RulesOf(set, at, where), holder, at, where, words)
    BY <1>6 DEF R!CommitsCommand, R!CommitsChatCommand, R!CommitsFirst, R!ProjectRules, R!Writes
  <2>2. RuleRows'
    BY <1>1, <2>1, RowsAreWhole DEF R!RulesOf
  <2> QED  BY <2>1, <2>2 DEF RulesInv, PreparedInv, R!Idle
<1>7. ASSUME NEW p, NEW words, R!PreviewsImport(p, words)
      PROVE  RulesInv'
  BY <1>1, <1>7 DEF R!PreviewsImport, RulesInv, RuleRows, PreparedInv
<1>8. ASSUME NEW p, R!Imports(p)
      PROVE  RulesInv'
  <2>1. PICK held, holder : R!Merges(held, holder, rulesJob.text) /\ rulesJob' = R!Idle
    BY <1>8, ImportsOne
  <2> DEFINE new == [R!NewRule(holder, R!NoChat, R!None, rulesJob.text) EXCEPT
                        !.id = R!ImportId(rulesJob.text)]
  <2>2. rules' \in {rules, rules \union {new}}
    BY <2>1 DEF R!Merges
  <2>3. new = [id |-> new.id, owner |-> new.owner, chat |-> new.chat,
               anchor |-> new.anchor, text |-> new.text]
    BY DEF R!NewRule
  <2> HIDE DEF new
  <2>4. IsFiniteSet(rules \union {new})
    BY <1>1, FS_AddElement DEF RuleRows
  <2>5. RuleRows'
    BY <1>1, <2>2, <2>3, <2>4 DEF RuleRows
  <2> QED  BY <2>1, <2>5 DEF RulesInv, PreparedInv, R!Idle
<1> QED
  BY <1>3, <1>4, <1>5, <1>6, <1>7, <1>8, PreparationHolds DEF R!RulesNext

\* What is together is decided by the rows, and who is approved by the decisions.
LEMMA SameSets ==
    ASSUME UNCHANGED rulesRow, NEW CONSTANT p
    PROVE  R!StoredSet(p)' = R!StoredSet(p)
BY DEF R!StoredSet, R!Together, R!Key, R!Top, R!Rows, R!StoredRoots, R!Shallowest

LEMMA SameConsent ==
    ASSUME UNCHANGED decision, NEW CONSTANT p
    PROVE  R!State(p)' = R!State(p)
BY DEF R!State, R!Explicit, R!Closest

\* A step that writes a rule writes it for rows that are together afterwards and are
\* approved, and what they hold stays in bounds.
LEMMA WritesOfOneSet ==
    ASSUME RulesInv, MaxRules \in Nat, R!RulesNext, NEW CONSTANT r \in rules' \ rules
    PROVE  /\ UNCHANGED decision
           /\ R!Approved(R!StoredSet(r.owner)')
           /\ Bounded(R!StoredSet(r.owner)', r)
<1>1. RuleRows /\ PreparedInv
  BY DEF RulesInv
<1> DEFINE Held(set) == set = R!StoredSet(r.owner)' /\ UNCHANGED decision /\ R!Approved(set)
                          /\ Bounded(set, r)
<1>2. ASSUME NEW words, R!CommitsCommand(words) \/ R!CommitsChatCommand(words)
      PROVE  \E set : Held(set)
  <2>1. rulesJob.kind = "command" /\ UNCHANGED <<rulesRow, decision>>
        /\ R!StillConsented(rulesJob)
    BY <1>2 DEF R!CommitsCommand, R!CommitsChatCommand, R!StillAuthorized
  <2>2. rulesJob.owner \in rulesJob.set /\ R!Approved(rulesJob.set)
        /\ \A p \in rulesJob.set : R!StoredSet(p) = rulesJob.set
    BY <1>1, <2>1 DEF PreparedInv, R!StillConsented
  <2>3. PICK at, where :
          R!Writes(R!RulesOf(rulesJob.set, at, where), rulesJob.owner, at, where, words)
    BY <1>2 DEF R!CommitsCommand, R!CommitsChatCommand, R!ProjectRules
  <2>4. Bounded(rulesJob.set, r) /\ r.owner \in rulesJob.set
    BY <1>1, <2>2, <2>3, WrittenInBounds
  <2>5. R!StoredSet(r.owner)' = rulesJob.set
    BY <2>1, <2>2, <2>4, SameSets
  <2> QED  BY <2>1, <2>2, <2>4, <2>5
<1>3. ASSUME NEW words, R!CommitsFirst(words)
      PROVE  \E set : Held(set)
  <2>1. PICK at, where, holder, set :
          /\ set = R!StoredSet(holder)' /\ R!Approved(set) /\ UNCHANGED decision
          /\ R!AddsRule(R!RulesOf(set, at, where), holder, at, where, words)
    BY <1>3 DEF R!CommitsFirst
  <2> DEFINE new == R!NewRule(holder, at, where, words)
  <2>2. /\ \A q \in R!RulesOf(set, at, where) : q.text # words
        /\ R!Fits(R!RulesOf(set, at, where) \union {new}) /\ rules' = rules \union {new}
    BY <2>1 DEF R!AddsRule
  <2>3. new.owner = holder /\ new.chat = at /\ new.anchor = where /\ new.text = words
    BY DEF R!NewRule
  <2> HIDE DEF new
  <2>4. r = new /\ Bounded(set, r)
    BY <2>2, <2>3, AddedInBounds
  <2> QED  BY <2>1, <2>3, <2>4
<1>4. ASSUME NEW p, R!Imports(p)
      PROVE  \E set : Held(set)
  <2>1. PICK holder, set :
          /\ set = R!StoredSet(holder)' /\ R!Approved(set) /\ UNCHANGED decision
          /\ R!Merges(R!ProjectRules(set), holder, rulesJob.text)
    BY <1>4, ImportsOne
  <2> DEFINE new == [R!NewRule(holder, R!NoChat, R!None, rulesJob.text) EXCEPT
                        !.id = R!ImportId(rulesJob.text)]
  <2>2. /\ \A q \in R!ProjectRules(set) : q.text # rulesJob.text
        /\ R!Fits(R!ProjectRules(set) \union {new}) /\ rules' = rules \union {new}
    BY <2>1 DEF R!Merges
  <2>3. /\ new.owner = holder /\ new.chat = R!NoChat /\ new.anchor = R!None
        /\ new.text = rulesJob.text
    BY DEF R!NewRule
  <2> HIDE DEF new
  <2>4. r = new /\ Bounded(set, r)
    BY <2>2, <2>3, AddedInBounds DEF R!ProjectRules
  <2> QED  BY <2>1, <2>3, <2>4
<1> HIDE DEF Held
<1>5. \A p : ~(R!Grants(p) \/ R!Revokes(p) \/ R!RemovesRoot(p) \/ R!Captures(p)
               \/ R!InitializesRepository(p))
  BY DEF R!Grants, R!Revokes, R!RemovesRoot, R!Captures, R!InitializesRepository
<1>6. ~(R!Prepares \/ R!GivesUp \/ R!Delivers)
  <2>1. \A p, project, at : R!PreparesCommand(p, project, at) => UNCHANGED rules
    BY DEF R!PreparesCommand
  <2>2. \A p, project, at : R!PreparesFirst(p, project, at) => UNCHANGED rules
    BY DEF R!PreparesFirst
  <2>3. \A p, project, at : R!PreparesDelivery(p, project, at) => UNCHANGED rules
    BY DEF R!PreparesDelivery
  <2> QED  BY <2>1, <2>2, <2>3 DEF R!Prepares, R!GivesUp, R!Delivers
<1>7. \A p, words : ~R!PreviewsImport(p, words)
  BY DEF R!PreviewsImport
<1>8. \E set : Held(set)
  BY <1>2, <1>3, <1>4, <1>5, <1>6, <1>7 DEF R!RulesNext
<1> QED  BY <1>8 DEF Held

\* The part "rules" takes the steps of Rules and no others.
LEMMA RulesFollowed == [Next]_vars => [R!RulesNext]_(R!rulesVars)
BY DEF Next, vars, rulesVars, R!rulesVars, LifecycleSteps,
   ArchiveSteps, MigrationSteps, SourceSteps, OpencodeSteps, TaskStateSteps, RulesSteps,
   ParanoidSteps, EvidenceSteps, SetupSteps, InstallSteps, OpenTurnSteps

\* No write makes a project exceed its limits or hold a text twice, or is for a project
\* that is not approved when it is made, for any number of checkouts, folders, chats and
\* changes (standing-rules-store.ts: the authority is asked again, and the limits are
\* counted, inside the transaction that writes).
THEOREM WrittenWithinBoundsHolds ==
    ASSUME Numbered, MaxRules \in Nat
    PROVE  Spec => WrittenWithinBounds
<1>1. Init => RulesInv
  BY RulesStart DEF Init
<1>2. RulesInv /\ [Next]_vars => RulesInv'
  BY RulesFollowed, RulesStepKeeps
<1>3. ASSUME RulesInv, R!RulesNext
      PROVE  R!WritesWithinBounds
  <2>1. ASSUME NEW CONSTANT r \in rules' \ rules
        PROVE  /\ R!Approved(R!StoredSet(r.owner))'
               /\ Bounded(R!StoredSet(r.owner)', r)
    <3>1. /\ UNCHANGED decision /\ R!Approved(R!StoredSet(r.owner)')
          /\ Bounded(R!StoredSet(r.owner)', r)
      BY <1>3, <2>1, WritesOfOneSet
    <3>2. \A p \in R!StoredSet(r.owner)' : R!State(p)' = "approved"
      BY <3>1, SameConsent DEF R!Approved
    <3> QED  BY <3>1, <3>2 DEF R!Approved
  <2> QED  BY <2>1 DEF Bounded, Beside, R!WritesWithinBounds
<1>4. RulesInv /\ [Next]_vars => [R!WritesWithinBounds]_(R!rulesVars)
  BY <1>3, RulesFollowed
<1>5. Spec => [][R!WritesWithinBounds]_(R!rulesVars)
  BY <1>1, <1>2, <1>4, PTL DEF Spec
<1> QED  BY <1>5 DEF WrittenWithinBounds, R!WrittenWithinBounds

\* What goes to a chat is all of its project's rules, of a project with no member that is
\* not approved at that moment, and of the chat's own rules only those saved at or above
\* its directory, for any number of checkouts, folders, chats and changes
\* (standing-rules.ts: the reader of the receipt's transaction asks everything again).
THEOREM ServedInPlaceHolds ==
    ASSUME Numbered
    PROVE  Spec => ServedInPlace
<1>1. Init => RulesInv
  BY RulesStart DEF Init
<1>2. RulesInv /\ [Next]_vars => RulesInv'
  BY RulesFollowed, RulesStepKeeps
<1>3. ASSUME RulesInv, R!Delivers
      PROVE  R!DeliversInPlace
  <2> DEFINE body == R!ProjectRules(rulesJob.set) \union R!ChatRules(rulesJob)
             r == CHOOSE r \in body : TRUE
  <2>1. /\ rulesJob.kind = "delivery" /\ served'.rules = body /\ body # {}
        /\ R!StoredSet(rulesJob.owner) = rulesJob.set /\ R!Approved(rulesJob.set)
        /\ R!State(rulesJob.cwd) = "approved"
    BY <1>3 DEF R!Delivers, R!StillServable
  <2>2. \A q \in R!ProjectRules(rulesJob.set) : q.owner \in rulesJob.set /\ q.chat = R!NoChat
    BY DEF R!ProjectRules, R!RulesOf
  <2>3. \A q \in R!ChatRules(rulesJob) :
           /\ q.owner \in rulesJob.set /\ q.chat = rulesJob.chat
           /\ R!Within(q.anchor, rulesJob.cwd)
    <3> DEFINE nearest == R!Anchor(rulesJob.set, rulesJob.chat, rulesJob.cwd, rulesJob.root,
                                  rulesJob.default)
    <3>1. R!ChatRules(rulesJob) # {} =>
             /\ nearest # R!None
             /\ R!ChatRules(rulesJob) = R!RulesOf(rulesJob.set, rulesJob.chat, nearest)
      BY DEF R!ChatRules
    <3>2. nearest # R!None => R!Within(nearest, rulesJob.cwd)
      BY <1>3, <2>1 DEF RulesInv, PreparedInv, R!Anchor, R!Eligible
    <3> HIDE DEF nearest
    <3> QED  BY <3>1, <3>2 DEF R!RulesOf
  <2>4. r \in body
    BY <2>1
  <2>5. r.owner \in rulesJob.set
    BY <2>2, <2>3, <2>4
  <2>6. R!StoredSet(r.owner) = rulesJob.set
    BY <2>1, <2>5, TogetherIsShared
  <2>7. R!DeliversInPlace =
          (/\ R!Approved(R!StoredSet(r.owner)) /\ R!State(rulesJob.cwd) = "approved"
           /\ R!ProjectRules(R!StoredSet(r.owner)) \subseteq body
           /\ \A q \in body :
                 /\ q.owner \in R!StoredSet(r.owner)
                 /\ q.chat # R!NoChat => q.chat = rulesJob.chat /\ R!Within(q.anchor, rulesJob.cwd))
    BY <2>1 DEF R!DeliversInPlace
  <2> QED  BY <2>1, <2>2, <2>3, <2>6, <2>7
<1>4. ASSUME R!RulesNext, ~R!Delivers
      PROVE  served'.rules = {} \/ rulesJob.kind # "delivery"
  <2>1. ASSUME NEW p, R!Grants(p) \/ R!Revokes(p) \/ R!RemovesRoot(p) \/ R!Captures(p)
                        \/ R!InitializesRepository(p)
        PROVE  served' = R!Nothing
    BY <2>1 DEF R!Grants, R!Revokes, R!RemovesRoot, R!Captures, R!InitializesRepository
  <2>2. ASSUME NEW words, R!CommitsCommand(words) \/ R!CommitsChatCommand(words)
                            \/ R!CommitsFirst(words)
        PROVE  rulesJob.kind # "delivery"
    BY <2>2 DEF R!CommitsCommand, R!CommitsChatCommand, R!CommitsFirst
  <2>3. ASSUME NEW p, NEW words, R!PreviewsImport(p, words) \/ R!Imports(p)
        PROVE  served' = R!Nothing
    BY <2>3, ImportsOne DEF R!PreviewsImport
  <2>4. ASSUME NEW p, NEW project, NEW at,
               R!PreparesCommand(p, project, at) \/ R!PreparesFirst(p, project, at)
                 \/ R!PreparesDelivery(p, project, at)
        PROVE  served' = R!Nothing
    BY <2>4 DEF R!PreparesCommand, R!PreparesFirst, R!PreparesDelivery
  <2>5. R!Prepares \/ R!GivesUp => served' = R!Nothing
    BY <2>4 DEF R!Prepares, R!GivesUp
  <2> QED  BY <1>4, <2>1, <2>2, <2>3, <2>5 DEF R!RulesNext, R!Nothing
<1>5. RulesInv /\ [Next]_vars => [R!DeliversInPlace]_(R!rulesVars)
  BY <1>3, <1>4, RulesFollowed DEF R!DeliversInPlace
<1>6. Spec => [][R!DeliversInPlace]_(R!rulesVars)
  BY <1>1, <1>2, <1>5, PTL DEF Spec
<1> QED  BY <1>6 DEF ServedInPlace, R!ServedInPlace

------------------------------------------------------------------------------
\* The read gate (Paranoid).  The row only goes forward: to a higher generation, from
\* none to a quarantine, or to its tag.
IsRow(a) ==
    /\ a = P!Row(a.enrolled, a.state, a.generation, a.tag)
    /\ a.enrolled \in BOOLEAN /\ a.state \in {"locked", "unlocked"}
    /\ a.generation \in Nat /\ a.tag \in Nat
    /\ ~a.enrolled => a.state = "unlocked"
Rank(a) ==
    4 * a.generation + (IF a.tag # P!NoTag THEN 2 ELSE 0) + (IF a.enrolled THEN 1 ELSE 0)
Follows(a, b) == a = b \/ Rank(a) < Rank(b)

IsGate(f) ==
    /\ DOMAIN f = {"mode", "tag", "phrase", "epoch", "state", "authentic"}
    /\ f.authentic \in BOOLEAN /\ f.tag \in Nat /\ f.epoch \in Nat
    /\ f # P!NoFile =>
          /\ f.mode \in {"default", "paranoid"} /\ f.epoch >= 1
          /\ f.state \in {"locked", "unlocked"} /\ (f.authentic => f.tag # P!NoTag)

\* A command has seen the row as it is or was; what it writes to the row is of the
\* generation after that, and only `unlock` and `disable` write what opens reads.
Restricts == {"enable", "lock"}
Permits   == {"unlock", "disable"}
CommandStages == {"opening", "openingFile", "adopting", "deciding", "decidingFile", "writing"}

WritingInv(j, a) ==
    /\ IsGate(j.file) /\ j.file # P!NoFile
    /\ j.op \in Restricts =>
          /\ j.file.state = "locked" /\ j.file.mode = "paranoid"
          /\ j.left \in {<<"row", "file">>, <<"file">>}
    /\ j.op \in Permits => j.left \in {<<"file", "row">>, <<"row">>}
    /\ j.left # <<"file">> => j.file.epoch = j.seen.generation + 1
    /\ Head(j.left) = "file" => a # P!Pristine
CommandInv(j, a, f) ==
    /\ DOMAIN j = {"op", "phrase", "stage", "seen", "file", "left"}
    /\ j.op \in Restricts \union Permits /\ j.stage \in CommandStages
    /\ IsRow(j.seen) /\ Follows(j.seen, a)
    /\ j.stage = "adopting" =>
          IsGate(j.file) /\ (a = P!Pristine => j.file \in {P!NoFile, f})
    /\ j.stage = "writing" => WritingInv(j, a)

\* As long as the row is the one a reader has its token of, no lock has returned since
\* it began.
ReaderStages == {"begin", "beginFile", "rendering", "checking", "committing"}

ReaderInv(j, a, f, n) ==
    /\ DOMAIN j = {"op", "stage", "seen", "token", "since", "late"}
    /\ j.op = "read" /\ j.stage \in ReaderStages
    /\ IsRow(j.seen) /\ Follows(j.seen, a) /\ IsRow(j.token) /\ Follows(j.token, j.seen)
    /\ j.stage = "beginFile" => (a = j.seen /\ j.seen.state = "unlocked" => j.since = n)
    /\ j.stage \in {"rendering", "checking", "committing"} =>
          j.token.state = "unlocked" /\ (a = j.token => j.since = n)
    /\ j.stage \in {"checking", "committing"} /\ j.late =>
          j.token # j.seen \/ (j.seen = P!Pristine /\ f # P!NoFile)
    /\ j.stage = "committing" =>
          /\ j.token = j.seen /\ ~j.late
          /\ a = P!Pristine => f = P!NoFile

JobInv(j, a, f, n) == j = P!Idle \/ CommandInv(j, a, f) \/ ReaderInv(j, a, f, n)

\* A lock that returned keeps the row locked, and the file of a database that has no
\* row of its own yet.
GateInv ==
    /\ IsRow(paranoidAuthority) /\ IsGate(paranoidFile)
    /\ \A k \in DOMAIN earlier : IsGate(earlier[k])
    /\ closed =>
          \/ paranoidAuthority.state = "locked"
          \/ /\ paranoidAuthority = P!Pristine /\ paranoidFile # P!NoFile
             /\ paranoidFile.state = "locked" /\ paranoidFile.mode = "paranoid"
    /\ closed => ~P!Opens
JobsInv ==
    /\ paranoidJob = [p \in ParanoidProcs |-> paranoidJob[p]]
    /\ \A p \in ParanoidProcs :
          JobInv(paranoidJob[p], paranoidAuthority, paranoidFile, locks)
ParanoidInv == GateInv /\ JobsInv

------------------------------------------------------------------------------
LEMMA PristineIs ==
    /\ IsRow(P!Pristine) /\ Rank(P!Pristine) = 0 /\ P!Pristine.state = "unlocked"
    /\ P!Pristine.generation = 0 /\ ~P!Pristine.enrolled /\ P!Pristine.tag = P!NoTag
    /\ IsGate(P!NoFile)
BY DEF IsRow, Rank, IsGate, P!Pristine, P!Row, P!NoTag, P!NoFile, P!Gate

LEMMA RanksAre ==
    ASSUME NEW a, IsRow(a)
    PROVE  /\ Rank(a) \in Nat
           /\ Rank(a) = 0 => a = P!Pristine
           /\ 4 * a.generation <= Rank(a) /\ Rank(a) < 4 * a.generation + 4
<1> DEFINE t == IF a.tag # P!NoTag THEN 2 ELSE 0
           e == IF a.enrolled THEN 1 ELSE 0
<1>1. t \in {0, 2} /\ e \in {0, 1} /\ Rank(a) = 4 * a.generation + t + e /\ a.generation \in Nat
  BY DEF IsRow, Rank
<1>2. t = 0 /\ e = 0 /\ a.generation = 0 => a = P!Pristine
  BY DEF IsRow, P!Pristine, P!Row
<1> HIDE DEF t, e
<1>3. Rank(a) \in Nat /\ 4 * a.generation <= Rank(a) /\ Rank(a) < 4 * a.generation + 4
  BY <1>1
<1>4. ASSUME Rank(a) = 0
      PROVE  t = 0 /\ e = 0 /\ a.generation = 0
  <2>1. \A g, u, v \in Nat : 4 * g + u + v = 0 => u = 0 /\ v = 0 /\ g = 0
    OBVIOUS
  <2>2. 4 * a.generation + t + e = 0 /\ t \in Nat /\ e \in Nat /\ a.generation \in Nat
    BY <1>1, <1>4
  <2> QED  BY <2>1, <2>2
<1> QED  BY <1>2, <1>3, <1>4

LEMMA FollowsIs ==
    ASSUME NEW a, NEW b, IsRow(a), IsRow(b)
    PROVE  /\ Follows(P!Pristine, a)
           /\ Follows(a, b) /\ P!SameGeneration(a, b) => a = b
           /\ Follows(a, b) /\ b = P!Pristine => a = P!Pristine
           /\ Rank(a) < Rank(b) => b # P!Pristine /\ a # b
           /\ a.generation < b.generation => Rank(a) < Rank(b)
<1>1. Follows(P!Pristine, a)
  BY RanksAre, PristineIs DEF Follows
<1>2. P!SameGeneration(a, b) => Rank(a) = Rank(b)
  BY DEF P!SameGeneration, Rank
<1>3. ~(Rank(a) < Rank(a)) /\ (Rank(a) = Rank(b) => ~(Rank(a) < Rank(b)))
  BY RanksAre
<1>4. Rank(a) < Rank(b) => b # P!Pristine
  BY RanksAre, PristineIs
<1>5. a.generation < b.generation => Rank(a) < Rank(b)
  <2>1. /\ Rank(a) \in Nat /\ Rank(b) \in Nat /\ a.generation \in Nat /\ b.generation \in Nat
        /\ Rank(a) < 4 * a.generation + 4 /\ 4 * b.generation <= Rank(b)
    BY RanksAre DEF IsRow
  <2> QED  BY <2>1
<1> QED  BY <1>1, <1>2, <1>3, <1>4, <1>5 DEF Follows

LEMMA FollowsOn ==
    ASSUME NEW a, NEW b, NEW c, IsRow(a), IsRow(b), IsRow(c), Follows(a, b), Follows(b, c)
    PROVE  /\ Follows(a, c)
           /\ b # c => a # c
BY RanksAre DEF Follows

LEMMA RowsOfFiles ==
    ASSUME NEW f, IsGate(f), f # P!NoFile
    PROVE  /\ IsRow(P!RowFor(f)) /\ P!RowFor(f).generation = f.epoch
           /\ f.mode = "paranoid" => P!RowFor(f).state = f.state
BY DEF IsGate, IsRow, P!RowFor, P!Row

\* Two places agree that never were enabled, or on what both hold.
LEMMA ExactIs ==
    ASSUME NEW a, NEW f, IsRow(a), IsGate(f), P!Exact(a, f)
    PROVE  /\ a = P!Pristine => f = P!NoFile
           /\ a # P!Pristine => f # P!NoFile /\ f.authentic
<1>1. ASSUME P!Matches(a, f)
      PROVE  f # P!NoFile /\ f.authentic /\ a.generation >= 1
  <2>1. f # P!NoFile /\ f.authentic /\ a = [P!RowFor(f) EXCEPT !.tag = a.tag]
    BY <1>1 DEF P!Matches, P!FieldsMatch
  <2>2. a.generation = f.epoch
    BY <2>1 DEF P!RowFor, P!Row
  <2> QED  BY <2>1, <2>2 DEF IsGate
<1> QED  BY <1>1, PristineIs DEF P!Exact

------------------------------------------------------------------------------
\* What the other processes do leaves a job as it is: the row goes forward, a file is
\* put in place of another, and a lock returns only with the row locked.
LEMMA JobStays ==
    ASSUME NEW j, NEW a, NEW f, NEW n, JobInv(j, a, f, n), IsRow(a),
           NEW b, IsRow(b), Follows(a, b),
           NEW g, g = f \/ (g # P!NoFile /\ a # P!Pristine),
           NEW m, m = n \/ (a.state = "locked" /\ b = a)
    PROVE  JobInv(j, b, g, m)
<1>1. b = P!Pristine => a = P!Pristine /\ g = f
  BY FollowsIs
<1>2. CASE CommandInv(j, a, f)
  <2>1. Follows(j.seen, b)
    BY <1>2, FollowsOn DEF CommandInv
  <2>2. j.stage = "writing" => WritingInv(j, b)
    BY <1>1, <1>2 DEF CommandInv, WritingInv
  <2>3. CommandInv(j, b, g)
    BY <1>1, <1>2, <2>1, <2>2 DEF CommandInv
  <2> QED  BY <2>3 DEF JobInv
<1>3. CASE ReaderInv(j, a, f, n)
  <2>1. /\ IsRow(j.seen) /\ Follows(j.seen, a) /\ IsRow(j.token) /\ Follows(j.token, a)
    BY <1>3, FollowsOn DEF ReaderInv
  <2>2. Follows(j.seen, b) /\ (b = j.seen => a = b) /\ (b = j.token => a = b)
    BY <2>1, FollowsOn
  <2>3. j.stage = "beginFile" => (b = j.seen /\ j.seen.state = "unlocked" => j.since = m)
    BY <1>3, <2>2 DEF ReaderInv
  <2>4. j.stage \in {"rendering", "checking", "committing"} => (b = j.token => j.since = m)
    BY <1>3, <2>2 DEF ReaderInv
  <2>5. j.stage \in {"checking", "committing"} /\ j.late =>
            j.token # j.seen \/ (j.seen = P!Pristine /\ g # P!NoFile)
    BY <1>3 DEF ReaderInv
  <2>6. j.stage = "committing" => (b = P!Pristine => g = P!NoFile)
    BY <1>1, <1>3 DEF ReaderInv
  <2>7. ReaderInv(j, b, g, m)
    BY <1>3, <2>2, <2>3, <2>4, <2>5, <2>6 DEF ReaderInv
  <2> QED  BY <2>7 DEF JobInv
<1> QED  BY <1>2, <1>3 DEF JobInv

Becomes(p, x) == paranoidJob' = [q \in ParanoidProcs |-> IF q = p THEN x ELSE paranoidJob[q]]

LEMMA JobsStay ==
    ASSUME ParanoidInv, NEW p \in ParanoidProcs, NEW x, Becomes(p, x),
           JobInv(x, paranoidAuthority', paranoidFile', locks'),
           IsRow(paranoidAuthority'), Follows(paranoidAuthority, paranoidAuthority'),
           paranoidFile' = paranoidFile
              \/ (paranoidFile' # P!NoFile /\ paranoidAuthority # P!Pristine),
           locks' = locks
              \/ (paranoidAuthority.state = "locked" /\ UNCHANGED paranoidAuthority)
    PROVE  JobsInv'
<1>1. ASSUME NEW q \in ParanoidProcs
      PROVE  JobInv(paranoidJob'[q], paranoidAuthority', paranoidFile', locks')
  <2>1. CASE q = p
    BY <2>1 DEF Becomes
  <2>2. CASE q # p
    <3>1. paranoidJob'[q] = paranoidJob[q]
      BY <2>2 DEF Becomes
    <3>2. JobInv(paranoidJob[q], paranoidAuthority, paranoidFile, locks) /\ IsRow(paranoidAuthority)
      BY DEF ParanoidInv, JobsInv, GateInv
    <3> QED  BY <3>1, <3>2, JobStays
  <2> QED  BY <2>1, <2>2
<1>2. paranoidJob' = [q \in ParanoidProcs |-> paranoidJob'[q]]
  BY DEF Becomes
<1> QED  BY <1>1, <1>2 DEF JobsInv

\* No passphrase is in use after a step that accepts none.
LEMMA NoneOpens ==
    ASSUME GateInv, NEW p \in ParanoidProcs, NEW x, Becomes(p, x),
           closed' => ~P!Opens /\ ~(x.op \in Permits /\ x.stage = "writing")
    PROVE  closed' => ~P!Opens'
<1> SUFFICES ASSUME closed', NEW q \in ParanoidProcs,
                    P!At(q, "writing")', paranoidJob'[q].op \in {"unlock", "disable"}
             PROVE  FALSE
  BY DEF P!Opens
<1>1. CASE q = p
  BY <1>1 DEF Becomes, Permits, P!At
<1>2. CASE q # p
  BY <1>2 DEF Becomes, P!At, P!Opens
<1> QED  BY <1>1, <1>2

LEMMA OnlyJobMoves ==
    ASSUME ParanoidInv, NEW p \in ParanoidProcs, NEW x, Becomes(p, x),
           UNCHANGED <<paranoidAuthority, paranoidFile, earlier, closed, locks>>,
           JobInv(x, paranoidAuthority, paranoidFile, locks),
           ~(x.op \in Permits /\ x.stage = "writing")
    PROVE  ParanoidInv'
<1>1. GateInv'
  BY NoneOpens DEF ParanoidInv, GateInv
<1>2. IsRow(paranoidAuthority) /\ Follows(paranoidAuthority, paranoidAuthority)
  BY DEF ParanoidInv, GateInv, Follows
<1>3. JobInv(x, paranoidAuthority', paranoidFile', locks') /\ IsRow(paranoidAuthority')
      /\ Follows(paranoidAuthority, paranoidAuthority')
  BY <1>2
<1>4. JobsInv'
  BY <1>3, JobsStay
<1> QED  BY <1>1, <1>4 DEF ParanoidInv

LEMMA StepsOfJob ==
    ASSUME ParanoidInv, NEW p \in ParanoidProcs
    PROVE  /\ \A x : paranoidJob' = [paranoidJob EXCEPT ![p] = x] => Becomes(p, x)
           /\ \A s : P!Goes(p, s) => Becomes(p, [paranoidJob[p] EXCEPT !.stage = s])
           /\ P!Ends(p) => Becomes(p, P!Idle)
<1>1. paranoidJob = [q \in ParanoidProcs |-> paranoidJob[q]]
  BY DEF ParanoidInv, JobsInv
<1>2. \A x : paranoidJob' = [paranoidJob EXCEPT ![p] = x] => Becomes(p, x)
  BY <1>1 DEF Becomes
<1> QED  BY <1>2 DEF P!Goes, P!Ends

LEMMA WhoIsAt ==
    ASSUME ParanoidInv, NEW p \in ParanoidProcs, NEW s, P!At(p, s)
    PROVE  /\ paranoidJob[p].stage = s
           /\ s \in CommandStages =>
                 CommandInv(paranoidJob[p], paranoidAuthority, paranoidFile)
           /\ s \in ReaderStages =>
                 ReaderInv(paranoidJob[p], paranoidAuthority, paranoidFile, locks)
<1>1. JobInv(paranoidJob[p], paranoidAuthority, paranoidFile, locks)
      /\ paranoidJob[p].op # "idle" /\ paranoidJob[p].stage = s
  BY DEF ParanoidInv, JobsInv, P!At
<1> QED
  BY <1>1 DEF JobInv, CommandInv, ReaderInv, CommandStages, ReaderStages, P!Idle

\* An ended job, of a process that is killed or of a command that does not go on.
LEMMA JobEnds ==
    ASSUME ParanoidInv, NEW p \in ParanoidProcs, P!Ends(p),
           UNCHANGED <<paranoidAuthority, paranoidFile, earlier, closed, locks>>
    PROVE  ParanoidInv'
<1>1. Becomes(p, P!Idle)
  BY StepsOfJob
<1>2. JobInv(P!Idle, paranoidAuthority, paranoidFile, locks) /\ P!Idle.op \notin Permits
  BY DEF JobInv, P!Idle, Permits
<1> QED  BY <1>1, <1>2, OnlyJobMoves

LEMMA ParanoidStarts == P!ParanoidInit => ParanoidInv
<1> SUFFICES ASSUME P!ParanoidInit PROVE ParanoidInv
  OBVIOUS
<1>1. paranoidJob = [p \in ParanoidProcs |-> P!Idle] /\ earlier = <<>>
      /\ (closed <=> (paranoidFile # P!NoFile /\ paranoidFile.state = "locked"))
  BY DEF P!ParanoidInit
<1>2. JobsInv
  BY <1>1 DEF JobsInv, JobInv
<1>3. ~P!Opens
  BY <1>1 DEF P!Opens, P!At, P!Idle
<1>4. IsRow(paranoidAuthority) /\ IsGate(paranoidFile)
      /\ (closed => paranoidFile.mode = "paranoid")
      /\ (paranoidAuthority = P!Pristine \/ paranoidAuthority.state = "locked")
  <2> DEFINE Locked(f) == /\ IsGate(f) /\ f # P!NoFile
                          /\ f.mode = "paranoid" /\ f.state \in {"locked", "unlocked"}
  <2>1. /\ Locked(P!Damaged) /\ Locked(P!Gate("paranoid", 1, 1, 1, "locked"))
        /\ Locked(P!Gate("paranoid", 1, 1, 2, "unlocked"))
    BY DEF IsGate, P!Gate, P!NoFile, P!Damaged, P!NoTag
  <2>2. paranoidFile = P!NoFile \/ Locked(paranoidFile)
    BY <2>1 DEF P!ParanoidInit
  <2>3. paranoidAuthority \in {P!Pristine, P!Row(TRUE, "locked", 1, P!NoTag)}
    BY DEF P!ParanoidInit
  <2>4. LET a == P!Row(TRUE, "locked", 1, P!NoTag) IN IsRow(a) /\ a.state = "locked"
    BY DEF IsRow, P!Row, P!NoTag
  <2> QED  BY <1>1, <2>2, <2>3, <2>4, PristineIs
<1>5. \A k \in DOMAIN earlier : IsGate(earlier[k])
  BY <1>1
<1>6. GateInv
  BY <1>1, <1>3, <1>4, <1>5 DEF GateInv
<1> QED  BY <1>2, <1>6 DEF ParanoidInv

LEMMA CommandTyped ==
    ASSUME ParanoidInv, NEW p \in ParanoidProcs, NEW op \in Restricts \union Permits, NEW w,
           P!Types(p, op, w)
    PROVE  ParanoidInv'
<1> DEFINE x == [op |-> op, phrase |-> w,
                 stage |-> IF P!Settled THEN "deciding" ELSE "opening",
                 seen |-> P!Pristine, file |-> P!NoFile, left |-> <<>>]
<1>1. Becomes(p, x) /\ UNCHANGED <<paranoidAuthority, paranoidFile, earlier, closed, locks>>
  BY StepsOfJob DEF P!Types
<1>2. CommandInv(x, paranoidAuthority, paranoidFile)
  BY PristineIs, FollowsIs DEF CommandInv, CommandStages, ParanoidInv, GateInv
<1>3. JobInv(x, paranoidAuthority, paranoidFile, locks) /\ x.stage # "writing"
  BY <1>2 DEF JobInv
<1> HIDE DEF x
<1> QED  BY <1>1, <1>3, OnlyJobMoves

LEMMA CommandLooks ==
    ASSUME ParanoidInv, NEW p \in ParanoidProcs,
           P!OpeningSeesRow(p) \/ P!OpeningSeesFile(p) \/ P!DecidingSeesRow(p)
    PROVE  ParanoidInv'
<1>0. IsRow(paranoidAuthority) /\ Follows(paranoidAuthority, paranoidAuthority)
      /\ IsGate(paranoidFile)
  BY DEF ParanoidInv, GateInv, Follows
<1>1. ASSUME NEW from \in {"opening", "deciding"}, NEW to \in {"openingFile", "decidingFile"},
             P!Sees(p, from, to),
             UNCHANGED <<paranoidAuthority, paranoidFile, earlier, closed, locks>>
      PROVE  ParanoidInv'
  <2> DEFINE x == [paranoidJob[p] EXCEPT !.stage = to, !.seen = paranoidAuthority]
  <2>1. P!At(p, from) /\ Becomes(p, x)
    BY <1>1, StepsOfJob DEF P!Sees, P!At
  <2>2. CommandInv(paranoidJob[p], paranoidAuthority, paranoidFile)
    BY <2>1, WhoIsAt DEF CommandStages
  <2>3. CommandInv(x, paranoidAuthority, paranoidFile) /\ x.stage = to
    BY <1>0, <2>2 DEF CommandInv, CommandStages
  <2>4. JobInv(x, paranoidAuthority, paranoidFile, locks)
    BY <2>3 DEF JobInv
  <2> HIDE DEF x
  <2> QED  BY <1>1, <2>1, <2>3, <2>4, OnlyJobMoves
<1>2. CASE P!OpeningSeesRow(p)
  BY <1>1, <1>2 DEF P!OpeningSeesRow
<1>3. CASE P!DecidingSeesRow(p)
  BY <1>1, <1>3 DEF P!DecidingSeesRow
<1>4. CASE P!OpeningSeesFile(p)
  <2> DEFINE x == [paranoidJob[p] EXCEPT !.stage = "adopting", !.file = paranoidFile]
  <2>1. /\ P!At(p, "openingFile") /\ Becomes(p, x)
        /\ UNCHANGED <<paranoidAuthority, paranoidFile, earlier, closed, locks>>
    BY <1>4, StepsOfJob DEF P!OpeningSeesFile
  <2>2. CommandInv(paranoidJob[p], paranoidAuthority, paranoidFile)
    BY <2>1, WhoIsAt DEF CommandStages
  <2>3. CommandInv(x, paranoidAuthority, paranoidFile) /\ x.stage = "adopting"
    BY <1>0, <2>2 DEF CommandInv, CommandStages
  <2>4. JobInv(x, paranoidAuthority, paranoidFile, locks)
    BY <2>3 DEF JobInv
  <2> HIDE DEF x
  <2> QED  BY <2>1, <2>3, <2>4, OnlyJobMoves
<1> QED  BY <1>2, <1>3, <1>4

LEMMA RowIsAdopted ==
    ASSUME ParanoidInv, NEW p \in ParanoidProcs, P!Adopts(p)
    PROVE  ParanoidInv'
<1> DEFINE j == paranoidJob[p]
           x == [j EXCEPT !.stage = "deciding"]
<1>1. /\ P!At(p, "adopting") /\ Becomes(p, x)
      /\ UNCHANGED <<paranoidFile, earlier, closed, locks>>
  BY StepsOfJob DEF P!Adopts
<1>2. /\ CommandInv(j, paranoidAuthority, paranoidFile) /\ j.stage = "adopting"
      /\ IsGate(j.file) /\ IsRow(paranoidAuthority) /\ IsRow(j.seen)
  BY <1>1, WhoIsAt DEF CommandStages, CommandInv, ParanoidInv, GateInv
<1>3. /\ IsRow(paranoidAuthority') /\ Follows(paranoidAuthority, paranoidAuthority')
      /\ closed => paranoidAuthority'.state = "locked" \/ UNCHANGED paranoidAuthority
  <2>1. CASE j.file # P!NoFile /\ paranoidAuthority = P!Pristine
             /\ paranoidAuthority' = P!Adopted(j.file)
    <3>1. IsRow(P!Quarantined) /\ P!Quarantined.state = "locked"
      BY DEF IsRow, P!Quarantined, P!Row, P!NoTag
    <3>2. IsRow(paranoidAuthority')
      BY <1>2, <2>1, <3>1, RowsOfFiles DEF P!Adopted
    <3>3. ASSUME closed
          PROVE  paranoidAuthority'.state = "locked"
      <4>1. paranoidFile.state = "locked" /\ paranoidFile.mode = "paranoid"
        BY <2>1, <3>3, PristineIs DEF ParanoidInv, GateInv
      <4>2. j.file = paranoidFile
        BY <1>2, <2>1 DEF CommandInv
      <4> QED  BY <1>2, <2>1, <3>1, <4>1, <4>2, RowsOfFiles DEF P!Adopted
    <3> QED  BY <1>2, <2>1, <3>2, <3>3, FollowsIs
  <2>2. CASE P!MayTag(j.seen, j.file) /\ paranoidAuthority = j.seen
             /\ paranoidAuthority' = [paranoidAuthority EXCEPT !.tag = j.file.tag]
    <3> DEFINE a == paranoidAuthority
               b == P!Row(a.enrolled, a.state, a.generation, j.file.tag)
    <3>1. a.tag = P!NoTag /\ j.file.tag # P!NoTag /\ j.file.tag \in Nat
      BY <1>2, <2>2 DEF P!MayTag, P!FieldsMatch, IsGate
    <3>2. a' = b
      BY <1>2, <2>2 DEF IsRow, P!Row
    <3>3. IsRow(b) /\ b.state = a.state /\ Rank(a) < Rank(b)
      BY <1>2, <3>1 DEF IsRow, P!Row, Rank
    <3>4. closed => a.state = "locked"
      BY <2>2 DEF P!MayTag, ParanoidInv, GateInv
    <3> QED  BY <3>2, <3>3, <3>4 DEF Follows
  <2>3. CASE UNCHANGED paranoidAuthority
    BY <1>2, <2>3 DEF Follows
  <2> QED  BY <2>1, <2>2, <2>3 DEF P!Adopts
<1>4. CommandInv(x, paranoidAuthority', paranoidFile)
  <2>1. Follows(j.seen, paranoidAuthority')
    BY <1>2, <1>3, FollowsOn DEF CommandInv
  <2> QED  BY <1>2, <2>1 DEF CommandInv, CommandStages
<1>5. JobInv(x, paranoidAuthority', paranoidFile', locks') /\ x.stage = "deciding"
  BY <1>1, <1>2, <1>4 DEF JobInv, CommandInv
<1> HIDE DEF x, j
<1>6. JobsInv'
  BY <1>1, <1>3, <1>5, JobsStay
<1>7. GateInv'
  <2>1. closed' => ~P!Opens'
    BY <1>1, <1>5, NoneOpens DEF ParanoidInv, GateInv
  <2> QED  BY <1>1, <1>3, <2>1 DEF ParanoidInv, GateInv
<1> QED  BY <1>6, <1>7 DEF ParanoidInv

LEMMA WritePlanned ==
    ASSUME ParanoidInv, NEW p \in ParanoidProcs, P!At(p, "decidingFile"),
           NEW payload, NEW order, P!Plans(p, payload, order),
           UNCHANGED <<paranoidAuthority, paranoidFile, earlier, locks>>,
           IsGate(payload), payload # P!NoFile,
           \/ /\ paranoidJob[p].op \in Restricts /\ UNCHANGED closed
              /\ payload.state = "locked" /\ payload.mode = "paranoid"
              /\ order \in {<<"row", "file">>, <<"file">>}
           \/ /\ paranoidJob[p].op \in Permits /\ ~closed'
              /\ order \in {<<"file", "row">>, <<"row">>},
           order # <<"file">> => payload.epoch = paranoidJob[p].seen.generation + 1,
           order # <<"row", "file">> /\ order # <<"row">> => paranoidJob[p].seen.enrolled
    PROVE  ParanoidInv'
<1> DEFINE j == paranoidJob[p]
           x == [j EXCEPT !.stage = "writing", !.file = payload, !.left = order]
<1>1. Becomes(p, x)
  BY StepsOfJob DEF P!Plans
<1>2. CommandInv(j, paranoidAuthority, paranoidFile) /\ IsRow(paranoidAuthority)
  BY WhoIsAt DEF CommandStages, ParanoidInv, GateInv
<1>3. /\ DOMAIN x = {"op", "phrase", "stage", "seen", "file", "left"}
      /\ x.op = j.op /\ x.seen = j.seen /\ x.stage = "writing" /\ x.file = payload
      /\ x.left = order
  BY <1>2 DEF CommandInv
<1>4. Head(order) = "file" => paranoidAuthority # P!Pristine
  BY <1>2, FollowsIs, PristineIs DEF CommandInv, Restricts, Permits
<1>5. Restricts \intersect Permits = {}
  BY DEF Restricts, Permits
<1> HIDE DEF x
<1>6. WritingInv(x, paranoidAuthority)
  BY <1>3, <1>4, <1>5 DEF WritingInv
<1>7. CommandInv(x, paranoidAuthority, paranoidFile)
  BY <1>2, <1>3, <1>6 DEF CommandInv, CommandStages
<1>8. JobInv(x, paranoidAuthority', paranoidFile', locks')
  BY <1>7 DEF JobInv
<1> HIDE DEF j
<1>9. JobsInv'
  BY <1>1, <1>2, <1>8, JobsStay DEF Follows
<1>10. GateInv'
  <2>1. closed' => ~P!Opens'
    BY <1>1, <1>3, <1>5, NoneOpens DEF ParanoidInv, GateInv, j
  <2> QED  BY <2>1 DEF ParanoidInv, GateInv
<1> QED  BY <1>9, <1>10 DEF ParanoidInv

\* What the files that a command writes hold.
Turned(f, e, s)  == [f EXCEPT !.epoch = e, !.state = s]
Retired(f, e)    == [f EXCEPT !.mode = "default", !.epoch = e, !.state = "unlocked"]

LEMMA FileTurned ==
    ASSUME NEW f, IsGate(f), f # P!NoFile, NEW e \in Nat, e >= 1, NEW s \in {"locked", "unlocked"}
    PROVE  /\ IsGate(Turned(f, e, s)) /\ Turned(f, e, s) # P!NoFile
           /\ Turned(f, e, s).epoch = e /\ Turned(f, e, s).state = s
           /\ Turned(f, e, s).mode = f.mode
<1>1. P!NoFile.mode = "none"
  BY DEF P!NoFile, P!Gate
<1> QED  BY <1>1 DEF IsGate, Turned

LEMMA FileRetired ==
    ASSUME NEW f, IsGate(f), f # P!NoFile, NEW e \in Nat, e >= 1
    PROVE  IsGate(Retired(f, e)) /\ Retired(f, e) # P!NoFile /\ Retired(f, e).epoch = e
<1>1. P!NoFile.mode = "none"
  BY DEF P!NoFile, P!Gate
<1> QED  BY <1>1 DEF IsGate, Retired

LEMMA CommandDecides ==
    ASSUME ParanoidInv, NEW p \in ParanoidProcs, P!Decides(p)
    PROVE  ParanoidInv'
<1> DEFINE j == paranoidJob[p]
           f == paranoidFile
<1>1. P!At(p, "decidingFile") /\ UNCHANGED <<paranoidAuthority, paranoidFile, earlier, locks>>
  BY DEF P!Decides
<1>2. /\ CommandInv(j, paranoidAuthority, f) /\ IsRow(j.seen) /\ IsGate(f)
      /\ j.seen.generation \in Nat /\ P!Next_(j.seen) = j.seen.generation + 1
      /\ j.seen.generation + 1 \in Nat /\ j.seen.generation + 1 >= 1
  BY <1>1, WhoIsAt DEF CommandStages, CommandInv, ParanoidInv, GateInv, IsRow, P!Next_
<1>3. P!Exact(j.seen, f) /\ P!Enrolled(p) =>
          f # P!NoFile /\ f.mode = "paranoid" /\ j.seen.enrolled
  BY DEF P!Enrolled
<1>4. CASE j.op = "enable" /\ P!Enables(p)
  <2> DEFINE g == P!Gate("paranoid", P!Next_(j.seen), j.phrase, P!Next_(j.seen), "locked")
  <2>1. P!Plans(p, g, P!Restrictive) /\ UNCHANGED closed
    BY <1>4 DEF P!Enables
  <2>2. /\ IsGate(g) /\ g # P!NoFile /\ g.state = "locked" /\ g.mode = "paranoid"
        /\ g.epoch = j.seen.generation + 1
    BY <1>2 DEF IsGate, P!Gate, P!NoFile, P!NoTag
  <2> HIDE DEF g
  <2> QED  BY <1>1, <1>4, <2>1, <2>2, WritePlanned DEF P!Restrictive, Restricts
<1>5. CASE j.op = "unlock" /\ P!Unlocks(p)
  <2>1. CASE P!PermissivePending(j.seen, f, "paranoid") /\ P!Plans(p, f, <<"row">>)
    BY <1>1, <1>2, <1>5, <2>1, WritePlanned
       DEF P!PermissivePending, P!SameCredential, P!Unlocks, Permits
  <2>2. CASE /\ P!Exact(j.seen, f) /\ P!Enrolled(p)
             /\ P!Plans(p, [f EXCEPT !.epoch = P!Next_(j.seen), !.state = "unlocked"], P!Permissive)
    <3> DEFINE g == Turned(f, P!Next_(j.seen), "unlocked")
    <3>1. IsGate(g) /\ g # P!NoFile /\ g.epoch = j.seen.generation + 1
      BY <1>2, <1>3, <2>2, FileTurned
    <3>2. P!Plans(p, g, P!Permissive) /\ ~closed'
      BY <1>5, <2>2 DEF P!Unlocks, Turned
    <3> HIDE DEF g
    <3> QED  BY <1>1, <1>3, <1>5, <2>2, <3>1, <3>2, WritePlanned DEF P!Permissive, Permits
  <2> QED  BY <1>5, <2>1, <2>2 DEF P!Unlocks
<1>6. CASE j.op = "lock" /\ P!Locks(p)
  <2>1. CASE /\ P!LockPending(j.seen, f)
             /\ P!Plans(p, [f EXCEPT !.epoch = j.seen.generation, !.state = "locked"], <<"file">>)
    <3> DEFINE g == Turned(f, j.seen.generation, "locked")
    <3>1. f # P!NoFile /\ f.mode = "paranoid" /\ j.seen.enrolled /\ j.seen.generation >= 1
      BY <1>2, <2>1 DEF P!LockPending, P!SameCredential, IsGate
    <3>2. IsGate(g) /\ g # P!NoFile /\ g.state = "locked" /\ g.mode = "paranoid"
      BY <1>2, <3>1, FileTurned
    <3>3. P!Plans(p, g, <<"file">>) /\ UNCHANGED closed
      BY <1>6, <2>1 DEF P!Locks, Turned
    <3> HIDE DEF g
    <3> QED  BY <1>1, <1>6, <3>1, <3>2, <3>3, WritePlanned DEF Restricts
  <2>2. CASE /\ P!Exact(j.seen, f) /\ P!Enrolled(p)
             /\ P!Plans(p, [f EXCEPT !.epoch = P!Next_(j.seen), !.state = "locked"], P!Restrictive)
    <3> DEFINE g == Turned(f, P!Next_(j.seen), "locked")
    <3>1. /\ IsGate(g) /\ g # P!NoFile /\ g.epoch = j.seen.generation + 1
          /\ g.state = "locked" /\ g.mode = "paranoid"
      BY <1>2, <1>3, <2>2, FileTurned
    <3>2. P!Plans(p, g, P!Restrictive) /\ UNCHANGED closed
      BY <1>6, <2>2 DEF P!Locks, Turned
    <3> HIDE DEF g
    <3> QED  BY <1>1, <1>3, <1>6, <2>2, <3>1, <3>2, WritePlanned DEF P!Restrictive, Restricts
  <2> QED  BY <1>6, <2>1, <2>2 DEF P!Locks
<1>7. CASE j.op = "disable" /\ P!Disables(p)
  <2>1. CASE P!PermissivePending(j.seen, f, "default") /\ P!Plans(p, f, <<"row">>)
    BY <1>1, <1>2, <1>7, <2>1, WritePlanned
       DEF P!PermissivePending, P!SameCredential, P!Disables, Permits
  <2>2. CASE /\ P!Exact(j.seen, f) /\ P!Enrolled(p)
             /\ P!Plans(p, [f EXCEPT !.mode = "default", !.epoch = P!Next_(j.seen),
                                     !.state = "unlocked"], P!Permissive)
    <3> DEFINE g == Retired(f, P!Next_(j.seen))
    <3>1. IsGate(g) /\ g # P!NoFile /\ g.epoch = j.seen.generation + 1
      BY <1>2, <1>3, <2>2, FileRetired
    <3>2. P!Plans(p, g, P!Permissive) /\ ~closed'
      BY <1>7, <2>2 DEF P!Disables, Retired
    <3> HIDE DEF g
    <3> QED  BY <1>1, <1>3, <1>7, <2>2, <3>1, <3>2, WritePlanned DEF P!Permissive, Permits
  <2> QED  BY <1>7, <2>1, <2>2 DEF P!Disables
<1>8. CASE P!Ends(p) /\ UNCHANGED closed
  BY <1>1, <1>8, JobEnds
<1> QED  BY <1>4, <1>5, <1>6, <1>7, <1>8 DEF P!Decides

LEMMA RowIsWritten ==
    ASSUME ParanoidInv, NEW p \in ParanoidProcs, P!WritesRow(p)
    PROVE  ParanoidInv'
<1> DEFINE j == paranoidJob[p]
           b == P!RowFor(j.file)
<1>1. P!At(p, "writing") /\ Head(j.left) = "row" /\ UNCHANGED <<paranoidFile, earlier>>
  BY DEF P!WritesRow
<1>2. /\ CommandInv(j, paranoidAuthority, paranoidFile) /\ WritingInv(j, paranoidAuthority)
      /\ IsRow(paranoidAuthority)
  BY <1>1, WhoIsAt DEF CommandStages, CommandInv, ParanoidInv, GateInv
<1>3. CASE ~P!Unmoved(p)
  BY <1>1, <1>3, JobEnds DEF P!WritesRow
<1>4. CASE P!Unmoved(p)
  <2>1. paranoidAuthority' = b /\ P!Returns(p) /\ paranoidAuthority = j.seen
    BY <1>4 DEF P!WritesRow, P!Unmoved
  <2>2. /\ IsRow(b) /\ Rank(paranoidAuthority) < Rank(b) /\ b # P!Pristine
    <3>1. j.left # <<"file">>
      BY <1>1
    <3>2. IsRow(b) /\ b.generation = j.seen.generation + 1 /\ j.seen.generation \in Nat
      BY <1>2, <3>1, RowsOfFiles DEF WritingInv, CommandInv, IsRow
    <3> QED  BY <1>2, <2>1, <3>2, FollowsIs
  <2>3. j.op \in Permits => ~closed
    BY <1>1 DEF ParanoidInv, GateInv, P!Opens, Permits
  <2>4. CASE j.op \in Restricts
    <3> DEFINE x == [j EXCEPT !.left = Tail(j.left)]
    <3>1. j.left = <<"row", "file">>
      BY <1>1, <1>2, <2>4 DEF WritingInv
    <3>2. Becomes(p, x) /\ UNCHANGED <<closed, locks>>
      BY <2>1, <3>1, StepsOfJob DEF P!Returns
    <3>3. /\ DOMAIN x = {"op", "phrase", "stage", "seen", "file", "left"}
          /\ x.op = j.op /\ x.seen = j.seen /\ x.stage = "writing" /\ x.file = j.file
          /\ x.left = <<"file">>
      BY <1>1, <1>2, <3>1 DEF CommandInv, P!At
    <3> HIDE DEF x
    <3>4. WritingInv(x, b)
      BY <1>2, <2>2, <2>4, <3>3 DEF WritingInv, Restricts, Permits
    <3>5. CommandInv(x, b, paranoidFile)
      <4>1. Follows(j.seen, b) /\ IsRow(j.seen) /\ j.op \in Restricts \union Permits
        BY <1>2, <2>1, <2>2 DEF CommandInv, Follows
      <4> QED  BY <3>3, <3>4, <4>1 DEF CommandInv, CommandStages
    <3>6. JobInv(x, paranoidAuthority', paranoidFile', locks')
      BY <1>1, <2>1, <3>5 DEF JobInv
    <3>7. b.state = "locked"
      BY <1>2, <2>4, RowsOfFiles DEF WritingInv
    <3>8. closed' => ~P!Opens'
      BY <2>4, <3>2, <3>3, NoneOpens DEF ParanoidInv, GateInv, Restricts, Permits
    <3> HIDE DEF j, b
    <3>9. JobsInv'
      BY <1>1, <2>1, <2>2, <3>2, <3>6, JobsStay DEF Follows
    <3> QED  BY <1>1, <2>1, <2>2, <3>2, <3>7, <3>8, <3>9 DEF ParanoidInv, GateInv
  <2>5. CASE j.op \in Permits
    <3>1. j.left = <<"row">>
      BY <1>1, <1>2, <2>5 DEF WritingInv
    <3>2. ~P!Locked(p)
      BY <2>5 DEF P!Locked, Permits
    <3>3. P!Ends(p) /\ ~closed' /\ UNCHANGED locks
      <4>1. /\ P!Ends(p) /\ closed' = (closed \/ (P!Locked(p) /\ ~P!Opens))
            /\ locks' = IF P!Locked(p) THEN locks + 1 ELSE locks
        BY <2>1, <3>1 DEF P!Returns
      <4> QED  BY <2>3, <2>5, <3>2, <4>1
    <3>4. Becomes(p, P!Idle) /\ JobInv(P!Idle, paranoidAuthority', paranoidFile', locks')
      BY <3>3, StepsOfJob DEF JobInv
    <3> HIDE DEF j, b
    <3>5. JobsInv'
      BY <1>1, <2>1, <2>2, <3>3, <3>4, JobsStay DEF Follows
    <3> QED  BY <1>1, <2>1, <2>2, <3>3, <3>5 DEF ParanoidInv, GateInv
  <2> QED  BY <1>2, <2>4, <2>5 DEF CommandInv
<1> QED  BY <1>3, <1>4

LEMMA FileIsWritten ==
    ASSUME ParanoidInv, NEW p \in ParanoidProcs, P!WritesFile(p)
    PROVE  ParanoidInv'
<1> DEFINE j == paranoidJob[p]
<1>1. /\ P!At(p, "writing") /\ Head(j.left) = "file" /\ UNCHANGED paranoidAuthority
      /\ paranoidFile' = j.file /\ earlier' = <<paranoidFile>> /\ P!Returns(p)
  BY DEF P!WritesFile
<1>2. /\ CommandInv(j, paranoidAuthority, paranoidFile) /\ WritingInv(j, paranoidAuthority)
      /\ IsRow(paranoidAuthority)
  BY <1>1, WhoIsAt DEF CommandStages, CommandInv, ParanoidInv, GateInv
<1>3. IsGate(j.file) /\ j.file # P!NoFile /\ paranoidAuthority # P!Pristine
  BY <1>1, <1>2 DEF WritingInv
<1>4. IsGate(paranoidFile') /\ \A k \in DOMAIN earlier' : IsGate(earlier'[k])
  BY <1>1, <1>3 DEF ParanoidInv, GateInv
<1>5. CASE j.op \in Restricts
  <2>1. j.left = <<"file">>
    BY <1>1, <1>2, <1>5 DEF WritingInv
  <2>2. /\ P!Ends(p) /\ closed' = (closed \/ (P!Locked(p) /\ ~P!Opens))
        /\ locks' = IF P!Locked(p) THEN locks + 1 ELSE locks
    BY <1>1, <2>1 DEF P!Returns
  <2>3. P!Locked(p) => paranoidAuthority.state = "locked"
    BY DEF P!Locked
  <2>4. Becomes(p, P!Idle) /\ JobInv(P!Idle, paranoidAuthority', paranoidFile', locks')
    BY <2>2, StepsOfJob DEF JobInv
  <2>5. closed' => ~P!Opens /\ ~(P!Idle.op \in Permits /\ P!Idle.stage = "writing")
    BY <2>2 DEF ParanoidInv, GateInv, P!Idle, Permits
  <2>6. closed' => ~P!Opens'
    BY <2>4, <2>5, NoneOpens DEF ParanoidInv
  <2>7. closed' => paranoidAuthority.state = "locked"
    BY <1>3, <2>2, <2>3 DEF ParanoidInv, GateInv
  <2> HIDE DEF j
  <2>8. JobsInv'
    BY <1>1, <1>2, <1>3, <2>2, <2>3, <2>4, JobsStay DEF Follows
  <2> QED  BY <1>1, <1>2, <1>4, <2>6, <2>7, <2>8 DEF ParanoidInv, GateInv
<1>6. CASE j.op \in Permits
  <2> DEFINE x == [j EXCEPT !.left = Tail(j.left)]
  <2>1. j.left = <<"file", "row">>
    BY <1>1, <1>2, <1>6 DEF WritingInv
  <2>2. Becomes(p, x) /\ UNCHANGED <<closed, locks>>
    BY <1>1, <2>1, StepsOfJob DEF P!Returns
  <2>3. ~closed
    BY <1>1, <1>6 DEF ParanoidInv, GateInv, P!Opens, Permits
  <2>4. /\ DOMAIN x = {"op", "phrase", "stage", "seen", "file", "left"}
        /\ x.op = j.op /\ x.seen = j.seen /\ x.stage = "writing" /\ x.file = j.file
        /\ x.left = <<"row">>
    BY <1>1, <1>2, <2>1 DEF CommandInv, P!At
  <2> HIDE DEF x
  <2>5. WritingInv(x, paranoidAuthority)
    BY <1>2, <1>6, <2>1, <2>4 DEF WritingInv, Restricts, Permits
  <2>6. CommandInv(x, paranoidAuthority, paranoidFile')
    BY <1>2, <2>4, <2>5 DEF CommandInv, CommandStages
  <2>7. JobInv(x, paranoidAuthority', paranoidFile', locks')
    BY <1>1, <2>6 DEF JobInv
  <2> HIDE DEF j
  <2>8. JobsInv'
    BY <1>1, <1>2, <1>3, <2>2, <2>7, JobsStay DEF Follows
  <2> QED  BY <1>1, <1>2, <1>4, <2>2, <2>3, <2>8 DEF ParanoidInv, GateInv
<1> QED  BY <1>2, <1>5, <1>6 DEF CommandInv

------------------------------------------------------------------------------
\* Readers.
LEMMA ReadStarts ==
    ASSUME ParanoidInv, NEW p \in ParanoidProcs, P!Begins(p)
    PROVE  ParanoidInv'
<1> DEFINE x == [op |-> "read", stage |-> "begin", seen |-> P!Pristine,
                 token |-> P!Pristine, since |-> 0, late |-> FALSE]
<1>1. Becomes(p, x) /\ UNCHANGED <<paranoidAuthority, paranoidFile, earlier, closed, locks>>
  BY StepsOfJob DEF P!Begins
<1>2. ReaderInv(x, paranoidAuthority, paranoidFile, locks)
  BY PristineIs, FollowsIs DEF ReaderInv, ReaderStages, ParanoidInv, GateInv
<1>3. JobInv(x, paranoidAuthority, paranoidFile, locks) /\ x.stage # "writing"
  BY <1>2 DEF JobInv
<1> HIDE DEF x
<1> QED  BY <1>1, <1>3, OnlyJobMoves

LEMMA ReaderLooks ==
    ASSUME ParanoidInv, NEW p \in ParanoidProcs, P!ReaderSeesRow(p)
    PROVE  ParanoidInv'
<1> DEFINE j == paranoidJob[p]
           x == [j EXCEPT !.stage = "beginFile", !.seen = paranoidAuthority, !.since = locks]
<1>1. Becomes(p, x) /\ UNCHANGED <<paranoidAuthority, paranoidFile, earlier, closed, locks>>
  BY StepsOfJob DEF P!ReaderSeesRow
<1>2. ReaderInv(j, paranoidAuthority, paranoidFile, locks) /\ IsRow(paranoidAuthority)
  BY WhoIsAt DEF P!ReaderSeesRow, ReaderStages, ParanoidInv, GateInv
<1>3. Follows(j.token, paranoidAuthority) /\ Follows(paranoidAuthority, paranoidAuthority)
  BY <1>2, FollowsOn DEF ReaderInv, Follows
<1>4. /\ DOMAIN x = {"op", "stage", "seen", "token", "since", "late"}
      /\ x.op = j.op /\ x.stage = "beginFile" /\ x.seen = paranoidAuthority
      /\ x.token = j.token /\ x.since = locks
  BY <1>2 DEF ReaderInv
<1> HIDE DEF x
<1>5. ReaderInv(x, paranoidAuthority, paranoidFile, locks)
  BY <1>2, <1>3, <1>4 DEF ReaderInv, ReaderStages
<1>6. JobInv(x, paranoidAuthority, paranoidFile, locks)
  BY <1>5 DEF JobInv
<1> QED  BY <1>1, <1>4, <1>6, OnlyJobMoves

LEMMA TokenIsTaken ==
    ASSUME ParanoidInv, NEW p \in ParanoidProcs, P!TakesToken(p)
    PROVE  ParanoidInv'
<1> DEFINE j == paranoidJob[p]
           x == [j EXCEPT !.stage = "rendering", !.token = j.seen]
<1>1. P!At(p, "beginFile")
      /\ UNCHANGED <<paranoidAuthority, paranoidFile, earlier, closed, locks>>
  BY DEF P!TakesToken
<1>2. ReaderInv(j, paranoidAuthority, paranoidFile, locks) /\ j.stage = "beginFile"
  BY <1>1, WhoIsAt DEF ReaderStages
<1>3. CASE P!Open(j.seen, paranoidFile)
  <2>0. paranoidJob' = [paranoidJob EXCEPT ![p].stage = "rendering", ![p].token = j.seen]
    BY <1>3 DEF P!TakesToken
  <2>1. Becomes(p, x)
    BY <2>0 DEF Becomes, ParanoidInv, JobsInv
  <2>2. /\ DOMAIN x = {"op", "stage", "seen", "token", "since", "late"}
        /\ x.op = j.op /\ x.stage = "rendering" /\ x.seen = j.seen
        /\ x.token = j.seen /\ x.since = j.since
    BY <1>2 DEF ReaderInv
  <2>3. j.seen.state = "unlocked"
    BY <1>3 DEF P!Open
  <2> HIDE DEF x
  <2>4. ReaderInv(x, paranoidAuthority, paranoidFile, locks)
    BY <1>2, <2>2, <2>3 DEF ReaderInv, ReaderStages, Follows
  <2>5. JobInv(x, paranoidAuthority, paranoidFile, locks)
    BY <2>4 DEF JobInv
  <2> QED  BY <1>1, <2>1, <2>2, <2>5, OnlyJobMoves
<1>4. CASE P!Ends(p)
  BY <1>1, <1>4, JobEnds
<1> QED  BY <1>3, <1>4 DEF P!TakesToken

LEMMA RenderingEnds ==
    ASSUME ParanoidInv, NEW p \in ParanoidProcs, P!Renders(p)
    PROVE  ParanoidInv'
<1> DEFINE j == paranoidJob[p]
           x == [j EXCEPT !.stage = "checking", !.seen = paranoidAuthority,
                          !.late = closed \/ locks # j.since]
<1>1. Becomes(p, x) /\ UNCHANGED <<paranoidAuthority, paranoidFile, earlier, closed, locks>>
  BY DEF P!Renders, Becomes, ParanoidInv, JobsInv
<1>2. ReaderInv(j, paranoidAuthority, paranoidFile, locks) /\ j.stage = "rendering"
      /\ IsRow(paranoidAuthority)
  BY WhoIsAt DEF P!Renders, ReaderStages, ParanoidInv, GateInv
<1>3. Follows(j.token, paranoidAuthority) /\ Follows(paranoidAuthority, paranoidAuthority)
  BY <1>2, FollowsOn DEF ReaderInv, Follows
<1>4. /\ DOMAIN x = {"op", "stage", "seen", "token", "since", "late"}
      /\ x.op = j.op /\ x.stage = "checking" /\ x.seen = paranoidAuthority
      /\ x.token = j.token /\ x.since = j.since /\ (x.late <=> (closed \/ locks # j.since))
  BY <1>2 DEF ReaderInv
<1>5. closed /\ j.token = paranoidAuthority =>
          paranoidAuthority = P!Pristine /\ paranoidFile # P!NoFile
  BY <1>2 DEF ReaderInv, ParanoidInv, GateInv
<1> HIDE DEF x
<1>6. x.late => x.token # x.seen \/ (x.seen = P!Pristine /\ paranoidFile # P!NoFile)
  BY <1>2, <1>4, <1>5 DEF ReaderInv
<1>7. ReaderInv(x, paranoidAuthority, paranoidFile, locks)
  BY <1>2, <1>3, <1>4, <1>6 DEF ReaderInv, ReaderStages
<1>8. JobInv(x, paranoidAuthority, paranoidFile, locks)
  BY <1>7 DEF JobInv
<1> QED  BY <1>1, <1>4, <1>8, OnlyJobMoves

\* A reader that finds its token again began with the row it has looked at since.
LEMMA TokenHolds ==
    ASSUME ParanoidInv, NEW p \in ParanoidProcs, P!At(p, "checking"),
           P!Current(paranoidJob[p], paranoidFile)
    PROVE  /\ paranoidJob[p].token = paranoidJob[p].seen /\ ~paranoidJob[p].late
           /\ paranoidAuthority = P!Pristine => paranoidFile = P!NoFile
<1> DEFINE j == paranoidJob[p]
<1>1. /\ ReaderInv(j, paranoidAuthority, paranoidFile, locks) /\ j.stage = "checking"
      /\ IsRow(paranoidAuthority) /\ IsGate(paranoidFile)
  BY WhoIsAt DEF ReaderStages, ParanoidInv, GateInv
<1>2. P!Exact(j.seen, paranoidFile) /\ P!SameGeneration(j.token, j.seen)
  BY DEF P!Current, P!Open
<1>3. /\ IsRow(j.seen) /\ Follows(j.seen, paranoidAuthority) /\ IsRow(j.token)
      /\ Follows(j.token, j.seen)
  BY <1>1 DEF ReaderInv
<1>4. j.token = j.seen
  BY <1>2, <1>3, FollowsIs
<1>5. j.seen = P!Pristine => paranoidFile = P!NoFile
  BY <1>1, <1>2, <1>3, ExactIs
<1>6. paranoidAuthority = P!Pristine => j.seen = P!Pristine
  BY <1>1, <1>3, FollowsIs
<1>7. ~j.late
  BY <1>1, <1>4, <1>5 DEF ReaderInv
<1> QED  BY <1>4, <1>5, <1>6, <1>7

LEMMA ReaderAnswers ==
    ASSUME ParanoidInv, NEW p \in ParanoidProcs, P!Answers(p)
    PROVE  ParanoidInv'
<1> DEFINE j == paranoidJob[p]
           x == [j EXCEPT !.stage = "committing"]
<1>1. P!At(p, "checking")
      /\ UNCHANGED <<paranoidAuthority, paranoidFile, earlier, closed, locks>>
  BY DEF P!Answers
<1>2. CASE P!Current(j, paranoidFile) /\ P!Goes(p, "committing")
  <2>1. Becomes(p, x)
    BY <1>2, StepsOfJob
  <2>2. ReaderInv(j, paranoidAuthority, paranoidFile, locks) /\ j.stage = "checking"
    BY <1>1, WhoIsAt DEF ReaderStages
  <2>3. /\ DOMAIN x = {"op", "stage", "seen", "token", "since", "late"}
        /\ x.op = j.op /\ x.stage = "committing" /\ x.seen = j.seen
        /\ x.token = j.token /\ x.since = j.since /\ x.late = j.late
    BY <2>2 DEF ReaderInv
  <2>4. /\ j.token = j.seen /\ ~j.late
        /\ paranoidAuthority = P!Pristine => paranoidFile = P!NoFile
    BY <1>1, <1>2, TokenHolds
  <2> HIDE DEF x
  <2>5. ReaderInv(x, paranoidAuthority, paranoidFile, locks)
    BY <2>2, <2>3, <2>4 DEF ReaderInv, ReaderStages
  <2>6. JobInv(x, paranoidAuthority, paranoidFile, locks)
    BY <2>5 DEF JobInv
  <2> QED  BY <1>1, <2>1, <2>3, <2>6, OnlyJobMoves
<1>3. CASE P!Ends(p)
  BY <1>1, <1>3, JobEnds
<1> QED  BY <1>2, <1>3 DEF P!Answers

\* An earlier file is put back while no process does anything.
LEMMA FileIsPutBack == ParanoidInv /\ P!FileReturns => ParanoidInv'
<1> SUFFICES ASSUME ParanoidInv, P!FileReturns PROVE ParanoidInv'
  OBVIOUS
<1>1. /\ UNCHANGED <<paranoidAuthority, paranoidJob, closed, locks, earlier>>
      /\ paranoidAuthority # P!Pristine
      /\ \A p \in ParanoidProcs : paranoidJob[p] = P!Idle
      /\ paranoidFile' = P!NoFile \/ \E k \in DOMAIN earlier : paranoidFile' = earlier[k]
  BY DEF P!FileReturns
<1>2. IsGate(paranoidFile')
  BY <1>1, PristineIs DEF ParanoidInv, GateInv
<1>3. ~P!Opens'
  BY <1>1 DEF P!Opens, P!At, P!Idle
<1>4. GateInv'
  BY <1>1, <1>2, <1>3 DEF ParanoidInv, GateInv
<1>5. JobsInv'
  BY <1>1 DEF ParanoidInv, JobsInv, JobInv
<1> QED  BY <1>4, <1>5 DEF ParanoidInv

LEMMA ParanoidStep == ParanoidInv /\ [P!ParanoidNext]_(P!paranoidVars) => ParanoidInv'
<1> SUFFICES ASSUME ParanoidInv, [P!ParanoidNext]_(P!paranoidVars)
             PROVE  ParanoidInv'
  OBVIOUS
<1>1. CASE UNCHANGED P!paranoidVars
  BY <1>1 DEF P!paranoidVars, ParanoidInv, GateInv, JobsInv, P!Opens, P!At
<1>2. CASE P!FileReturns
  BY <1>2, FileIsPutBack
<1>3. ASSUME NEW p \in ParanoidProcs, NEW op \in Restricts \union Permits, NEW w,
             P!Types(p, op, w)
      PROVE  ParanoidInv'
  BY <1>3, CommandTyped
<1>4. ASSUME NEW p \in ParanoidProcs,
             P!OpeningSeesRow(p) \/ P!OpeningSeesFile(p) \/ P!DecidingSeesRow(p)
      PROVE  ParanoidInv'
  BY <1>4, CommandLooks
<1>5. ASSUME NEW p \in ParanoidProcs,
             P!Adopts(p) \/ P!Decides(p) \/ P!WritesRow(p) \/ P!WritesFile(p)
      PROVE  ParanoidInv'
  BY <1>5, RowIsAdopted, CommandDecides, RowIsWritten, FileIsWritten
<1>6. ASSUME NEW p \in ParanoidProcs,
             P!Begins(p) \/ P!ReaderSeesRow(p) \/ P!TakesToken(p) \/ P!Renders(p)
      PROVE  ParanoidInv'
  BY <1>6, ReadStarts, ReaderLooks, TokenIsTaken, RenderingEnds
<1>7. ASSUME NEW p \in ParanoidProcs, P!Answers(p)
      PROVE  ParanoidInv'
  BY <1>7, ReaderAnswers
<1>8. ASSUME NEW p \in ParanoidProcs, P!Commits(p) \/ P!Stops(p)
      PROVE  ParanoidInv'
  BY <1>8, JobEnds DEF P!Commits, P!Stops
<1>9. {"enable", "unlock", "disable", "lock"} \subseteq Restricts \union Permits
  BY DEF Restricts, Permits
<1> QED  BY <1>1, <1>2, <1>3, <1>4, <1>5, <1>6, <1>7, <1>8, <1>9 DEF P!ParanoidNext

------------------------------------------------------------------------------
\* Which steps answer a reader with content: its last one, of a token it found again.
LEMMA AnsweredLast ==
    ASSUME ParanoidInv, NEW p \in ParanoidProcs,
           \/ P!At(p, "checking") /\ P!Current(paranoidJob[p], paranoidFile)
           \/ P!At(p, "committing")
    PROVE  /\ ~paranoidJob[p].late
           /\ paranoidAuthority = paranoidJob[p].seen =>
                 ~closed /\ paranoidJob[p].since = locks
<1> DEFINE j == paranoidJob[p]
<1>1. /\ ReaderInv(j, paranoidAuthority, paranoidFile, locks)
      /\ j.stage \in {"checking", "committing"}
  BY WhoIsAt DEF ReaderStages
<1>2. /\ j.token = j.seen /\ ~j.late
      /\ paranoidAuthority = P!Pristine => paranoidFile = P!NoFile
  BY <1>1, TokenHolds, WhoIsAt DEF ReaderStages, ReaderInv
<1>3. j.token.state = "unlocked" /\ (paranoidAuthority = j.token => j.since = locks)
  BY <1>1 DEF ReaderInv
<1>4. paranoidAuthority = j.seen => ~closed
  BY <1>2, <1>3 DEF ParanoidInv, GateInv
<1> QED  BY <1>2, <1>3, <1>4

\* A step of one process leaves the jobs of the others.
LEMMA OthersStay ==
    ASSUME NEW p \in ParanoidProcs, NEW q \in ParanoidProcs, q # p,
           \/ \E x : paranoidJob' = [paranoidJob EXCEPT ![p] = x]
           \/ P!Ends(p) \/ \E s : P!Goes(p, s),
           ParanoidInv
    PROVE  paranoidJob'[q] = paranoidJob[q]
<1>1. \A x : Becomes(p, x) => paranoidJob'[q] = paranoidJob[q]
  BY DEF Becomes
<1> QED  BY <1>1, StepsOfJob

LEMMA CommandsServeNone ==
    ASSUME ParanoidInv, NEW p \in ParanoidProcs,
           \/ P!OpeningSeesRow(p) \/ P!OpeningSeesFile(p) \/ P!Adopts(p)
           \/ P!DecidingSeesRow(p) \/ P!Decides(p) \/ P!WritesRow(p) \/ P!WritesFile(p)
    PROVE  P!ServesOpen
<1>1. paranoidJob[p].op # "read"
  <2>1. \E s \in CommandStages : P!At(p, s)
    BY DEF P!OpeningSeesRow, P!OpeningSeesFile, P!Adopts, P!DecidingSeesRow, P!Decides,
           P!WritesRow, P!WritesFile, P!Sees, P!At, CommandStages
  <2> QED  BY <2>1, WhoIsAt DEF CommandInv, Restricts, Permits
<1>2. \E x : paranoidJob' = [paranoidJob EXCEPT ![p] = x]
  BY DEF P!OpeningSeesRow, P!OpeningSeesFile, P!Adopts, P!DecidingSeesRow, P!Decides,
         P!WritesRow, P!WritesFile, P!Sees, P!Goes, P!Ends, P!Returns, P!Plans,
         P!Enables, P!Unlocks, P!Locks, P!Disables
<1>3. \A q \in ParanoidProcs : q # p => paranoidJob'[q] = paranoidJob[q]
  BY <1>2, OthersStay
<1> QED  BY <1>1, <1>3 DEF P!ServesOpen, P!Idle

LEMMA ReadersAreServed ==
    ASSUME ParanoidInv, NEW p \in ParanoidProcs,
           \/ P!ReaderSeesRow(p) \/ P!TakesToken(p) \/ P!Renders(p) \/ P!Answers(p)
           \/ P!Commits(p)
    PROVE  P!ServesOpen
<1>1. \E x : paranoidJob' = [paranoidJob EXCEPT ![p] = x]
  BY DEF P!ReaderSeesRow, P!TakesToken, P!Renders, P!Answers, P!Commits, P!Goes, P!Ends
<1>2. \A q \in ParanoidProcs : q # p => paranoidJob'[q] = paranoidJob[q]
  BY <1>1, OthersStay
<1>3. SUFFICES ASSUME answer' = "content", paranoidJob[p].op = "read",
                      paranoidJob'[p] = P!Idle
               PROVE  /\ ~paranoidJob[p].late
                      /\ paranoidAuthority = paranoidJob[p].seen =>
                            ~closed /\ paranoidJob[p].since = locks
  BY <1>2 DEF P!ServesOpen, P!Idle
<1>4. CASE P!Answers(p)
  <2>1. P!Goes(p, "committing") => paranoidJob'[p] # P!Idle
    <3>1. paranoidJob = [q \in ParanoidProcs |-> paranoidJob[q]]
      BY DEF ParanoidInv, JobsInv
    <3>2. P!Goes(p, "committing") =>
              paranoidJob'[p] = [paranoidJob[p] EXCEPT !.stage = "committing"]
      BY <3>1 DEF P!Goes
    <3>3. DOMAIN P!Idle = {"op"} /\ "stage" \in DOMAIN paranoidJob[p]
      BY <1>4, WhoIsAt DEF P!Idle, P!Answers, ReaderInv, ReaderStages
    <3> QED  BY <3>2, <3>3
  <2>2. P!At(p, "checking") /\ P!Current(paranoidJob[p], paranoidFile)
    BY <1>3, <1>4, <2>1 DEF P!Answers
  <2> QED  BY <2>2, AnsweredLast
<1>5. CASE P!Commits(p)
  BY <1>5, AnsweredLast DEF P!Commits
<1>6. CASE P!TakesToken(p) \/ P!Renders(p) \/ P!ReaderSeesRow(p)
  <2> DEFINE j == paranoidJob[p]
  <2>1. paranoidJob = [q \in ParanoidProcs |-> paranoidJob[q]]
    BY DEF ParanoidInv, JobsInv
  <2>2. DOMAIN P!Idle = {"op"} /\ "stage" \in DOMAIN j
    BY <1>6, WhoIsAt
       DEF P!Idle, P!TakesToken, P!Renders, P!ReaderSeesRow, ReaderInv, ReaderStages
  <2>3. CASE P!TakesToken(p)
    <3>1. paranoidJob'[p] = [j EXCEPT !.stage = "rendering", !.token = j.seen]
      BY <1>3, <2>1, <2>3 DEF P!TakesToken
    <3> QED  BY <1>3, <2>2, <3>1
  <2>4. CASE P!Renders(p)
    <3>1. paranoidJob'[p] = [j EXCEPT !.stage = "checking", !.seen = paranoidAuthority,
                                      !.late = closed \/ locks # j.since]
      BY <2>1, <2>4 DEF P!Renders
    <3> QED  BY <1>3, <2>2, <3>1
  <2>5. CASE P!ReaderSeesRow(p)
    <3>1. paranoidJob'[p] = [j EXCEPT !.stage = "beginFile", !.seen = paranoidAuthority,
                                      !.since = locks]
      BY <2>1, <2>5 DEF P!ReaderSeesRow
    <3> QED  BY <1>3, <2>2, <3>1
  <2> QED  BY <1>6, <2>3, <2>4, <2>5
<1> QED  BY <1>4, <1>5, <1>6

LEMMA GateServesOpen ==
    ParanoidInv /\ [P!ParanoidNext]_(P!paranoidVars) => [P!ServesOpen]_(P!paranoidVars)
<1> SUFFICES ASSUME ParanoidInv, P!ParanoidNext
             PROVE  P!ServesOpen
  OBVIOUS
<1>1. ASSUME NEW p \in ParanoidProcs, NEW op, NEW w,
             P!Types(p, op, w) \/ P!Begins(p) \/ P!Stops(p)
      PROVE  P!ServesOpen
  BY <1>1 DEF P!Types, P!Begins, P!Stops, P!ServesOpen
<1>2. CASE P!FileReturns
  BY <1>2 DEF P!FileReturns, P!ServesOpen
<1> QED  BY <1>1, <1>2, CommandsServeNone, ReadersAreServed DEF P!ParanoidNext

LEMMA ParanoidFollowed == [Next]_vars => [P!ParanoidNext]_(P!paranoidVars)
BY DEF Next, vars, paranoidVars, P!paranoidVars, LifecycleSteps,
   ArchiveSteps, MigrationSteps, SourceSteps, OpencodeSteps, TaskStateSteps, RulesSteps,
   ParanoidSteps, EvidenceSteps, SetupSteps, InstallSteps, OpenTurnSteps

\* No reader is answered with memory that a returned lock has closed, for any number of
\* processes, passphrases and stops (paranoid-gate.ts: the token taken before the
\* rendering is compared with the row and the file after it, and a generation is never
\* used twice).
THEOREM ServedWhileOpenHolds == Spec => ServedWhileOpen
<1>1. Init => ParanoidInv
  BY ParanoidStarts DEF Init
<1>2. ParanoidInv /\ [Next]_vars => ParanoidInv'
  BY ParanoidFollowed, ParanoidStep
<1>3. ParanoidInv /\ [Next]_vars => [P!ServesOpen]_(P!paranoidVars)
  BY ParanoidFollowed, GateServesOpen
<1> QED  BY <1>1, <1>2, <1>3, PTL DEF Spec, ServedWhileOpen, P!ServedWhileOpen

------------------------------------------------------------------------------
\* The database file (Lifecycle).  The step a process is at, or will be at when its
\* owner file is written.
Stage(p) == IF lifecycleAt[p] = "writing" THEN pen[p].next ELSE lifecycleAt[p]
Deep     == {"captured", "opened", "recovering"}
Past     == {"bound"} \union Deep

\* A process is an opener or a maintainer.
Roles == Openers \intersect L!Maintainers = {}

LifecycleShape ==
    /\ DOMAIN lifecycleAt = L!Procs /\ DOMAIN owner = L!Procs /\ DOMAIN pen = L!Procs
    /\ DOMAIN conn = L!Procs /\ DOMAIN deferred = L!Procs /\ DOMAIN prey = L!Procs
    /\ alive \subseteq L!Procs
\* Who died has nothing open; only dead processes are deferred or claimed.
DeadInv ==
    \A p \in L!Procs : /\ p \notin alive => conn[p] = 0
                       /\ deferred[p] \intersect alive = {} /\ prey[p] \intersect alive = {}

OpenerInv(p) ==
    /\ Stage(p) \in {"start", "surveyed", "cleared", "published", "done"} \union Past
    /\ Stage(p) \in {"published"} \union Past => owner[p] \in L!Leases
    /\ lifecycleAt[p] = "writing" => pen[p].says = "bound" /\ pen[p].next \in Past
    /\ conn[p] # 0 <=> Stage(p) \in {"opened", "recovering"}

\* A maintainer that found no lease keeps its intent while it holds the database.
Exclusive(m) ==
    m \in alive /\ (Stage(m) \in {"drained", "held"} \/ (Stage(m) = "mutating" /\ m \notin Migrators))
Intending(m) == Stage(m) \in {"intending", "draining"} \/ Exclusive(m)
MaintainerInv(m) ==
    /\ Stage(m) \in {"start", "intending", "draining", "drained", "held", "mutating", "completed",
                     "retired", "authorised", "claiming", "inheriting", "retained", "done"}
    /\ Intending(m) => owner[m] \in L!Intents
    /\ lifecycleAt[m] = "writing" =>
          /\ pen[m].next \in {"held", "mutating", "completed"}
          /\ Exclusive(m) => pen[m].says \in L!Intents
    /\ m \notin Migrators => Stage(m) \notin {"claiming", "inheriting", "retained"}
OwnerInv(p) == p \in alive => /\ p \in Openers => OpenerInv(p)
                              /\ p \in L!Maintainers => MaintainerInv(p)

\* What is only in the log has a lease behind it: of a process that has the database open,
\* or of one that died.
Backs(p)  == p \in Openers /\ owner[p] \in L!Leases /\ (p \notin alive \/ conn[p] # 0)
FramesInv == frames => \E p \in L!Procs : Backs(p)

\* Nobody has gone past its second look at the intents while a maintainer is past its
\* look at the leases, or past its look at the migration while there is one; and the file is complete.
NobodyIn(stages) == \A p \in Openers : p \in alive => Stage(p) \notin stages
ExclusiveInv == \A m \in L!Maintainers : Exclusive(m) => ~frames /\ NobodyIn(Past)
ManifestInv  == manifest # "none" => ~frames /\ NobodyIn(Deep)

LifecycleInv ==
    /\ LifecycleShape /\ DeadInv /\ \A p \in L!Procs : OwnerInv(p)
    /\ FramesInv /\ ExclusiveInv /\ ManifestInv

------------------------------------------------------------------------------
\* What one step does, seen from outside of the process that takes it.
Moves(p) ==
    /\ LifecycleShape' /\ DeadInv' /\ alive' \subseteq alive
    /\ \A q \in L!Procs : q # p =>
          /\ lifecycleAt'[q] = lifecycleAt[q] /\ pen'[q] = pen[q] /\ conn'[q] = conn[q]
          /\ q \in alive => q \in alive'
          /\ owner'[q] = owner[q] \/ q \notin alive
Turns(p) ==
    /\ p \in alive' /\ p \in Openers /\ Stage(p)' \in Past =>
          Stage(p) \in Past \/ \A m \in L!Maintainers : ~Exclusive(m)
    /\ p \in alive' /\ p \in Openers /\ Stage(p)' \in Deep =>
          Stage(p) \in Deep \/ manifest' = "none"
    /\ p \in L!Maintainers /\ Exclusive(p)' => Exclusive(p) \/ (~frames /\ NobodyIn(Past))
    /\ frames' => frames \/ (p \in Openers /\ p \in alive /\ Stage(p) = "recovering")
    /\ manifest' # "none" => manifest # "none" \/ \E m \in L!Maintainers : Exclusive(m)

LEMMA OthersStand ==
    ASSUME NEW p \in L!Procs, NEW q \in L!Procs, q # p, Moves(p)
    PROVE  /\ Stage(q)' = Stage(q) /\ (q \in alive' <=> q \in alive)
           /\ Exclusive(q)' <=> Exclusive(q)
           /\ OwnerInv(q) => OwnerInv(q)'
<1>1. /\ lifecycleAt'[q] = lifecycleAt[q] /\ pen'[q] = pen[q] /\ conn'[q] = conn[q]
      /\ q \in alive' <=> q \in alive
      /\ q \in alive => owner'[q] = owner[q]
  BY DEF Moves
<1>2. Stage(q)' = Stage(q)
  BY <1>1 DEF Stage
<1>3. Exclusive(q)' <=> Exclusive(q)
  BY <1>1, <1>2 DEF Exclusive
<1>4. OwnerInv(q) => OwnerInv(q)'
  BY <1>1, <1>2, <1>3 DEF OwnerInv, OpenerInv, MaintainerInv, Intending
<1> QED  BY <1>1, <1>2, <1>3, <1>4

LEMMA LifecycleStands ==
    ASSUME Roles, LifecycleInv, NEW p \in L!Procs, Moves(p), OwnerInv(p)', Turns(p), FramesInv'
    PROVE  LifecycleInv'
<1>1. \A q \in L!Procs : OwnerInv(q)'
  BY OthersStand DEF LifecycleInv
<1>2. Openers \subseteq L!Procs /\ L!Maintainers \subseteq L!Procs
  BY DEF L!Procs
<1>3. ExclusiveInv'
  <2> SUFFICES ASSUME NEW m \in L!Maintainers, Exclusive(m)'
               PROVE  ~frames' /\ NobodyIn(Past)'
    BY DEF ExclusiveInv
  <2>1. ~frames /\ NobodyIn(Past)
    <3>1. CASE m = p
      BY <3>1 DEF Turns, LifecycleInv, ExclusiveInv
    <3>2. CASE m # p
      BY <1>2, <3>2, OthersStand DEF LifecycleInv, ExclusiveInv
    <3> QED  BY <3>1, <3>2
  <2>2. ~frames'
    BY <2>1 DEF Turns, NobodyIn, Past, Deep
  <2>3. NobodyIn(Past)'
    <3> SUFFICES ASSUME NEW q \in Openers, q \in alive', Stage(q)' \in Past
                 PROVE  FALSE
      BY DEF NobodyIn
    <3>1. CASE q = p
      <4>1. m # p /\ Exclusive(m)
        BY <1>2, <3>1, OthersStand DEF Roles
      <4>2. p \in alive
        BY <3>1 DEF Moves
      <4> QED  BY <2>1, <3>1, <4>1, <4>2 DEF Turns, NobodyIn
    <3>2. CASE q # p
      BY <1>2, <2>1, <3>2, OthersStand DEF NobodyIn
    <3> QED  BY <3>1, <3>2
  <2> QED  BY <2>2, <2>3
<1>4. ManifestInv'
  <2> SUFFICES ASSUME manifest' # "none"
               PROVE  ~frames' /\ NobodyIn(Deep)'
    BY DEF ManifestInv
  <2>1. ~frames /\ NobodyIn(Deep)
    BY DEF Turns, LifecycleInv, ExclusiveInv, ManifestInv, NobodyIn, Past
  <2>2. ~frames'
    BY <2>1 DEF Turns, NobodyIn, Deep
  <2>3. NobodyIn(Deep)'
    <3> SUFFICES ASSUME NEW q \in Openers, q \in alive', Stage(q)' \in Deep
                 PROVE  FALSE
      BY DEF NobodyIn
    <3>1. CASE q = p
      BY <2>1, <3>1 DEF Turns, NobodyIn, Moves
    <3>2. CASE q # p
      BY <1>2, <2>1, <3>2, OthersStand DEF NobodyIn
    <3> QED  BY <3>1, <3>2
  <2> QED  BY <2>2, <2>3
<1> QED  BY <1>1, <1>3, <1>4 DEF LifecycleInv, Moves

LEMMA LifecycleStarts == Roles /\ L!LifecycleInit => LifecycleInv
<1> SUFFICES ASSUME Roles, L!LifecycleInit PROVE LifecycleInv
  OBVIOUS
<1>1. \A p \in L!Procs : Stage(p) = "start" /\ ~Exclusive(p) /\ conn[p] = 0
                         /\ lifecycleAt[p] = "start"
  BY DEF L!LifecycleInit, Stage, Exclusive
<1>2. Openers \subseteq L!Procs /\ L!Maintainers \subseteq L!Procs
  BY DEF L!Procs
<1>3. LifecycleShape /\ DeadInv /\ FramesInv
  BY DEF L!LifecycleInit, LifecycleShape, DeadInv, FramesInv
<1>4. \A p \in L!Procs : OwnerInv(p)
  BY <1>1 DEF OwnerInv, OpenerInv, MaintainerInv, Intending, Past, Deep
<1>5. ExclusiveInv /\ ManifestInv
  BY <1>1, <1>2 DEF ExclusiveInv, ManifestInv, L!LifecycleInit
<1> QED  BY <1>3, <1>4, <1>5 DEF LifecycleInv

\* A step that leaves the leases, the connections and the log leaves what is behind them.
LEMMA FramesStay ==
    ASSUME LifecycleInv, alive' \subseteq alive, frames' => frames,
           \A q \in Openers : Backs(q) =>
               owner'[q] = owner[q] /\ (conn'[q] = conn[q] \/ q \notin alive')
    PROVE  FramesInv'
BY DEF LifecycleInv, FramesInv, Backs

\* Roles: what an opener's step does to the maintainers' half of the facts, and the other
\* way round.
LEMMA RolesApart ==
    ASSUME Roles
    PROVE  /\ Openers \subseteq L!Procs /\ L!Maintainers \subseteq L!Procs
           /\ \A p \in Openers : p \notin L!Maintainers
BY DEF Roles, L!Procs

LEMMA OpenerWalks ==
    ASSUME Roles, LifecycleInv, NEW p \in Openers,
           L!SurveysLeases(p) \/ L!FindsNoIntent(p) \/ L!Publishes(p) \/ L!Captures(p)
    PROVE  LifecycleInv'
<1>1. /\ p \in alive /\ p \in L!Procs /\ p \notin L!Maintainers /\ OpenerInv(p)
      /\ UNCHANGED <<alive, pen, conn, prey, frames, manifest>> /\ LifecycleShape /\ DeadInv
      /\ lifecycleAt[p] \in {"start", "surveyed", "cleared", "bound"}
      /\ Stage(p) = lifecycleAt[p] /\ conn[p] = 0
  BY RolesApart
     DEF L!SurveysLeases, L!FindsNoIntent, L!Publishes, L!Captures, L!At, L!fileVars,
         L!bookVars, LifecycleInv, OwnerInv, OpenerInv, Stage
<1>2. \/ lifecycleAt' = [lifecycleAt EXCEPT ![p] = "surveyed"] /\ UNCHANGED owner
      \/ lifecycleAt' = [lifecycleAt EXCEPT ![p] = "cleared"] /\ UNCHANGED owner
      \/ /\ lifecycleAt' = [lifecycleAt EXCEPT ![p] = "published"]
         /\ owner' = [owner EXCEPT ![p] = "blank"]
      \/ /\ lifecycleAt' = [lifecycleAt EXCEPT ![p] = "captured"] /\ UNCHANGED owner
         /\ manifest = "none" /\ Stage(p) = "bound"
  BY <1>1
     DEF L!SurveysLeases, L!FindsNoIntent, L!Publishes, L!Captures, L!At, L!Go
<1>3. UNCHANGED deferred
      \/ deferred' = [deferred EXCEPT ![p] = {x \in L!Procs \ alive : owner[x] \in L!Leases}]
  BY DEF L!SurveysLeases, L!FindsNoIntent, L!Publishes, L!Captures
<1>4. Moves(p)
  BY <1>1, <1>2, <1>3 DEF Moves, LifecycleShape, DeadInv
<1>5. Stage(p)' = lifecycleAt'[p] /\ lifecycleAt'[p] # "writing"
  BY <1>1, <1>2 DEF Stage, LifecycleShape
<1>6. OwnerInv(p)'
  BY <1>1, <1>2, <1>5 DEF OwnerInv, OpenerInv, Past, Deep, L!Leases, LifecycleShape
<1>7. Turns(p)
  BY <1>1, <1>2, <1>5 DEF Turns, Past, Deep, LifecycleShape
<1>8. FramesInv'
  <2>1. ~Backs(p) /\ \A q \in Openers : q # p => owner'[q] = owner[q]
    BY <1>1, <1>2, RolesApart DEF Backs, LifecycleShape
  <2> QED  BY <1>1, <2>1, FramesStay
<1> QED  BY <1>1, <1>4, <1>6, <1>7, <1>8, LifecycleStands

\* The second look finds no intent, so nobody holds the database.
LEMMA OpenerBinds ==
    ASSUME Roles, LifecycleInv, NEW p \in Openers, L!Binds(p)
    PROVE  LifecycleInv'
<1>1. /\ p \in alive /\ p \in L!Procs /\ p \notin L!Maintainers /\ OpenerInv(p)
      /\ UNCHANGED <<alive, owner, conn, deferred, prey, frames, manifest>>
      /\ LifecycleShape /\ DeadInv
      /\ Stage(p) = "published" /\ conn[p] = 0 /\ owner[p] \in L!Leases
  BY RolesApart
     DEF L!Binds, L!At, L!fileVars, L!bookVars, LifecycleInv, OwnerInv, OpenerInv, Stage
<1>2. /\ lifecycleAt' = [lifecycleAt EXCEPT ![p] = "writing"]
      /\ \E n : pen' = [pen EXCEPT ![p] = [says |-> "bound", names |-> n, next |-> "bound"]]
  BY DEF L!Binds, L!Rewrites, L!Go
<1>3. ASSUME NEW m \in L!Maintainers
      PROVE  ~Exclusive(m)
  <2>1. m # p /\ m \in L!Procs
    BY <1>1, RolesApart
  <2>2. owner[m] \notin L!Intents
    BY <2>1 DEF L!Binds, L!Rechecks, L!NoIntentBut
  <2>3. Exclusive(m) => owner[m] \in L!Intents
    BY <2>1 DEF LifecycleInv, OwnerInv, MaintainerInv, Intending, Exclusive
  <2> QED  BY <2>2, <2>3
<1>4. Moves(p)
  BY <1>1, <1>2 DEF Moves, LifecycleShape, DeadInv
<1>5. Stage(p)' = "bound" /\ pen'[p].says = "bound" /\ pen'[p].next = "bound"
  BY <1>1, <1>2 DEF Stage, LifecycleShape
<1>6. OwnerInv(p)'
  BY <1>1, <1>5 DEF OwnerInv, OpenerInv, Past, Deep
<1>7. Turns(p)
  BY <1>1, <1>3, <1>5 DEF Turns, Deep
<1>8. FramesInv'
  BY <1>1, FramesStay
<1> QED  BY <1>1, <1>4, <1>6, <1>7, <1>8, LifecycleStands

\* The file is created or opened, and the owner file rewritten.
LEMMA OpenerOpens ==
    ASSUME Roles, LifecycleInv, NEW p \in Openers, L!CreatesFile(p) \/ L!Opens(p)
    PROVE  LifecycleInv'
<1>1. /\ p \in alive /\ p \in L!Procs /\ p \notin L!Maintainers /\ OpenerInv(p)
      /\ UNCHANGED <<alive, owner, deferred, prey, frames, manifest>>
      /\ LifecycleShape /\ DeadInv
      /\ Stage(p) = "captured" /\ conn[p] = 0 /\ owner[p] \in L!Leases
  BY RolesApart
     DEF L!CreatesFile, L!Opens, L!At, L!fileVars, L!bookVars, LifecycleInv, OwnerInv,
         OpenerInv, Stage, Past, Deep
<1>2. /\ lifecycleAt' = [lifecycleAt EXCEPT ![p] = "writing"]
      /\ \/ /\ UNCHANGED conn
            /\ \E n : pen' = [pen EXCEPT ![p] = [says |-> "bound", names |-> n,
                                                 next |-> "captured"]]
         \/ /\ lifecycleFile # 0 /\ conn' = [conn EXCEPT ![p] = lifecycleFile]
            /\ \E n : pen' = [pen EXCEPT ![p] = [says |-> "bound", names |-> n,
                                                 next |-> "opened"]]
  BY DEF L!CreatesFile, L!Opens, L!Rewrites, L!Go, L!PinnedOpen, L!Identity
<1>3. Moves(p)
  BY <1>1, <1>2 DEF Moves, LifecycleShape, DeadInv
<1>4. /\ Stage(p)' = pen'[p].next /\ pen'[p].says = "bound"
      /\ \/ conn'[p] = 0 /\ pen'[p].next = "captured"
         \/ conn'[p] # 0 /\ pen'[p].next = "opened"
  BY <1>1, <1>2 DEF Stage, LifecycleShape
<1>5. OwnerInv(p)'
  BY <1>1, <1>4 DEF OwnerInv, OpenerInv, Past, Deep
<1>6. Turns(p)
  BY <1>1, <1>4 DEF Turns, Past, Deep
<1>7. FramesInv'
  BY <1>1, <1>2, FramesStay, RolesApart DEF Backs, LifecycleShape
<1> QED  BY <1>1, <1>3, <1>5, <1>6, <1>7, LifecycleStands

\* An opener that has the database open: it takes over what dead ones left, and writes.
LEMMA OpenerUses ==
    ASSUME Roles, LifecycleInv, NEW p \in Openers,
           \/ L!Checkpoints(p) \/ L!Writes(p)
           \/ \E x \in L!Procs : L!ReleasesDeferred(p, x)
    PROVE  LifecycleInv'
<1>1. /\ p \in alive /\ p \in L!Procs /\ p \notin L!Maintainers /\ OpenerInv(p)
      /\ UNCHANGED <<alive, pen, prey, conn, manifest>>
      /\ LifecycleShape /\ DeadInv /\ lifecycleAt[p] \in {"opened", "recovering"}
      /\ Stage(p) = lifecycleAt[p] /\ conn[p] # 0 /\ owner[p] \in L!Leases
  BY RolesApart
     DEF L!Checkpoints, L!Writes, L!ReleasesDeferred, L!At, L!fileVars, L!bookVars, L!procVars,
         LifecycleInv, OwnerInv, OpenerInv, Stage, Past, Deep
<1>2. /\ lifecycleAt'[p] = "recovering"
      /\ lifecycleAt' = [lifecycleAt EXCEPT ![p] = "recovering"] \/ UNCHANGED lifecycleAt
      /\ owner'[p] = owner[p] /\ DOMAIN owner' = L!Procs
      /\ \A q \in L!Procs : owner'[q] = owner[q] \/ q \notin alive
      /\ UNCHANGED deferred
           \/ \E x \in L!Procs : deferred' = [deferred EXCEPT ![p] = deferred[p] \ {x}]
      /\ frames' => frames \/ lifecycleAt[p] = "recovering"
  <2>1. CASE L!Checkpoints(p) \/ L!Writes(p)
    BY <1>1, <2>1 DEF L!Checkpoints, L!Writes, L!procVars, L!Go, L!At, LifecycleShape
  <2>2. CASE \E x \in L!Procs : L!ReleasesDeferred(p, x)
    <3>1. PICK x \in L!Procs : L!ReleasesDeferred(p, x)
      BY <2>2
    <3>2. x \notin alive
      BY <1>1, <3>1 DEF L!ReleasesDeferred, DeadInv
    <3> QED
      BY <1>1, <3>1, <3>2 DEF L!ReleasesDeferred, L!Removes, L!fileVars, L!At, LifecycleShape
  <2> QED  BY <2>1, <2>2
<1>3. Moves(p)
  BY <1>1, <1>2 DEF Moves, LifecycleShape, DeadInv
<1>4. Stage(p)' = "recovering" /\ lifecycleAt'[p] = "recovering"
  BY <1>2 DEF Stage
<1>5. OwnerInv(p)'
  BY <1>1, <1>2, <1>4 DEF OwnerInv, OpenerInv, Past, Deep
<1>6. Turns(p)
  BY <1>1, <1>2, <1>4 DEF Turns, Past, Deep
<1>7. FramesInv'
  BY <1>1, <1>2 DEF FramesInv, Backs
<1> QED  BY <1>1, <1>3, <1>5, <1>6, <1>7, LifecycleStands

LEMMA OpenerCloses ==
    ASSUME Roles, LifecycleInv, NEW p \in Openers, L!Closes(p)
    PROVE  LifecycleInv'
<1>1. /\ p \in alive /\ p \in L!Procs /\ p \notin L!Maintainers
      /\ UNCHANGED <<alive, pen, prey, deferred, manifest>> /\ LifecycleShape /\ DeadInv
      /\ lifecycleAt' = [lifecycleAt EXCEPT ![p] = "done"]
      /\ conn' = [conn EXCEPT ![p] = 0]
      /\ owner' = [x \in L!Procs |-> IF x \in {p} THEN "none" ELSE owner[x]]
      /\ frames' => frames /\ \E q \in Openers \ {p} : conn[q] # 0
  BY RolesApart DEF L!Closes, L!At, L!Go, L!Removes, L!bookVars, LifecycleInv
<1>2. Moves(p)
  BY <1>1 DEF Moves, LifecycleShape, DeadInv
<1>3. Stage(p)' = "done" /\ lifecycleAt'[p] = "done" /\ conn'[p] = 0
  BY <1>1 DEF Stage, LifecycleShape
<1>4. OwnerInv(p)'
  BY <1>1, <1>3 DEF OwnerInv, OpenerInv, Past, Deep
<1>5. Turns(p)
  BY <1>1, <1>3 DEF Turns, Past, Deep
<1>6. FramesInv'
  <2> SUFFICES ASSUME frames' PROVE \E q \in L!Procs : Backs(q)'
    BY DEF FramesInv
  <2>1. PICK q \in Openers \ {p} : conn[q] # 0
    BY <1>1
  <2>2. q \in L!Procs /\ q \in alive
    BY <1>1, <2>1, RolesApart DEF DeadInv
  <2>3. owner[q] \in L!Leases
    BY <2>1, <2>2 DEF LifecycleInv, OwnerInv, OpenerInv, Past, Deep
  <2>4. Backs(q)'
    BY <1>1, <2>1, <2>2, <2>3 DEF Backs, LifecycleShape
  <2> QED  BY <2>2, <2>4
<1> QED  BY <1>1, <1>2, <1>4, <1>5, <1>6, LifecycleStands

------------------------------------------------------------------------------
\* Steps that openers and maintainers have in common.
LEMMA OwnersReclaim ==
    ASSUME Roles, LifecycleInv, NEW p \in L!Procs, NEW x \in L!Procs,
           L!ReclaimsIntent(p, x) \/ L!ReclaimsLease(p, x)
    PROVE  LifecycleInv'
<1>1. /\ UNCHANGED <<alive, lifecycleAt, pen, conn, deferred, prey, frames, manifest>>
      /\ LifecycleShape /\ DeadInv /\ p \in alive /\ x \notin alive
      /\ owner' = [y \in L!Procs |-> IF y \in {x} THEN "none" ELSE owner[y]]
      /\ frames => owner[x] \notin L!Leases
  BY DEF L!ReclaimsIntent, L!ReclaimsLease, L!DeadIntent, L!DeadLease, L!Removes, L!At,
         L!fileVars, L!bookVars, LifecycleInv, L!Leases
<1>2. Moves(p) /\ owner'[p] = owner[p]
  BY <1>1 DEF Moves, LifecycleShape, DeadInv
<1>3. Stage(p)' = Stage(p) /\ (Exclusive(p)' <=> Exclusive(p))
  BY <1>1 DEF Stage, Exclusive
<1>4. OwnerInv(p)'
  BY <1>1, <1>2, <1>3 DEF LifecycleInv, OwnerInv, OpenerInv, MaintainerInv, Intending
<1>5. Turns(p)
  BY <1>1, <1>3 DEF Turns
<1>6. FramesInv'
  BY <1>1 DEF LifecycleInv, FramesInv, Backs
<1> QED  BY <1>2, <1>4, <1>5, <1>6, LifecycleStands

LEMMA OwnerWritten ==
    ASSUME Roles, LifecycleInv, NEW p \in L!Procs, L!Written(p)
    PROVE  LifecycleInv'
<1>1. /\ UNCHANGED <<alive, conn, deferred, prey, frames, manifest>>
      /\ LifecycleShape /\ DeadInv /\ OwnerInv(p) /\ p \in alive /\ lifecycleAt[p] = "writing"
      /\ owner' = [owner EXCEPT ![p] = pen[p].says]
      /\ lifecycleAt' = [lifecycleAt EXCEPT ![p] = pen[p].next]
      /\ pen' = [pen EXCEPT ![p] = L!NoPen]
  BY DEF L!Written, L!At, L!Go, L!fileVars, L!bookVars, LifecycleInv
<1>2. Moves(p)
  BY <1>1 DEF Moves, LifecycleShape, DeadInv
<1>3. /\ p \in Openers \/ p \in L!Maintainers
      /\ lifecycleAt'[p] = pen[p].next /\ pen[p].next # "writing"
      /\ owner'[p] = pen[p].says
  BY <1>1 DEF OwnerInv, OpenerInv, MaintainerInv, Past, Deep, L!Procs, LifecycleShape
<1>4. Stage(p)' = Stage(p) /\ (Exclusive(p)' <=> Exclusive(p))
  BY <1>1, <1>3 DEF Stage, Exclusive
<1>5. OwnerInv(p)'
  <2>1. p \in Openers => OpenerInv(p)'
    BY <1>1, <1>3, <1>4 DEF OwnerInv, OpenerInv, L!Leases
  <2>2. p \in L!Maintainers => MaintainerInv(p)'
    <3> SUFFICES ASSUME p \in L!Maintainers PROVE MaintainerInv(p)'
      OBVIOUS
    <3>1. Intending(p)' => Exclusive(p)
      BY <1>1, <1>3, <1>4 DEF Intending, OwnerInv, MaintainerInv, Stage
    <3> QED  BY <1>1, <1>3, <1>4, <3>1 DEF OwnerInv, MaintainerInv
  <2> QED  BY <2>1, <2>2 DEF OwnerInv
<1>6. Turns(p)
  BY <1>1, <1>4 DEF Turns
<1>7. FramesInv'
  <2>1. p \in Openers => owner'[p] \in L!Leases
    BY <1>1, <1>3 DEF OwnerInv, OpenerInv, L!Leases
  <2> QED  BY <1>1, <2>1 DEF LifecycleInv, FramesInv, Backs, LifecycleShape
<1> QED  BY <1>2, <1>5, <1>6, <1>7, LifecycleStands

LEMMA ProcessFails ==
    ASSUME Roles, LifecycleInv, NEW p \in L!Procs, L!Fails(p)
    PROVE  LifecycleInv'
<1>1. /\ UNCHANGED <<alive, pen, conn, deferred, prey, frames, manifest>>
      /\ LifecycleShape /\ DeadInv /\ OwnerInv(p) /\ p \in alive
      /\ lifecycleAt[p] \in {"surveyed", "cleared", "published", "bound", "captured",
                             "intending", "draining", "drained", "claiming"}
      /\ owner' = [x \in L!Procs |-> IF x \in {p} THEN "none" ELSE owner[x]]
      /\ lifecycleAt' = [lifecycleAt EXCEPT ![p] = "done"]
  BY DEF L!Fails, L!At, L!Go, L!Removes, L!fileVars, L!bookVars, LifecycleInv
<1>2. Moves(p)
  BY <1>1 DEF Moves, LifecycleShape, DeadInv
<1>3. /\ Stage(p)' = "done" /\ lifecycleAt'[p] = "done" /\ ~Exclusive(p)'
      /\ p \in Openers => conn[p] = 0
  BY <1>1 DEF Stage, LifecycleShape, Exclusive, OwnerInv, OpenerInv
<1>4. OwnerInv(p)'
  BY <1>1, <1>3 DEF OwnerInv, OpenerInv, MaintainerInv, Intending, Past, Deep
<1>5. Turns(p)
  BY <1>1, <1>3 DEF Turns, Past, Deep
<1>6. FramesInv'
  BY <1>1, <1>3 DEF LifecycleInv, FramesInv, Backs
<1> QED  BY <1>2, <1>4, <1>5, <1>6, LifecycleStands

LEMMA ProcessDies ==
    ASSUME Roles, LifecycleInv, NEW p \in L!Procs, L!Dies(p)
    PROVE  LifecycleInv'
<1>1. /\ UNCHANGED <<owner, prey, frames, manifest>>
      /\ LifecycleShape /\ DeadInv /\ p \in alive /\ alive' = alive \ {p}
      /\ lifecycleAt' = [lifecycleAt EXCEPT ![p] = "dead"]
      /\ conn' = [conn EXCEPT ![p] = 0] /\ deferred' = [deferred EXCEPT ![p] = {}]
      /\ pen' = [pen EXCEPT ![p] = L!NoPen]
  BY DEF L!Dies, L!Go, L!fileVars, L!bookVars, LifecycleInv
<1>2. Moves(p)
  BY <1>1 DEF Moves, LifecycleShape, DeadInv
<1>3. OwnerInv(p)' /\ ~Exclusive(p)' /\ p \notin alive'
  BY <1>1 DEF OwnerInv, Exclusive
<1>4. Turns(p)
  BY <1>1, <1>3 DEF Turns
<1>5. FramesInv'
  BY <1>1 DEF LifecycleInv, FramesInv, Backs, LifecycleShape
<1> QED  BY <1>2, <1>3, <1>4, <1>5, LifecycleStands

------------------------------------------------------------------------------
\* Maintainers.
LEMMA MaintainerWalks ==
    ASSUME Roles, LifecycleInv, NEW m \in L!Maintainers,
           \/ L!Intends(m) \/ L!ChecksOthers(m) \/ L!ChoosesPrey(m) \/ L!Claims(m)
           \/ L!Retires(m) \/ L!Authorises(m) \/ L!Releases(m)
           \/ L!FailsReplacing(m) \/ L!Resumes(m)
    PROVE  LifecycleInv'
<1>1. /\ m \in alive /\ m \in L!Procs /\ m \notin Openers /\ MaintainerInv(m)
      /\ UNCHANGED <<alive, pen, conn, deferred, frames, manifest>>
      /\ LifecycleShape /\ DeadInv
      /\ lifecycleAt[m] # "writing" /\ Stage(m) = lifecycleAt[m]
  BY RolesApart
     DEF L!Intends, L!ChecksOthers, L!ChoosesPrey, L!Claims, L!Retires, L!Authorises,
         L!Releases, L!FailsReplacing, L!Resumes, L!At, L!fileVars, L!bookVars, LifecycleInv,
         OwnerInv, Stage
<1>2. \/ /\ lifecycleAt' = [lifecycleAt EXCEPT ![m] = "intending"]
         /\ owner' = [owner EXCEPT ![m] = "acquiring"]
      \/ /\ lifecycleAt' = [lifecycleAt EXCEPT ![m] = "draining"] /\ UNCHANGED owner
         /\ Stage(m) = "intending"
      \/ /\ \E s \in {"claiming", "inheriting", "mutating"} :
               lifecycleAt' = [lifecycleAt EXCEPT ![m] = s]
         /\ m \in Migrators
         /\ owner' = [owner EXCEPT ![m] = "mutating"] \/ UNCHANGED owner
      \/ /\ \E s \in {"retired", "authorised"} :
               lifecycleAt' = [lifecycleAt EXCEPT ![m] = s]
         /\ UNCHANGED owner
      \/ /\ lifecycleAt' = [lifecycleAt EXCEPT ![m] = "done"]
         /\ \/ UNCHANGED owner
            \/ owner' = [x \in L!Procs |-> IF x \in {m} THEN "none" ELSE owner[x]]
      \/ /\ lifecycleAt' = [lifecycleAt EXCEPT ![m] = "retained"] /\ m \in Migrators
         /\ UNCHANGED owner
  BY <1>1
     DEF L!Intends, L!ChecksOthers, L!ChoosesPrey, L!Claims, L!Retires, L!Authorises,
         L!Releases, L!FailsReplacing, L!Resumes, L!At, L!Go, L!Removes, MaintainerInv
<1>3. UNCHANGED prey
      \/ \E dead : prey' = [prey EXCEPT ![m] = dead] /\ dead \intersect alive = {}
  BY DEF L!Intends, L!ChecksOthers, L!ChoosesPrey, L!Claims, L!Retires, L!Authorises,
         L!Releases, L!FailsReplacing, L!Resumes
<1>4. Moves(m)
  BY <1>1, <1>2, <1>3 DEF Moves, LifecycleShape, DeadInv
<1>5. Stage(m)' = lifecycleAt'[m] /\ lifecycleAt'[m] # "writing"
  BY <1>1, <1>2 DEF Stage, LifecycleShape
<1>6. OwnerInv(m)'
  BY <1>1, <1>2, <1>5
     DEF OwnerInv, MaintainerInv, Intending, Exclusive, L!Intents, LifecycleShape
<1>7. Turns(m)
  BY <1>1, <1>2, <1>5 DEF Turns, Exclusive, LifecycleShape
<1>8. FramesInv'
  <2>1. \A q \in Openers : owner'[q] = owner[q]
    BY <1>1, <1>2, RolesApart DEF LifecycleShape
  <2> QED  BY <1>1, <2>1, FramesStay
<1> QED  BY <1>1, <1>4, <1>6, <1>7, <1>8, LifecycleStands

LEMMA MaintainerRewrites ==
    ASSUME Roles, LifecycleInv, NEW m \in L!Maintainers,
           \/ L!Holds(m) \/ L!OpensUnderIntent(m) \/ L!BeginsReplacement(m)
           \/ L!CompletesReplacement(m)
    PROVE  LifecycleInv'
<1>1. /\ m \in alive /\ m \in L!Procs /\ m \notin Openers /\ MaintainerInv(m)
      /\ UNCHANGED <<alive, owner, deferred, prey, frames, manifest>>
      /\ LifecycleShape /\ DeadInv
      /\ lifecycleAt[m] # "writing" /\ Stage(m) = lifecycleAt[m]
      /\ conn' = conn \/ \E n : conn' = [conn EXCEPT ![m] = n]
      /\ lifecycleAt' = [lifecycleAt EXCEPT ![m] = "writing"]
  BY RolesApart
     DEF L!Holds, L!OpensUnderIntent, L!BeginsReplacement, L!CompletesReplacement, L!At,
         L!fileVars, L!bookVars, LifecycleInv, OwnerInv, Stage, L!Rewrites, L!Go, L!PinnedOpen
<1>2. PICK says, names, next : pen' = [pen EXCEPT ![m] = [says |-> says, names |-> names,
                                                           next |-> next]]
         /\ \/ says = "held" /\ next = "held" /\ Exclusive(m)
            \/ says = owner[m] /\ next \in {"held", "mutating"} /\ next = Stage(m)
            \/ says = "mutating" /\ next = "mutating" /\ Exclusive(m)
            \/ says = "held" /\ next = "completed"
  BY <1>1
     DEF L!Holds, L!OpensUnderIntent, L!BeginsReplacement, L!CompletesReplacement, L!At,
         L!Rewrites, Exclusive
<1>3. Moves(m)
  BY <1>1, <1>2 DEF Moves, LifecycleShape, DeadInv
<1>4. /\ Stage(m)' = next /\ pen'[m].says = says /\ pen'[m].next = next
      /\ Exclusive(m)' => Exclusive(m)
      /\ Intending(m)' => Exclusive(m)
  BY <1>1, <1>2 DEF Stage, Exclusive, Intending, LifecycleShape
<1>5. Exclusive(m) => owner[m] \in L!Intents
  BY <1>1 DEF MaintainerInv, Intending
<1>6. OwnerInv(m)'
  BY <1>1, <1>2, <1>4, <1>5 DEF OwnerInv, MaintainerInv, L!Intents
<1>7. Turns(m)
  BY <1>1, <1>4 DEF Turns
<1>8. FramesInv'
  BY <1>1, FramesStay, RolesApart DEF Backs, LifecycleShape
<1> QED  BY <1>1, <1>3, <1>6, <1>7, <1>8, LifecycleStands

\* No lease is left: nobody has the database open or is about to, and the log is empty.
LEMMA MaintainerDrains ==
    ASSUME Roles, LifecycleInv, NEW m \in L!Maintainers, L!Drains(m)
    PROVE  LifecycleInv'
<1>1. /\ m \in alive /\ m \in L!Procs /\ m \notin Openers /\ MaintainerInv(m)
      /\ UNCHANGED <<alive, owner, pen, conn, deferred, prey, frames, manifest>>
      /\ LifecycleShape /\ DeadInv /\ Stage(m) = "draining"
      /\ lifecycleAt' = [lifecycleAt EXCEPT ![m] = "drained"]
      /\ \A x \in L!Procs : owner[x] \notin L!Leases
  BY RolesApart
     DEF L!Drains, L!At, L!Go, L!fileVars, L!bookVars, LifecycleInv, OwnerInv, Stage
<1>2. ~frames
  BY <1>1 DEF LifecycleInv, FramesInv, Backs
<1>3. NobodyIn(Past)
  BY <1>1, RolesApart DEF NobodyIn, LifecycleInv, OwnerInv, OpenerInv
<1>4. Moves(m)
  BY <1>1 DEF Moves, LifecycleShape, DeadInv
<1>5. Stage(m)' = "drained" /\ lifecycleAt'[m] = "drained"
  BY <1>1 DEF Stage, LifecycleShape
<1>6. OwnerInv(m)'
  BY <1>1, <1>5 DEF OwnerInv, MaintainerInv, Intending
<1>7. Turns(m)
  BY <1>1, <1>2, <1>3 DEF Turns
<1>8. FramesInv'
  BY <1>1, FramesStay
<1> QED  BY <1>1, <1>4, <1>6, <1>7, <1>8, LifecycleStands

LEMMA MaintainerWorks ==
    ASSUME Roles, LifecycleInv, NEW m \in L!Maintainers,
           \/ L!ClosesUnderIntent(m) \/ L!WritesManifest(m) \/ L!Replaces(m)
           \/ L!RemovesManifest(m)
    PROVE  LifecycleInv'
<1>1. /\ m \in alive /\ m \in L!Procs /\ m \notin Openers /\ MaintainerInv(m)
      /\ UNCHANGED <<alive, lifecycleAt, owner, pen, deferred, prey>>
      /\ conn' = conn \/ conn' = [conn EXCEPT ![m] = 0]
      /\ LifecycleShape /\ DeadInv /\ (frames' => frames)
      /\ manifest' # "none" => manifest # "none" \/ Exclusive(m)
  BY RolesApart
     DEF L!ClosesUnderIntent, L!WritesManifest, L!Replaces, L!RemovesManifest, L!At,
         L!fileVars, L!procVars, L!bookVars, LifecycleInv, OwnerInv, Stage, Exclusive
<1>2. Moves(m)
  BY <1>1 DEF Moves, LifecycleShape, DeadInv
<1>3. Stage(m)' = Stage(m) /\ (Exclusive(m)' <=> Exclusive(m))
  BY <1>1 DEF Stage, Exclusive
<1>4. OwnerInv(m)'
  BY <1>1, <1>3 DEF OwnerInv, MaintainerInv, Intending
<1>5. Turns(m)
  BY <1>1, <1>3 DEF Turns
<1>6. FramesInv'
  BY <1>1, FramesStay, RolesApart DEF Backs, LifecycleShape
<1> QED  BY <1>1, <1>2, <1>4, <1>5, <1>6, LifecycleStands

LEMMA MaintainerInherits ==
    ASSUME Roles, LifecycleInv, NEW m \in L!Maintainers, L!Inherits(m)
    PROVE  LifecycleInv'
<1>1. /\ m \in alive /\ m \in L!Procs /\ m \notin Openers /\ MaintainerInv(m)
      /\ UNCHANGED <<alive, pen, conn, deferred, prey, frames, manifest>>
      /\ LifecycleShape /\ DeadInv /\ m \in Migrators
      /\ lifecycleAt' = [lifecycleAt EXCEPT ![m] = "mutating"]
      /\ owner' = [x \in L!Procs |-> IF x \in prey[m] THEN "none" ELSE owner[x]]
      /\ \A x \in prey[m] : owner[x] = "mutating"
  BY RolesApart
     DEF L!Inherits, L!At, L!Go, L!Removes, L!fileVars, L!bookVars, LifecycleInv, OwnerInv,
         MaintainerInv, Stage
<1>2. Moves(m)
  BY <1>1 DEF Moves, LifecycleShape, DeadInv
<1>3. Stage(m)' = "mutating" /\ lifecycleAt'[m] = "mutating" /\ ~Exclusive(m)'
  BY <1>1 DEF Stage, Exclusive, LifecycleShape
<1>4. OwnerInv(m)'
  BY <1>1, <1>3 DEF OwnerInv, MaintainerInv, Intending
<1>5. Turns(m)
  BY <1>1, <1>3 DEF Turns
<1>6. FramesInv'
  BY <1>1, FramesStay, RolesApart DEF Backs, L!Leases
<1> QED  BY <1>1, <1>2, <1>4, <1>5, <1>6, LifecycleStands

LEMMA LifecycleStep ==
    ASSUME Roles
    PROVE  LifecycleInv /\ [L!LifecycleNext]_(L!lifecycleVars) => LifecycleInv'
<1> SUFFICES ASSUME LifecycleInv, [L!LifecycleNext]_(L!lifecycleVars)
             PROVE  LifecycleInv'
  OBVIOUS
<1>1. CASE UNCHANGED L!lifecycleVars
  <2>1. UNCHANGED <<alive, lifecycleAt, owner, pen, deferred, prey, conn, frames, manifest>>
    BY <1>1 DEF L!lifecycleVars, L!procVars, L!fileVars, L!bookVars
  <2>2. /\ \A p \in L!Procs : Stage(p)' = Stage(p) /\ (Exclusive(p)' <=> Exclusive(p))
        /\ \A p \in L!Procs : Backs(p)' <=> Backs(p)
    BY <2>1 DEF Stage, Exclusive, Backs
  <2>3. LifecycleShape' /\ DeadInv' /\ FramesInv'
    BY <2>1, <2>2 DEF LifecycleInv, LifecycleShape, DeadInv, FramesInv
  <2>4. \A p \in L!Procs : OwnerInv(p)'
    BY <2>1, <2>2 DEF LifecycleInv, OwnerInv, OpenerInv, MaintainerInv, Intending
  <2>5. ExclusiveInv' /\ ManifestInv'
    BY <2>1, <2>2, RolesApart DEF LifecycleInv, ExclusiveInv, ManifestInv, NobodyIn
  <2> QED  BY <2>3, <2>4, <2>5 DEF LifecycleInv
<1>2. ASSUME NEW p \in Openers, L!OpenerStep(p)
      PROVE  LifecycleInv'
  BY <1>2, OpenerWalks, OpenerBinds, OpenerOpens, OpenerUses, OpenerCloses DEF L!OpenerStep
<1>3. ASSUME NEW m \in L!Maintainers, L!MaintainerStep(m)
      PROVE  LifecycleInv'
  BY <1>3, MaintainerWalks, MaintainerRewrites, MaintainerDrains, MaintainerWorks,
     MaintainerInherits DEF L!MaintainerStep
<1>4. ASSUME NEW p \in L!Procs, L!Written(p) \/ L!Fails(p) \/ L!Dies(p)
      PROVE  LifecycleInv'
  BY <1>4, OwnerWritten, ProcessFails, ProcessDies
<1>5. ASSUME NEW p \in L!Procs, NEW x \in L!Procs,
             L!ReclaimsIntent(p, x) \/ L!ReclaimsLease(p, x)
      PROVE  LifecycleInv'
  BY <1>5, OwnersReclaim
<1> QED  BY <1>1, <1>2, <1>3, <1>4, <1>5 DEF L!LifecycleNext

\* Only a replacement takes another file for one that is there, and then the log is empty:
\* the maintainer holds what it drained, or its migration checked it and wrote the manifest.
LEMMA LogIsEmptyThen ==
    ASSUME LifecycleInv, L!LifecycleNext
    PROVE  L!ReplacesComplete
<1> SUFFICES ASSUME lifecycleFile # 0, lifecycleFile' # lifecycleFile
             PROVE  ~frames
  BY DEF L!ReplacesComplete
<1>1. PICK m \in L!Maintainers : L!Replaces(m)
  <2>1. ~\E p \in Openers : L!OpenerStep(p)
    BY DEF L!OpenerStep, L!SurveysLeases, L!FindsNoIntent, L!Publishes, L!Binds, L!Captures,
       L!CreatesFile, L!Opens, L!Checkpoints, L!Writes, L!Closes, L!ReleasesDeferred,
       L!fileVars
  <2>2. ~\E p \in L!Procs : L!Written(p) \/ L!Fails(p) \/ L!Dies(p)
    BY DEF L!Written, L!Fails, L!Dies, L!fileVars
  <2>3. ~\E p, x \in L!Procs : L!ReclaimsIntent(p, x) \/ L!ReclaimsLease(p, x)
    BY DEF L!ReclaimsIntent, L!ReclaimsLease, L!fileVars
  <2>4. PICK m \in L!Maintainers : L!MaintainerStep(m)
    BY <2>1, <2>2, <2>3 DEF L!LifecycleNext
  <2>5. L!Replaces(m)
    BY <2>4
       DEF L!MaintainerStep, L!Intends, L!ChecksOthers, L!Drains, L!Holds, L!ChoosesPrey,
           L!Claims, L!Inherits, L!OpensUnderIntent, L!ClosesUnderIntent, L!WritesManifest,
           L!BeginsReplacement, L!CompletesReplacement, L!RemovesManifest, L!Retires,
           L!Authorises, L!Releases, L!FailsReplacing, L!Resumes, L!fileVars
  <2> QED  BY <2>5
<1>2. CASE m \in Migrators
  BY <1>1, <1>2 DEF L!Replaces, LifecycleInv, ManifestInv
<1>3. CASE m \notin Migrators
  BY <1>1, <1>3 DEF L!Replaces, L!At, Exclusive, Stage, LifecycleInv, ExclusiveInv
<1> QED  BY <1>2, <1>3

LEMMA LifecycleFollowed == [Next]_vars => [L!LifecycleNext]_(L!lifecycleVars)
BY DEF Next, vars, lifecycleVars, L!lifecycleVars, L!procVars, L!fileVars, L!bookVars,
   LifecycleSteps, ArchiveSteps, MigrationSteps, SourceSteps, OpencodeSteps, TaskStateSteps,
   RulesSteps, ParanoidSteps, EvidenceSteps, SetupSteps, InstallSteps, OpenTurnSteps

\* A file is never replaced while the write-ahead log holds what it does not, for any
\* number of processes, files and deaths (database-lifecycle.ts: an open publishes its
\* lease and looks for intents again, an exclusive acquisition publishes its intent and
\* waits until no lease is left, and a dead lease goes only when the file is complete).
THEOREM NoCommitIsLostHolds ==
    ASSUME Roles
    PROVE  Spec => NoCommitIsLost
<1>1. Init => LifecycleInv
  BY LifecycleStarts DEF Init
<1>2. LifecycleInv /\ [Next]_vars => LifecycleInv'
  BY LifecycleFollowed, LifecycleStep
<1>3. LifecycleInv /\ [Next]_vars => [L!ReplacesComplete]_(L!lifecycleVars)
  BY LifecycleFollowed, LogIsEmptyThen
<1>4. Spec => [][L!ReplacesComplete]_(L!lifecycleVars)
  BY <1>1, <1>2, <1>3, PTL DEF Spec
<1> QED  BY <1>4 DEF NoCommitIsLost, L!NoCommitIsLost

=============================================================================
