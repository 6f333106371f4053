------------------------------ MODULE Migration ------------------------------
(* The encryption of the primary database and of its managed backups         *)
(* (storage/database-migration.ts): a manifest on disk names the stage, and  *)
(* whoever finds it after a crash or an error goes on from what the disk and *)
(* the key store hold.  One process at a time runs it, under the exclusive   *)
(* lease of Lifecycle.                                                       *)
EXTENDS Integers, FiniteSets

CONSTANTS
    Backups,    \* the managed backups beside the database
    MaxStops,   \* bound: crashes and errors of a migration
    MaxWrites   \* bound: writes that reach the plaintext after a stop

VARIABLES
    stage,      \* of the manifest; "none" when there is no manifest
    keySha,     \* the key the manifest names; 0 when it names none
    original,   \* the content of the plaintext the manifest is based on
    recorded,   \* the manifest holds the digest of the encrypted rollback
    backupStage,\* of each backup in the manifest
    canonical, sidecar, rollback, \* the database and its two encrypted copies
    source, replacement,          \* each backup and its encrypted copy
    stored,     \* the key in the key store of this migration; 0 when none
    late,       \* a key a timed-out call may still store; 0 when none
    metadata,   \* encryption.json names this migration's key
    step, key,  \* of the running process: where it is, and the key in memory
    keys, stops \* keys generated and stops so far

manifestVars  == <<stage, keySha, original, recorded, backupStage>>
artifactVars  == <<canonical, sidecar, rollback, source, replacement>>
keyStoreVars  == <<stored, late, metadata>>
processVars   == <<step, key, keys, stops>>
migrationVars == <<manifestVars, artifactVars, keyStoreVars, processVars>>

\* A file is described by its key (0: plaintext) and the content it holds.
Plain(n)   == [key |-> 0, content |-> n]
Sealed(k, n) == [key |-> k, content |-> n]
Missing    == [key |-> -1, content |-> 0]
Partial    == [key |-> -2, content |-> 0]
KeyCommitted == {"key_committed", "wal_cleaned", "rolled_back_key_retained", "canonical_swapped"}

MigrationInit ==
    /\ stage = "none" /\ keySha = 0 /\ original = 0 /\ recorded = FALSE
    /\ backupStage = [b \in Backups |-> "pending"]
    /\ canonical = Plain(0) /\ sidecar = Missing /\ rollback = Missing
    /\ source = [b \in Backups |-> Plain(0)]
    /\ replacement = [b \in Backups |-> Missing]
    /\ stored = 0 /\ late = 0 /\ metadata = FALSE
    /\ step = "idle" /\ key = 0 /\ keys = 0 /\ stops = 0

Running == step # "idle"
Enter(s) == step' = s /\ UNCHANGED <<key, keys, stops>>

----------------------------------------------------------------------------
\* `elepha encrypt`: a quiesced plaintext gets a manifest and a new key account.
Starts ==
    /\ ~Running /\ stage = "none" /\ canonical.key = 0
    /\ stage' = "quiesced" /\ original' = canonical.content
    /\ keySha' = 0 /\ recorded' = FALSE
    /\ backupStage' = [b \in Backups |-> "pending"]
    /\ stored' = 0 /\ late' = 0
    /\ Enter("plain")
    /\ UNCHANGED <<artifactVars, metadata>>

\* Recovery of a plaintext database: a change made before the copies were
\* started becomes the baseline, a later one blocks the recovery.
RecoversPlain ==
    LET rebased == stage = "quiesced" /\ rollback = Missing IN
    /\ ~Running /\ stage # "none" /\ canonical.key = 0
    /\ rebased \/ canonical.content = original
    /\ original' = canonical.content
    /\ Enter("plain")
    /\ UNCHANGED <<stage, keySha, recorded, backupStage, artifactVars, keyStoreVars>>

\* Recovery of an encrypted one needs the key the manifest names.
RecoversEncrypted ==
    /\ ~Running /\ stage # "none" /\ canonical.key > 0
    /\ stored = keySha /\ stored = canonical.key
    /\ (stage = "verified" /\ rollback = Missing) \/ (recorded /\ rollback.key = stored)
    /\ key' = stored
    /\ step' = IF stage = "verified" THEN "finalizing" ELSE "swapped"
    /\ UNCHANGED <<manifestVars, artifactVars, keyStoreVars, keys, stops>>

GeneratesKey ==
    /\ step = "plain" /\ stage \in {"quiesced", "key_prepared"}
    /\ sidecar' = Missing /\ rollback' = Missing
    /\ keys' = keys + 1 /\ key' = keys + 1
    /\ stage' = "key_prepared" /\ keySha' = keys + 1 /\ recorded' = FALSE
    /\ step' = "building"
    /\ UNCHANGED <<original, backupStage, canonical, source, replacement, keyStoreVars, stops>>

TakesStoredKey ==
    /\ step = "plain"
    /\ stage \in KeyCommitted \union {"sidecar_encrypted", "key_commitment_started"}
    /\ stored # 0 /\ stored = keySha
    /\ key' = stored /\ step' = "building"
    /\ UNCHANGED <<manifestVars, artifactVars, keyStoreVars, keys, stops>>

MayNeverCleanUp == FALSE

\* Copies were made and no key was stored: the copies go, the plaintext stays.
MayCleanUp == stage = "sidecar_encrypted" /\ stored = 0

CleansUp ==
    /\ step = "plain" /\ MayCleanUp
    /\ sidecar' = Missing /\ rollback' = Missing
    /\ replacement' = [b \in Backups |-> Missing]
    /\ Enter("removing")
    /\ UNCHANGED <<manifestVars, canonical, source, keyStoreVars>>

\* A copy is started as an empty file; the finished one is verified.
StartsCopy ==
    /\ step = "building"
    /\ \/ sidecar = Missing /\ sidecar' = Partial /\ UNCHANGED rollback
       \/ sidecar.key = key /\ ~recorded /\ rollback = Missing
            /\ rollback' = Partial /\ UNCHANGED sidecar
    /\ UNCHANGED <<manifestVars, canonical, source, replacement, keyStoreVars, processVars>>

FinishesCopy ==
    /\ step = "building"
    /\ \/ sidecar = Partial /\ sidecar' = Sealed(key, canonical.content)
            /\ UNCHANGED <<rollback, recorded>>
       \/ rollback = Partial /\ rollback' = Sealed(key, canonical.content)
            /\ recorded' = TRUE /\ UNCHANGED sidecar
    /\ UNCHANGED <<stage, keySha, original, backupStage, canonical, source, replacement, keyStoreVars, processVars>>

\* With the database locked, the plaintext must still be the one copied.
Copied ==
    /\ step = "building" /\ recorded
    /\ sidecar = Sealed(key, canonical.content) /\ rollback = sidecar
    /\ canonical.content = original

RevalidatesNew ==
    /\ Copied /\ stage = "key_prepared"
    /\ stage' = "sidecar_encrypted"
    /\ Enter("committing")
    /\ UNCHANGED <<keySha, original, recorded, backupStage, artifactVars, keyStoreVars>>

RevalidatesStored ==
    /\ Copied /\ stage # "key_prepared"
    /\ metadata' = TRUE
    /\ stage' = IF stage \in KeyCommitted THEN stage ELSE "key_committed"
    /\ Enter("backups")
    /\ UNCHANGED <<keySha, original, recorded, backupStage, artifactVars, stored, late>>

\* The stage is on disk before the key store is called; the call may store the
\* key, fail, or time out and store it later.
StartsCommitment ==
    /\ step = "committing" /\ stage = "sidecar_encrypted"
    /\ stage' = "key_commitment_started"
    /\ Enter("storing")
    /\ UNCHANGED <<keySha, original, recorded, backupStage, artifactVars, keyStoreVars>>

StoresKey ==
    /\ step = "storing"
    /\ \/ stored' = key /\ UNCHANGED late
       \/ late' = key /\ UNCHANGED stored
       \/ UNCHANGED <<stored, late>>
    /\ Enter("reading")
    /\ UNCHANGED <<manifestVars, artifactVars, metadata>>

StoresLate ==
    /\ late # 0
    /\ stored' = late /\ late' = 0
    /\ UNCHANGED <<manifestVars, artifactVars, metadata, processVars>>

ReadsNothingBack == TRUE

ReadBack == stored = key

CommitsKey ==
    /\ step = "reading" /\ ReadBack
    /\ metadata' = TRUE /\ stage' = "key_committed"
    /\ Enter("backups")
    /\ UNCHANGED <<keySha, original, recorded, backupStage, artifactVars, stored, late>>

\* Each backup is copied, renamed over its source, and marked.
PreparesBackup(b) ==
    /\ step = "backups" /\ backupStage[b] # "replaced" /\ source[b].key = 0
    /\ backupStage[b] = "pending" \/ replacement[b] = Missing
    /\ replacement' = [replacement EXCEPT ![b] = Sealed(key, source[b].content)]
    /\ backupStage' = [backupStage EXCEPT ![b] = "prepared"]
    /\ UNCHANGED <<stage, keySha, original, recorded, canonical, sidecar, rollback, source, keyStoreVars, processVars>>

ReplacesBackup(b) ==
    /\ step = "backups" /\ backupStage[b] = "prepared"
    /\ source[b].key = 0 /\ replacement[b].key = key
    /\ source' = [source EXCEPT ![b] = replacement[b]]
    /\ replacement' = [replacement EXCEPT ![b] = Missing]
    /\ UNCHANGED <<manifestVars, canonical, sidecar, rollback, keyStoreVars, processVars>>

MarksBackup(b) ==
    /\ step = "backups" /\ backupStage[b] = "prepared"
    /\ source[b].key = key /\ replacement[b] = Missing
    /\ backupStage' = [backupStage EXCEPT ![b] = "replaced"]
    /\ UNCHANGED <<stage, keySha, original, recorded, artifactVars, keyStoreVars, processVars>>

BackupsEncrypted == \A b \in Backups : backupStage[b] = "replaced" /\ source[b].key = key

ClosesPlaintext ==
    /\ step = "backups" /\ BackupsEncrypted
    /\ stage' = "wal_cleaned"
    /\ Enter("swapping")
    /\ UNCHANGED <<keySha, original, recorded, backupStage, artifactVars, keyStoreVars>>

Swaps ==
    /\ step = "swapping"
    /\ canonical' = sidecar /\ sidecar' = Missing
    /\ Enter("swapped")
    /\ UNCHANGED <<manifestVars, rollback, source, replacement, keyStoreVars>>

\* A swap that fails puts the encrypted rollback in place and stops there.
SwapFails ==
    /\ step = "swapping" /\ stops < MaxStops
    /\ canonical' = rollback
    /\ stage' = "rolled_back_key_retained"
    /\ step' = "idle" /\ key' = 0 /\ stops' = stops + 1
    /\ UNCHANGED <<keySha, original, recorded, backupStage, sidecar, rollback, source, replacement, keyStoreVars, keys>>

\* The swapped database is compared with the rollback before that goes.
Verifies ==
    /\ step = "swapped"
    /\ recorded /\ rollback.key = key /\ canonical = rollback
    /\ BackupsEncrypted
    /\ stage' = "verified"
    /\ Enter("finalizing")
    /\ UNCHANGED <<keySha, original, recorded, backupStage, artifactVars, keyStoreVars>>

RemovesRollbackOnly ==
    /\ step = "finalizing"
    /\ rollback' = Missing
    /\ replacement' = [b \in Backups |-> Missing]
    /\ Enter("removing")
    /\ UNCHANGED <<manifestVars, canonical, sidecar, source, keyStoreVars>>

RemovesArtifacts ==
    /\ step = "finalizing"
    /\ sidecar' = Missing /\ rollback' = Missing
    /\ replacement' = [b \in Backups |-> Missing]
    /\ Enter("removing")
    /\ UNCHANGED <<manifestVars, canonical, source, keyStoreVars>>

EndsMigration ==
    /\ step = "removing"
    /\ stage' = "none" /\ step' = "idle" /\ key' = 0
    /\ UNCHANGED <<keySha, original, recorded, backupStage, artifactVars, keyStoreVars, keys, stops>>

\* A crash, or an error: either way only the disk and the key store remain.
Stops ==
    /\ Running /\ stops < MaxStops
    /\ step' = "idle" /\ key' = 0 /\ stops' = stops + 1
    /\ UNCHANGED <<manifestVars, artifactVars, keyStoreVars, keys>>

\* A key that cannot be read back ends the run; its recovery waits for the key.
GivesUp ==
    /\ \/ step = "reading" /\ stored # key
       \/ step = "plain" /\ stage = "key_commitment_started" /\ stored = 0
    /\ step' = "idle" /\ key' = 0
    /\ UNCHANGED <<manifestVars, artifactVars, keyStoreVars, keys, stops>>

\* A write acknowledged after the owner of a merely quiesced manifest stopped.
WritesPlaintext ==
    /\ ~Running /\ canonical.key = 0 /\ canonical.content < MaxWrites
    /\ stage \in {"none", "quiesced"}
    /\ canonical' = Plain(canonical.content + 1)
    /\ UNCHANGED <<manifestVars, sidecar, rollback, source, replacement, keyStoreVars, processVars>>

MigrationStep ==
    \/ GeneratesKey \/ TakesStoredKey \/ CleansUp
    \/ StartsCopy \/ FinishesCopy \/ RevalidatesNew \/ RevalidatesStored
    \/ StartsCommitment \/ StoresKey \/ CommitsKey \/ GivesUp
    \/ \E b \in Backups : PreparesBackup(b) \/ ReplacesBackup(b) \/ MarksBackup(b)
    \/ ClosesPlaintext \/ Swaps \/ Verifies \/ RemovesArtifacts \/ EndsMigration

MigrationRecovers == RecoversPlain \/ RecoversEncrypted

MigrationNext ==
    \/ Starts \/ MigrationRecovers \/ MigrationStep
    \/ SwapFails \/ Stops \/ StoresLate \/ WritesPlaintext

MigrationSpec == MigrationInit /\ [][MigrationNext]_migrationVars

----------------------------------------------------------------------------
\* Whatever is encrypted, the database or a backup, is encrypted with a key that
\* is in the key store: no stop, late key or second key makes it unreadable.
EncryptedIsReadable ==
    \A f \in {canonical} \union {source[b] : b \in Backups} : f.key > 0 => f.key = stored

\* No manifest means that nothing or everything is encrypted, with the key the
\* metadata names, and that no copy is left behind.
FinishedIsWhole ==
    stage = "none" =>
        /\ sidecar = Missing /\ rollback = Missing
        /\ \A b \in Backups : replacement[b] = Missing
        /\ \A b \in Backups : source[b].key = canonical.key
        /\ canonical.key > 0 => metadata

\* Again and again there is no migration: every one ends, however often it was
\* stopped, unless the key store lost the key; then it waits for the key.
MigrationEnds == []<>(stage = "none" \/ (stage = "key_commitment_started" /\ stored = 0))
=============================================================================
