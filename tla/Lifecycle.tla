------------------------------ MODULE Lifecycle ------------------------------
(* Who may open the database file, and who may replace it                    *)
(* (storage/database-lifecycle.ts).  Every process leaves a file of its own: *)
(* an ordinary open a shared lease, a restore or an encryption migration an  *)
(* exclusive intent.  No lock protects them; each side publishes first and   *)
(* looks again afterwards.  A process that dies leaves its file behind, and  *)
(* the next one has to prove what it may infer from it.                      *)
EXTENDS Integers, FiniteSets

CONSTANTS
    Openers,    \* processes that open the database as usual
    Restorers,  \* processes that replace it by a backup
    Migrators,  \* processes that replace it by its encrypted copy
    MaxFiles,   \* bound: files ever created at the path
    MaxDeaths   \* bound: processes that die

VARIABLES
    alive,      \* the processes that have not died
    at,         \* the step each process is at
    owner,      \* what the owner file of each process says
    torn,       \* processes whose owner file is truncated and not yet rewritten
    pen,        \* the record each such process is about to write, and its next step
    baseline,   \* the file each owner file names; Unknown until it is recorded
    deferred,   \* dead leases an opener took over until it has read the database
    prey,       \* dead migrations a migrator claims
    file,       \* the file at the path; 0 when there is none
    created,    \* files created so far
    frames,     \* the write-ahead log holds what the file does not
    conn,       \* the file each process has open; 0 when none
    authority,  \* the file the last exclusive owner left; 0 when none
    retired,    \* the files that were replaced
    manifest    \* of the migration: none, before or after its swap

procVars == <<alive, at, owner, torn, pen, baseline, deferred, prey, conn>>
fileVars == <<file, created, frames>>
bookVars == <<authority, retired, manifest>>
lifecycleVars == <<procVars, fileVars, bookVars>>

Maintainers == Restorers \union Migrators
Procs   == Openers \union Maintainers
Unknown == -1
Leases  == {"blank", "bound"}
Intents == {"acquiring", "held", "mutating"}
NoPen   == [says |-> "none", names |-> Unknown, next |-> "start"]

LifecycleInit ==
    /\ alive = Procs
    /\ at = [p \in Procs |-> "start"]
    /\ owner = [p \in Procs |-> "none"]
    /\ torn = {}
    /\ pen = [p \in Procs |-> NoPen]
    /\ baseline = [p \in Procs |-> Unknown]
    /\ deferred = [p \in Procs |-> {}]
    /\ prey = [p \in Procs |-> {}]
    /\ file \in {0, 1}
    /\ created = file
    /\ frames = FALSE
    /\ conn = [p \in Procs |-> 0]
    /\ authority = 0 /\ retired = {}
    /\ manifest = "none"

----------------------------------------------------------------------------
\* What a process can tell from the files of the others.

\* A file is known by its device and inode; the path is resolved, the file opened
\* and looked up again, and any difference is an error.
Identity      == file
At(p, steps)  == p \in alive /\ at[p] \in steps
Acceptable(f) == f \notin retired /\ (authority # 0 => f = authority)
Provable(x)   == x \notin torn /\ owner[x] # "blank" /\ baseline[x] = Identity

DeadLeaseTakenAlone(x) == x \notin alive /\ owner[x] \in Leases /\ Provable(x)

\* A dead lease goes only when its file is still in place and complete.
DeadLease(x) == x \notin alive /\ owner[x] \in Leases /\ Provable(x) /\ ~frames

\* So does a dead intent that held the file; one that died while replacing it
\* stays, and one that had not got the file yet proves nothing.
DeadIntent(x) ==
    /\ x \notin alive /\ x \notin torn
    /\ \/ owner[x] = "acquiring"
       \/ owner[x] = "held" /\ Provable(x) /\ ~frames

NoIntentBut(S) == \A x \in Procs \ S : owner[x] \notin Intents

\* Owner files are removed, and what they named goes with them.
Removes(S) ==
    /\ owner' = [x \in Procs |-> IF x \in S THEN "none" ELSE owner[x]]
    /\ baseline' = [x \in Procs |-> IF x \in S THEN Unknown ELSE baseline[x]]

Go(p, step) == at' = [at EXCEPT ![p] = step]

\* The owner file is truncated, and then written.
Rewrites(p, says, names, next) ==
    /\ torn' = torn \union {p}
    /\ pen' = [pen EXCEPT ![p] = [says |-> says, names |-> names, next |-> next]]
    /\ Go(p, "writing")

Written(p) ==
    /\ At(p, {"writing"})
    /\ owner' = [owner EXCEPT ![p] = pen[p].says]
    /\ baseline' = [baseline EXCEPT ![p] = pen[p].names]
    /\ torn' = torn \ {p}
    /\ pen' = [pen EXCEPT ![p] = NoPen]
    /\ Go(p, pen[p].next)
    /\ UNCHANGED <<alive, deferred, prey, conn, fileVars, bookVars>>

ReclaimsIntent(p, x) ==
    /\ \/ At(p, {"surveyed", "published", "intending", "drained"})
       \/ At(p, {"start"}) /\ p \in Migrators
    /\ x # p /\ DeadIntent(x)
    /\ Removes({x})
    /\ UNCHANGED <<alive, at, torn, pen, deferred, prey, conn, fileVars, bookVars>>

ReclaimsLease(p, x) ==
    /\ At(p, {"draining"})
    /\ DeadLease(x)
    /\ Removes({x})
    /\ UNCHANGED <<alive, at, torn, pen, deferred, prey, conn, fileVars, bookVars>>

----------------------------------------------------------------------------
\* An ordinary open: survey the leases, look for intents, publish a lease,
\* look again, and only then look at the database.

SurveysLeases(p) ==
    /\ At(p, {"start"}) /\ p \in Openers
    /\ \A x \in Procs : owner[x] \in Leases =>
           x \notin torn /\ (x \notin alive => Provable(x))
    /\ deferred' = [deferred EXCEPT ![p] = {x \in Procs \ alive : owner[x] \in Leases}]
    /\ Go(p, "surveyed")
    /\ UNCHANGED <<alive, owner, torn, pen, baseline, prey, conn, fileVars, bookVars>>

FindsNoIntent(p) ==
    /\ At(p, {"surveyed"})
    /\ NoIntentBut({})
    /\ Go(p, "cleared")
    /\ UNCHANGED <<alive, owner, torn, pen, baseline, deferred, prey, conn, fileVars, bookVars>>

Publishes(p) ==
    /\ At(p, {"cleared"})
    /\ owner' = [owner EXCEPT ![p] = "blank"]
    /\ Go(p, "published")
    /\ UNCHANGED <<alive, torn, pen, baseline, deferred, prey, conn, fileVars, bookVars>>

RechecksNothing(p) == TRUE

Rechecks(p) == NoIntentBut({p})

Binds(p) ==
    /\ At(p, {"published"})
    /\ Rechecks(p)
    /\ Acceptable(Identity)
    /\ Rewrites(p, "bound", Identity, "bound")
    /\ UNCHANGED <<alive, owner, baseline, deferred, prey, conn, fileVars, bookVars>>

\* The migration is looked for, the identity captured, and the key awaited.
Captures(p) ==
    /\ At(p, {"bound"})
    /\ manifest = "none" /\ Identity = baseline[p]
    /\ Go(p, "captured")
    /\ UNCHANGED <<alive, owner, torn, pen, baseline, deferred, prey, conn, fileVars, bookVars>>

\* A missing file is created through the pinned descriptor and recorded.
CreatesFile(p) ==
    /\ At(p, {"captured"})
    /\ file = 0 /\ baseline[p] = 0 /\ Acceptable(0)
    /\ created < MaxFiles
    /\ file' = created + 1 /\ created' = created + 1
    /\ Rewrites(p, "bound", created + 1, "captured")
    /\ UNCHANGED <<alive, owner, baseline, deferred, prey, conn, frames, bookVars>>

\* The file is pinned by a descriptor, the connection opened through it, and
\* sealed: its file must be the pinned one, unchanged since.
PinnedOpen(p) == Identity # 0 /\ conn' = [conn EXCEPT ![p] = Identity]

Opens(p) ==
    /\ At(p, {"captured"})
    /\ Identity = baseline[p] /\ Acceptable(Identity)
    /\ PinnedOpen(p)
    /\ Rewrites(p, "bound", Identity, "opened")
    /\ UNCHANGED <<alive, owner, baseline, deferred, prey, fileVars, bookVars>>

\* What dead openers left in the log reaches the file before their leases go.
Checkpoints(p) ==
    /\ At(p, {"opened"})
    /\ frames' = (frames /\ deferred[p] = {})
    /\ Go(p, "recovering")
    /\ UNCHANGED <<alive, owner, torn, pen, baseline, deferred, prey, conn, file, created, bookVars>>

ReleasesDeferred(p, x) ==
    /\ At(p, {"recovering"})
    /\ x \in deferred[p]
    /\ owner[x] # "none" => Provable(x)
    /\ Removes({x})
    /\ deferred' = [deferred EXCEPT ![p] = @ \ {x}]
    /\ UNCHANGED <<alive, at, torn, pen, prey, conn, fileVars, bookVars>>

Writes(p) ==
    /\ At(p, {"recovering"}) /\ deferred[p] = {}
    /\ ~frames /\ frames' = TRUE
    /\ UNCHANGED <<procVars, file, created, bookVars>>

\* The close checkpoints first; while another connection reads, the log stays.
Closes(p) ==
    /\ At(p, {"opened", "recovering"}) /\ p \in Openers
    /\ frames' = (frames /\ \E q \in Openers \ {p} : conn[q] # 0)
    /\ conn' = [conn EXCEPT ![p] = 0]
    /\ Removes({p})
    /\ Go(p, "done")
    /\ UNCHANGED <<alive, torn, pen, deferred, prey, file, created, bookVars>>

----------------------------------------------------------------------------
\* An exclusive acquisition: publish an intent, look for others, wait until no
\* lease is left, look again, and record the file.

Intends(m) ==
    /\ At(m, {"start"}) /\ m \in Maintainers
    /\ \A x \in Procs : owner[x] \in Intents => m \in Restorers
    /\ owner' = [owner EXCEPT ![m] = "acquiring"]
    /\ Go(m, "intending")
    /\ UNCHANGED <<alive, torn, pen, baseline, deferred, prey, conn, fileVars, bookVars>>

ChecksOthers(m) ==
    /\ At(m, {"intending"})
    /\ NoIntentBut({m})
    /\ Go(m, "draining")
    /\ UNCHANGED <<alive, owner, torn, pen, baseline, deferred, prey, conn, fileVars, bookVars>>

Drains(m) ==
    /\ At(m, {"draining"})
    /\ \A x \in Procs : owner[x] \notin Leases
    /\ Go(m, "drained")
    /\ UNCHANGED <<alive, owner, torn, pen, baseline, deferred, prey, conn, fileVars, bookVars>>

Holds(m) ==
    /\ At(m, {"drained"})
    /\ NoIntentBut({m})
    /\ Acceptable(Identity)
    /\ Rewrites(m, "held", Identity, "held")
    /\ UNCHANGED <<alive, owner, baseline, deferred, prey, conn, fileVars, bookVars>>

\* A migrator that knows the manifest claims the dead owners of that migration:
\* the claim is named after them, so that of two claimants one fails, unless the
\* other has already finished and released.
ChoosesPrey(m) ==
    LET dead == {x \in Migrators : owner[x] = "mutating"} IN
    /\ At(m, {"start"}) /\ m \in Migrators
    /\ manifest # "none"
    /\ dead # {} /\ dead \intersect (alive \union torn) = {}
    /\ NoIntentBut(dead)
    /\ \A x, y \in dead : baseline[x] = baseline[y]
    /\ prey' = [prey EXCEPT ![m] = dead]
    /\ Go(m, "claiming")
    /\ UNCHANGED <<alive, owner, torn, pen, baseline, deferred, conn, fileVars, bookVars>>

Claims(m) ==
    /\ At(m, {"claiming"})
    /\ ~\E x \in Migrators : owner[x] # "none" /\ prey[x] = prey[m]
    /\ owner' = [owner EXCEPT ![m] = "mutating"]
    /\ baseline' = [baseline EXCEPT ![m] = baseline[CHOOSE x \in prey[m] : TRUE]]
    /\ Go(m, "inheriting")
    /\ UNCHANGED <<alive, torn, pen, deferred, prey, conn, fileVars, bookVars>>

Inherits(m) ==
    /\ At(m, {"inheriting"})
    /\ \A x \in prey[m] : owner[x] = "mutating"
    /\ Removes(prey[m])
    /\ Go(m, "mutating")
    /\ UNCHANGED <<alive, torn, pen, deferred, prey, conn, fileVars, bookVars>>

\* Under the intent the database is opened and closed again, to be checked,
\* checkpointed and copied.
OpensUnderIntent(m) ==
    /\ At(m, {"held", "mutating"}) /\ conn[m] = 0
    /\ PinnedOpen(m)
    /\ Rewrites(m, owner[m], baseline[m], at[m])
    /\ UNCHANGED <<alive, owner, baseline, deferred, prey, fileVars, bookVars>>

ClosesUnderIntent(m) ==
    /\ At(m, {"held", "mutating"}) /\ conn[m] # 0
    /\ conn' = [conn EXCEPT ![m] = 0]
    /\ frames' = FALSE
    /\ UNCHANGED <<alive, at, owner, torn, pen, baseline, deferred, prey, file, created, bookVars>>

WritesManifest(m) ==
    /\ At(m, {"held"}) /\ m \in Migrators
    /\ manifest = "none" /\ file # 0 /\ file \notin retired
    /\ manifest' = "before"
    /\ UNCHANGED <<procVars, fileVars, authority, retired>>

BeginsReplacement(m) ==
    /\ At(m, {"held"}) /\ conn[m] = 0
    /\ m \in Migrators => manifest # "none"
    /\ Rewrites(m, "mutating", baseline[m], "mutating")
    /\ UNCHANGED <<alive, owner, baseline, deferred, prey, conn, fileVars, bookVars>>

Replaces(m) ==
    /\ At(m, {"mutating"}) /\ conn[m] = 0 /\ file # 0
    /\ m \in Migrators => manifest = "before"
    /\ created < MaxFiles
    /\ file' = created + 1 /\ created' = created + 1
    /\ manifest' = IF m \in Migrators THEN "after" ELSE manifest
    /\ UNCHANGED <<procVars, frames, authority, retired>>

CompletesReplacement(m) ==
    /\ At(m, {"mutating"}) /\ conn[m] = 0
    /\ m \in Migrators => manifest = "after"
    /\ Rewrites(m, "held", baseline[m], "completed")
    /\ UNCHANGED <<alive, owner, baseline, deferred, prey, conn, fileVars, bookVars>>

RemovesManifest(m) ==
    /\ At(m, {"completed"}) /\ m \in Migrators
    /\ manifest = "after" /\ manifest' = "none"
    /\ UNCHANGED <<procVars, fileVars, authority, retired>>

\* The release retires the file that was replaced, makes the file now at the
\* path the authoritative one, and removes the intent.
Retires(m) ==
    /\ At(m, {"held", "completed"}) /\ conn[m] = 0
    /\ retired' = IF baseline[m] \notin {0, file} THEN retired \union {baseline[m]} ELSE retired
    /\ Go(m, "retired")
    /\ UNCHANGED <<alive, owner, torn, pen, baseline, deferred, prey, conn, fileVars, authority, manifest>>

Authorises(m) ==
    /\ At(m, {"retired"})
    /\ authority' = IF file # 0 THEN file ELSE authority
    /\ Go(m, "authorised")
    /\ UNCHANGED <<alive, owner, torn, pen, baseline, deferred, prey, conn, fileVars, retired, manifest>>

Releases(m) ==
    /\ At(m, {"authorised"})
    /\ Removes({m})
    /\ Go(m, "done")
    /\ UNCHANGED <<alive, torn, pen, deferred, prey, conn, fileVars, bookVars>>

----------------------------------------------------------------------------
\* An error before the database is open or held takes the owner file back; one
\* while the database is being replaced leaves it, and a migrator may resume.
Fails(p) ==
    /\ At(p, {"surveyed", "cleared", "published", "bound", "captured",
              "intending", "draining", "drained", "claiming"})
    /\ Removes({p})
    /\ Go(p, "done")
    /\ UNCHANGED <<alive, torn, pen, deferred, prey, conn, fileVars, bookVars>>

FailsReplacing(m) ==
    /\ At(m, {"mutating", "inheriting"}) /\ conn[m] = 0
    /\ Go(m, IF m \in Migrators /\ at[m] = "mutating" THEN "retained" ELSE "done")
    /\ UNCHANGED <<alive, owner, torn, pen, baseline, deferred, prey, conn, fileVars, bookVars>>

Resumes(m) ==
    /\ At(m, {"retained"})
    /\ manifest # "none"
    /\ Go(m, "mutating")
    /\ UNCHANGED <<alive, owner, torn, pen, baseline, deferred, prey, conn, fileVars, bookVars>>

Dies(p) ==
    /\ p \in alive /\ Cardinality(Procs \ alive) < MaxDeaths
    /\ alive' = alive \ {p}
    /\ conn' = [conn EXCEPT ![p] = 0]
    /\ Go(p, "dead")
    /\ deferred' = [deferred EXCEPT ![p] = {}]
    /\ pen' = [pen EXCEPT ![p] = NoPen]
    /\ UNCHANGED <<owner, torn, baseline, prey, fileVars, bookVars>>

OpenerStep(p) ==
    \/ SurveysLeases(p) \/ FindsNoIntent(p) \/ Publishes(p) \/ Binds(p) \/ Captures(p) \/ CreatesFile(p)
    \/ Opens(p) \/ Checkpoints(p) \/ Writes(p) \/ Closes(p)
    \/ \E x \in Procs : ReleasesDeferred(p, x)

MaintainerStep(m) ==
    \/ Intends(m) \/ ChecksOthers(m) \/ Drains(m) \/ Holds(m)
    \/ ChoosesPrey(m) \/ Claims(m) \/ Inherits(m)
    \/ OpensUnderIntent(m) \/ ClosesUnderIntent(m) \/ WritesManifest(m)
    \/ BeginsReplacement(m) \/ Replaces(m) \/ CompletesReplacement(m)
    \/ RemovesManifest(m) \/ Retires(m) \/ Authorises(m) \/ Releases(m)
    \/ FailsReplacing(m) \/ Resumes(m)

LifecycleNext ==
    \/ \E p \in Openers : OpenerStep(p)
    \/ \E m \in Maintainers : MaintainerStep(m)
    \/ \E p \in Procs : Written(p) \/ Fails(p) \/ Dies(p)
    \/ \E p, x \in Procs : ReclaimsIntent(p, x) \/ ReclaimsLease(p, x)

LifecycleSpec == LifecycleInit /\ [][LifecycleNext]_lifecycleVars

----------------------------------------------------------------------------
\* A claim that comes after the migration was finished names nothing any more:
\* it stops every opener, but it replaces nothing.
Replacing(m) ==
    owner[m] = "mutating" /\ (m \in Restorers \/ At(m, {"mutating", "writing", "retained"}))
Unresolved(m) == owner[m] = "mutating" /\ manifest # "none"

\* While a process holds the database or replaces it, nobody else has it open;
\* and nobody as usual until what it left is resolved, when it died replacing it.
ExclusiveMeansAlone ==
    \A m \in Maintainers, p \in Procs :
        /\ \/ Replacing(m)
           \/ Unresolved(m) /\ p \in Openers
           \/ owner[m] = "held" /\ m \in alive
        /\ p # m
        => conn[p] = 0

\* A file is never replaced while the log still holds what it does not: what a
\* killed process had committed is read by a later open, or blocks the change.
ReplacesComplete == file # 0 /\ file' # file => ~frames
NoCommitIsLost   == [][ReplacesComplete]_lifecycleVars
=============================================================================
