------------------------------- MODULE Archive -------------------------------
(* `elepha restore` and `elepha import` (cli/commands/restore.ts, import.ts). *)
(* A restore replaces the database by a backup but keeps what was decided     *)
(* since: consent, purges, evictions and incognito chats.  An import merges   *)
(* the chats of an export.  Both show a plan first; while the user reads it,  *)
(* the database may change.                                                   *)
EXTENDS Naturals

CONSTANTS Chats, MaxChanges \* bound: decisions made by other processes

VARIABLES
    active,    \* the database: its chats, their durable turns and the decisions
    backup,    \* the backup or export given by the user
    staged,    \* the private copy a restore prepares
    snapshot,  \* the database before the replacement
    preview,   \* the plan the user confirms
    at,        \* the step of the restore or import; "idle" when none runs
    shut,      \* an owner died, or gave up, while it replaced the database
    changes    \* decisions made so far

archiveVars == <<active, backup, staged, snapshot, preview, at, shut, changes>>

\* vetoed: purged and incognito chats; evicted: chats whose durable turns were
\* given up for good; chats: those with summaries; turns: with durable turns.
Databases ==
    {d \in [granted : SUBSET Chats, vetoed : SUBSET Chats, evicted : SUBSET Chats,
            chats : SUBSET Chats, turns : SUBSET Chats, whole : {TRUE}] :
        /\ d.turns \subseteq d.chats /\ d.evicted \subseteq d.chats
        /\ d.turns \intersect d.evicted = {} /\ d.chats \intersect d.vetoed = {}}

NoPlan == [controls |-> <<>>, new |-> {}, existing |-> {}]

ArchiveInit ==
    /\ active \in {d \in Databases : d.granted = Chats}
    /\ backup \in {d \in Databases : d.granted = {}}
    /\ staged = backup /\ snapshot = active
    /\ preview = NoPlan
    /\ at = "idle" /\ shut = FALSE /\ changes = 0

----------------------------------------------------------------------------
Controls(d) == <<d.granted, d.vetoed, d.evicted>>
Locked      == at \in {"rechecked", "overlaid", "snapshotted", "replacing", "installed", "failed"}

\* Decisions of other processes, which cannot open a locked database.
Changes(d) ==
    /\ ~Locked /\ ~shut /\ changes < MaxChanges
    /\ d # active /\ active' = d /\ changes' = changes + 1
    /\ UNCHANGED <<backup, staged, snapshot, preview, at, shut>>

Decides ==
    \E c \in Chats :
        \/ Changes([active EXCEPT !.granted = IF c \in @ THEN @ \ {c} ELSE @ \union {c}])
        \/ Changes([active EXCEPT !.vetoed = @ \union {c}, !.chats = @ \ {c},
                                  !.turns = @ \ {c}, !.evicted = @ \ {c}])
        \/ c \in active.chats /\ Changes([active EXCEPT !.evicted = @ \union {c}, !.turns = @ \ {c}])
        \/ c \in active.granted \ active.vetoed
             /\ Changes([active EXCEPT !.chats = @ \union {c},
                                       !.turns = IF c \in active.evicted THEN @ ELSE @ \union {c}])

----------------------------------------------------------------------------
\* The backup is validated and copied aside; what it must keep is read.
PreviewsRestore ==
    /\ at = "idle" /\ ~shut
    /\ staged' = backup
    /\ preview' = [NoPlan EXCEPT !.controls = Controls(active)]
    /\ at' = "previewed"
    /\ UNCHANGED <<active, backup, snapshot, shut, changes>>

SomeControls == TRUE

SameControls == preview.controls = Controls(active)

\* Under the exclusive lease everything the preview showed is read again.
RechecksRestore ==
    /\ at = "previewed"
    /\ SameControls /\ staged.whole
    /\ at' = "rechecked"
    /\ UNCHANGED <<active, backup, staged, snapshot, preview, shut, changes>>

RefusesRestore ==
    /\ at \in {"previewed", "rechecked", "overlaid", "snapshotted"}
    /\ at' = "idle"
    /\ UNCHANGED <<active, backup, staged, snapshot, preview, shut, changes>>

\* The decisions in the copy become those of the database, what they veto goes,
\* and a chat the database gave up for good keeps an empty anchor.
Overlaid(d) ==
    LET vetoed  == d.vetoed \union preview.controls[2]
        evicted == d.evicted \union preview.controls[3]
    IN [d EXCEPT !.granted = preview.controls[1],
                 !.vetoed = vetoed, !.evicted = evicted,
                 !.chats = @ \union preview.controls[3],
                 !.turns = @ \ (vetoed \union evicted)]

OverlaysControls ==
    /\ at = "rechecked"
    /\ staged' = Overlaid(staged)
    /\ at' = "overlaid"
    /\ UNCHANGED <<active, backup, snapshot, preview, shut, changes>>

TakesSnapshot ==
    /\ at = "overlaid"
    /\ snapshot' = active
    /\ at' = "snapshotted"
    /\ UNCHANGED <<active, backup, staged, preview, shut, changes>>

\* The copy lies in a directory for temporary files while the user decides.
DamagesStage ==
    /\ at \in {"previewed", "snapshotted"} /\ staged.whole
    /\ staged' = [staged EXCEPT !.whole = FALSE]
    /\ UNCHANGED <<active, backup, snapshot, preview, at, shut, changes>>

BeginsRestore ==
    /\ at = "snapshotted"
    /\ at' = "replacing"
    /\ UNCHANGED <<active, backup, staged, snapshot, preview, shut, changes>>

Installs ==
    /\ at = "replacing"
    /\ active' = staged /\ at' = "installed"
    /\ UNCHANGED <<backup, staged, snapshot, preview, shut, changes>>

InstalledAnyhow == TRUE

Installed == active.whole /\ active.granted = preview.controls[1]

CompletesRestore ==
    /\ at = "installed" /\ Installed
    /\ at' = "idle"
    /\ UNCHANGED <<active, backup, staged, snapshot, preview, shut, changes>>

\* Any failure after the replacement began takes the snapshot back.
FailsInstalling ==
    /\ at \in {"replacing", "installed"}
    /\ at' = "failed"
    /\ UNCHANGED <<active, backup, staged, snapshot, preview, shut, changes>>

RollsBack ==
    /\ at = "failed"
    /\ active' = snapshot /\ at' = "idle"
    /\ UNCHANGED <<backup, staged, snapshot, preview, shut, changes>>

\* If that fails too, or the process dies, the lease keeps everybody out.
StaysShut ==
    /\ at \in {"replacing", "installed", "failed"}
    /\ at' = "idle" /\ shut' = TRUE
    /\ UNCHANGED <<active, backup, staged, snapshot, preview, changes>>

----------------------------------------------------------------------------
\* An import takes the chats that are granted and not vetoed; the durable turns
\* of an export are not merged.
PlansImport ==
    LET authorised == (backup.chats \intersect active.granted) \ active.vetoed IN
    /\ at = "idle" /\ ~shut
    /\ preview' = [NoPlan EXCEPT !.new = authorised \ active.chats,
                                 !.existing = authorised \intersect active.chats]
    /\ at' = "planned"
    /\ UNCHANGED <<active, backup, staged, snapshot, shut, changes>>

AuthorisedAtPreview == TRUE

StillAuthorised ==
    (preview.new \union preview.existing) \subseteq active.granted \ active.vetoed

\* The transaction that merges looks again at every chat of the plan; a new
\* chat that exists by now violates the key and takes everything back.
Merges ==
    /\ at = "planned"
    /\ StillAuthorised
    /\ preview.new \intersect active.chats = {}
    /\ active' = [active EXCEPT !.chats = @ \union preview.new]
    /\ at' = "idle"
    /\ UNCHANGED <<backup, staged, snapshot, preview, shut, changes>>

\* With --overwrite the summaries of an existing chat are replaced, and its
\* durable turns go with them.
Overwrites ==
    /\ at = "planned"
    /\ StillAuthorised
    /\ preview.new \intersect active.chats = {} /\ preview.existing \subseteq active.chats
    /\ active' = [active EXCEPT !.chats = @ \union preview.new, !.turns = @ \ preview.existing]
    /\ at' = "idle"
    /\ UNCHANGED <<backup, staged, snapshot, preview, shut, changes>>

RefusesImport ==
    /\ at = "planned" /\ at' = "idle"
    /\ UNCHANGED <<active, backup, staged, snapshot, preview, shut, changes>>

ArchiveNext ==
    \/ Decides \/ PreviewsRestore \/ RechecksRestore \/ RefusesRestore
    \/ OverlaysControls \/ TakesSnapshot \/ DamagesStage \/ BeginsRestore
    \/ Installs \/ CompletesRestore \/ FailsInstalling \/ RollsBack \/ StaysShut
    \/ PlansImport \/ Merges \/ Overwrites \/ RefusesImport

ArchiveSpec == ArchiveInit /\ [][ArchiveNext]_archiveVars

----------------------------------------------------------------------------
\* Whatever a restore or an import does, no purge, incognito chat or eviction
\* is taken back and no consent changed by it; only the rollback of a failed one
\* drops what the backup itself had brought.
DecisionsSurvive ==
    [][changes' = changes /\ at # "failed" =>
          /\ active.vetoed \subseteq active'.vetoed
          /\ active.evicted \subseteq active'.evicted
          /\ active.granted = active'.granted]_archiveVars

\* Outside a replacement the database is whole, or nobody can open it; and what
\* was vetoed or given up has no durable turns in it.
OpenMeansWhole ==
    ~Locked /\ ~shut =>
        active.whole /\ active.turns \intersect (active.vetoed \union active.evicted) = {}

\* A chat that an import adds is granted and not vetoed when it is added.
ImportsOnlyGranted ==
    [][at = "planned" =>
          active'.chats \ active.chats \subseteq active.granted \ active.vetoed
          \/ changes' # changes]_archiveVars
=============================================================================
