----------------------------- MODULE Retention -----------------------------
(* The fixed capacity of live memory: every write is measured, and one      *)
(* that would reach the capacity first removes whole old chats.             *)
(*                                                                          *)
(* A cleanup is four transactions: the probe that is rolled back, the plan  *)
(* (a read snapshot), the backup, and the decisive write.  Within a process *)
(* they follow each other without an await; other processes write between   *)
(* them.  Before the probe a turn has waited for its summary, without any   *)
(* transaction.                                                             *)
EXTENDS Integers, FiniteSets, FiniteSetsExt

CONSTANTS
    Chats,       \* native sessions
    Start,       \* [Chats -> Nat]: source start; the older the smaller
    Writers,     \* processes that write: the daemon, and a consent grant that
                 \* captures what its root held back
    Served,      \* [Writers -> SUBSET Chats]: the chats each may write
    Capacity,    \* 5 GB in the code
    Target,      \* 4.75 GB: what a cleanup leaves, the write included
    Warning,     \* 4 GB: below it a user cannot have been warned
    Sizes,       \* bytes a write may add
    MaxUnsettled \* bound: chats unsettled at a time

ASSUME RetentionAssumption ==
    /\ IsFiniteSet(Chats)
    /\ Start \in [Chats -> Nat]
    /\ Served \in [Writers -> SUBSET Chats]
    /\ Capacity \in Nat /\ Target \in Nat /\ Warning \in Nat
    /\ 0 < Warning /\ Warning <= Target /\ Target < Capacity
    /\ Sizes \subseteq Nat \ {0}

Kinds == {"turn", "derived"}
Rest  == [pc |-> "rest"]

VARIABLES
    rows,       \* bytes each chat holds: its turns, and the rollups, vectors and
                \* copies derived from them
    recent,     \* chats ingested within the active window
    unsettled,  \* chats with an open turn, an incomplete durable copy, an
                \* uncertain identity or a pending consent
    removed,    \* live_memory_retention_removals
    purged,     \* purged_transcripts
    wait,       \* retry_after_ms lies in the future
    job         \* per writer: the write it has in hand

vars == <<rows, recent, unsettled, removed, purged, wait, job>>

----------------------------------------------------------------------------
Measured(f) == MapThenSumSet(LAMBDA c : f[c], Chats)
Frozen      == removed \cup purged

\* live_memory_usage.  Row triggers charge it in the transaction of every change,
\* so what a transaction reads there is what the rows of that moment hold.
used == Measured(rows)

Grown(f, c, n) == [f EXCEPT ![c] = @ + n]

\* Mutant of Adds: what froze the chat during the await goes unnoticed.
AddsUnasked(j) ==
    IF j.kind = "derived" /\ rows[j.chat] = 0 THEN 0 ELSE j.size

\* What the write of job j would add now.  Its own guards decide: a frozen chat
\* takes no turn, and a session that is gone has nothing derived.
Adds(j) ==
    IF IF j.kind = "turn" THEN j.chat \in Frozen ELSE rows[j.chat] = 0
    THEN 0 ELSE j.size

Eligible(c, trigger) == c \notin recent /\ c \notin unsettled /\ c # trigger

\* The chats stored, oldest first as far as c.
UpTo(c) == {d \in Chats : rows[d] # 0 /\ (Start[d] < Start[c] \/ d = c)}

\* The smallest prefix of the eligible chats that frees what is required: the
\* chats whose older eligible ones do not free it already.  A write that was
\* over the capacity when it was probed added its whole size then.
Freed(S) == MapThenSumSet(LAMBDA c : rows[c], S)
Plan(j)  ==
    LET required == used + j.size - Target
        fit(c)   == {d \in UpTo(c) : Eligible(d, j.chat)}
    IN  {c \in Chats : /\ rows[c] # 0 /\ Eligible(c, j.chat)
                       /\ Freed(fit(c) \ {c}) < required}
Reaches(j) == Freed(Plan(j)) >= used + j.size - Target

Leave(w) == job' = [job EXCEPT ![w] = Rest]

Stored(f, j) == Grown(f, j.chat, Adds(j))

\* The write is committed.
Commit(w, f) ==
    LET j == job[w] IN
    /\ rows' = Stored(f, j)
    /\ recent' = IF Adds(j) > 0 /\ j.kind = "turn" THEN recent \cup {j.chat} ELSE recent
    /\ Leave(w)

\* deferral(): the write is given up (Capture has the note of it); a failed
\* attempt also puts off the next one.
Deferred(w, attempted) ==
    /\ wait' = (wait \/ attempted)
    /\ Leave(w)
    /\ UNCHANGED <<rows, recent, unsettled, removed, purged>>

----------------------------------------------------------------------------
Init ==
    /\ rows = [c \in Chats |-> 0]
    /\ recent = {} /\ unsettled = {} /\ removed = {} /\ purged = {}
    /\ wait = FALSE
    /\ job = [w \in Writers |-> Rest]

\* A turn has been read and is on its way to the summarizer, or a rollup or a
\* vector on its way from the model.
Starts(w, c, kind, n) ==
    /\ job[w].pc = "rest" /\ c \in Served[w] \ Frozen
    /\ kind = "derived" => rows[c] # 0
    /\ job' = [job EXCEPT ![w] = [pc |-> "write", chat |-> c, kind |-> kind, size |-> n]]
    /\ UNCHANGED <<rows, recent, unsettled, removed, purged, wait>>

\* run: the write fits.
Writes(w) ==
    /\ job[w].pc = "write"
    /\ used + Adds(job[w]) < Capacity
    /\ Commit(w, rows)
    /\ UNCHANGED <<unsettled, removed, purged, wait>>

\* run: it does not, and is rolled back.
Probes(w) ==
    /\ job[w].pc = "write"
    /\ used + Adds(job[w]) >= Capacity
    /\ job' = [job EXCEPT ![w] = [@ EXCEPT !.pc = IF used < Warning THEN "unwarned" ELSE "over"]]
    /\ UNCHANGED <<rows, recent, unsettled, removed, purged, wait>>

\* cleanupAndWrite, the refusals that attempt nothing: no warning can have
\* preceded, or an attempt failed a short while ago.
Declines(w) ==
    /\ job[w].pc = "unwarned" \/ (job[w].pc = "over" /\ wait)
    /\ Deferred(w, FALSE)

\* plan: one read snapshot.
Plans(w) ==
    /\ job[w].pc = "over" /\ ~wait
    /\ Reaches(job[w])
    /\ LET units == Plan(job[w]) IN
       job' = [job EXCEPT ![w] =
                 [pc |-> "backup", chat |-> @.chat, kind |-> @.kind, size |-> @.size,
                  units |-> [c \in units |-> rows[c]]]]
    /\ UNCHANGED <<rows, recent, unsettled, removed, purged, wait>>

CannotPlan(w) ==
    /\ job[w].pc = "over" /\ ~wait
    /\ ~Reaches(job[w])
    /\ Deferred(w, TRUE)

\* A copy of the whole database is written; it must hold every planned row.
BacksUp(w) ==
    /\ job[w].pc = "backup"
    /\ \A c \in DOMAIN job[w].units : rows[c] = job[w].units[c]
    /\ job' = [job EXCEPT ![w] = [@ EXCEPT !.pc = "decide"]]
    /\ UNCHANGED <<rows, recent, unsettled, removed, purged, wait>>

\* The copy does not, or cannot be written.
BackupFails(w) == job[w].pc = "backup" /\ Deferred(w, TRUE)

----------------------------------------------------------------------------
\* Mutant of Unchanged: only the rows are compared again.
UnchangedRows(j) == \A c \in DOMAIN j.units : rows[c] = j.units[c]

\* The decisive transaction describes each planned chat again.
Unchanged(j) ==
    \A c \in DOMAIN j.units : rows[c] = j.units[c] /\ Eligible(c, j.chat)

\* The rows without the planned chats, and what the transaction leaves in all.
Emptied(j) == [c \in Chats |-> IF c \in DOMAIN j.units THEN 0 ELSE rows[c]]
Left(j)    == Measured(Stored(Emptied(j), j))

\* Mutant of StillOver: what was planned is carried out.
OverAsPlanned(j) == TRUE

\* The write still finds no room: others may have freed some since the plan.
StillOver(j) == used + Adds(j) >= Capacity

\* Mutant of Low: any total below the capacity will do.
LowAnyhow(total) == TRUE

Low(total) == total <= Target

\* Somebody freed enough meanwhile: the write commits, and nothing goes.
WritesAfterAll(w) ==
    /\ job[w].pc = "decide" /\ Unchanged(job[w])
    /\ ~StillOver(job[w])
    /\ Commit(w, rows)
    /\ UNCHANGED <<unsettled, removed, purged, wait>>

\* The write and the removal of every planned chat, whole, in one transaction.
Removes(w) ==
    LET j == job[w] IN
    /\ j.pc = "decide" /\ Unchanged(j)
    /\ StillOver(j) /\ Low(Left(j))
    /\ Commit(w, Emptied(j))
    /\ removed' = removed \cup DOMAIN j.units
    /\ wait' = FALSE
    /\ UNCHANGED <<unsettled, purged>>

\* A planned chat changed, or others wrote so much that the target is missed.
DecisionFails(w) ==
    LET j == job[w] IN
    /\ j.pc = "decide"
    /\ ~Unchanged(j) \/ (StillOver(j) /\ ~Low(Left(j)))
    /\ Deferred(w, TRUE)

\* The process stops: what is not committed is gone.
Crashes(w) ==
    /\ job[w].pc # "rest"
    /\ Leave(w)
    /\ UNCHANGED <<rows, recent, unsettled, removed, purged, wait>>

----------------------------------------------------------------------------
\* A write outside the policy (a backfill, an import): the capacity guard and
\* assertLiveMemoryBulkWrite let it grow a chat only below the capacity.
BulkWrites(c, n) ==
    /\ rows[c] # 0
    /\ used + n < Capacity
    /\ rows' = Grown(rows, c, n)
    /\ UNCHANGED <<recent, unsettled, removed, purged, wait, job>>

Purges(c) ==
    /\ rows[c] # 0
    /\ rows' = [rows EXCEPT ![c] = 0]
    /\ purged' = purged \cup {c}
    /\ recent' = recent \ {c} /\ unsettled' = unsettled \ {c}
    /\ UNCHANGED <<removed, wait, job>>

\* A day without a captured turn of c; no turn waits that long for a summary.
Ages(c) ==
    /\ c \in recent
    /\ \A w \in Writers : job[w].pc # "rest" => job[w].chat # c
    /\ recent' = recent \ {c}
    /\ UNCHANGED <<rows, unsettled, removed, purged, wait, job>>

\* A staged turn, an incomplete copy, a pending root appears or goes.
Unsettles(c) ==
    /\ c \notin unsettled /\ rows[c] # 0 /\ Cardinality(unsettled) < MaxUnsettled
    /\ unsettled' = unsettled \cup {c}
    /\ UNCHANGED <<rows, recent, removed, purged, wait, job>>

Settles(c) ==
    /\ c \in unsettled
    /\ unsettled' = unsettled \ {c}
    /\ UNCHANGED <<rows, recent, removed, purged, wait, job>>

\* Fifteen minutes since the failed attempt.
Waited ==
    /\ wait
    /\ wait' = FALSE
    /\ UNCHANGED <<rows, recent, unsettled, removed, purged, job>>

Write(w) ==
    \/ Writes(w) \/ Probes(w) \/ Declines(w)
    \/ Plans(w) \/ CannotPlan(w) \/ BacksUp(w) \/ BackupFails(w)
    \/ WritesAfterAll(w) \/ Removes(w) \/ DecisionFails(w)

Next ==
    \/ \E w \in Writers :
          \/ \E c \in Chats, kind \in Kinds, n \in Sizes : Starts(w, c, kind, n)
          \/ Write(w) \/ Crashes(w)
    \/ \E c \in Chats :
          \/ \E n \in Sizes : BulkWrites(c, n)
          \/ Purges(c) \/ Ages(c) \/ Unsettles(c) \/ Settles(c)
    \/ Waited

Spec == Init /\ [][Next]_vars

----------------------------------------------------------------------------
JobTypeOK(j) ==
    /\ j.pc \in {"rest", "write", "unwarned", "over", "backup", "decide"}
    /\ j.pc # "rest" => j.chat \in Chats /\ j.kind \in Kinds /\ j.size \in Sizes
    /\ j.pc \in {"backup", "decide"} =>
         DOMAIN j.units \subseteq Chats /\ j.units \in [DOMAIN j.units -> Nat]

TypeOK ==
    /\ rows \in [Chats -> Nat]
    /\ recent \subseteq Chats /\ unsettled \subseteq Chats
    /\ removed \subseteq Chats /\ purged \subseteq Chats
    /\ wait \in BOOLEAN
    /\ DOMAIN job = Writers /\ \A w \in Writers : JobTypeOK(job[w])

\* docs/storage.md: elepha keeps its whole live memory "under a fixed
\* capacity", however writes, cleanups and bulk operations of several processes
\* fall between each other's steps.
UnderCapacity == used < Capacity

\* A chat that was removed or purged holds nothing ever after, although writes
\* of it may have been waiting for their summaries, and a cleanup they started.
FrozenStaysEmpty == \A c \in Frozen : rows[c] = 0

IdleBackedUp(c) ==
    /\ c \notin recent /\ c \notin unsettled
    /\ \E w \in Writers :
          job[w].pc = "decide" /\ c \in DOMAIN job[w].units /\ job[w].units[c] = rows[c]

\* Whatever happened between its plan and its last transaction, a cleanup
\* removes only chats that are settled and idle at that moment, and only rows
\* that its verified backup holds.
RemovesOnlyIdleBackedUp ==
    [][ \A c \in removed' \ removed : IdleBackedUp(c) ]_vars

\* docs/storage.md: "the removal and the new turn commit together or not at all",
\* and chats go only "when a capture would bring usage to 5 GB".  Whatever was freed,
\* purged or written since the plan, a step that removes chats stores something of a
\* chat that stays, and that would not have fitted beside them.
Kept == [c \in Chats |-> IF c \in removed' \ removed THEN rows[c] ELSE rows'[c]]

RemovesOnlyForAWrite ==
    [][ removed' # removed =>
          /\ \E c \in Chats \ (removed' \cup purged') : rows'[c] > rows[c]
          /\ Measured(Kept) >= Capacity ]_vars

\* docs/storage.md: it "never removes [...] a chat that is still active".
ActiveChatKept ==
    [][ \A c \in removed' \ removed :
          \A w \in Writers : job[w].pc = "write" /\ job[w].kind = "turn" => job[w].chat # c
      ]_vars
=============================================================================
