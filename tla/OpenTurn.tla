-------------------------------- MODULE OpenTurn --------------------------------
(* The turn whose provider attempt failed and that is still open                *)
(* (storage/open-turn-store.ts, daemon/index.ts, adapters/base.ts).  A scan      *)
(* observes it, waits until it has been quiet, has it summarised and stages the  *)
(* summary; readers are served it until the transcript changes or the turn is    *)
(* closed.  Nothing serialises the scans of two processes, or a file event and   *)
(* the awaits of a scan, but two epochs in the row and the identity of the file. *)
EXTENDS Naturals, FiniteSets

CONSTANTS
    MaxTurns,   \* bound
    Asks,       \* turns that ask Elepha,
    Quotes,     \* turns that quote what it answered
    MaxChanges, \* bound: changes to the transcript
    MaxTroubles,\* bound: decisions, failed scans and restarts
    MaxDue,     \* bound: scans of the daemon to come
    MaxEpochs   \* bound: epochs, when scans collide

VARIABLES
    source,   \* the transcript: [turn, text, rev, failed, covered] of its last turn
    graced,   \* the last failure is old enough
    consent,  \* "approved", "pending", "denied"
    barred,   \* incognito, purged or retention-removed
    stored,   \* turns with a memory
    cursor,   \* the last turn behind the session's cursor
    row,      \* open_turns
    epoch,    \* openTurnValidationEpochs of the daemon
    news,     \* a change whose file event has not reached the daemon
    due,      \* scans of the daemon to come: in its work queue, or by the idle timer
    timer,    \* timer of an open turn: the revision whose grace it waits for
    scan,     \* the scan of each process
    told,     \* the transcript at the last validation that began
    troubles

sourceVars   == <<source, graced>>
userVars     == <<consent, barred>>
storeVars    == <<stored, cursor, row>>
daemonVars   == <<news, due, timer>>
openTurnVars == <<sourceVars, userVars, storeVars, daemonVars, epoch, scan, told, troubles>>

\* The daemon, and the replay a grant starts.
Procs   == {"daemon", "replay"}
Plain(t) == t \notin Asks \union Quotes
NoRow   == [turn |-> 0, text |-> 0, rev |-> 0, covered |-> TRUE, summary |-> 0,
            epoch |-> 0, validated |-> 0]
NoScan  == [at |-> "none", rev |-> 0, epoch |-> 0, next |-> 0,
            read |-> [turn |-> 0, text |-> 0, failed |-> FALSE, covered |-> TRUE]]

\* What the bound counts: grants, scans that failed, and the rest.
NoTroubles == [grants |-> 0, failures |-> 0, others |-> 0]
Troubled(what) ==
    /\ troubles.grants + troubles.failures + troubles.others < MaxTroubles
    /\ troubles' = [troubles EXCEPT ![what] = @ + 1]

\* A chat whose earlier turns are captured.
OpenTurnInit ==
    /\ \E t \in 1..MaxTurns :
        /\ source = [turn |-> t, text |-> 0, rev |-> 0, failed |-> FALSE, covered |-> TRUE]
        /\ stored = {n \in 1..(t - 1) : Plain(n)} /\ cursor = t - 1
    /\ graced = FALSE /\ row = NoRow
    /\ consent \in {"approved", "pending"} /\ barred = FALSE
    /\ epoch = 0
    /\ news = FALSE /\ due = 0 /\ timer = 0
    /\ scan = [p \in Procs |-> NoScan]
    /\ told = [text |-> 0, rev |-> 0] /\ troubles = NoTroubles

----------------------------------------------------------------------------
\* The provider.  Whatever it appends is a file event.

Changes(next, grace) ==
    /\ source.text < MaxChanges
    /\ source' = [next EXCEPT !.text = @ + 1]
    /\ graced' = grace /\ news' = TRUE
    /\ UNCHANGED <<userVars, storeVars, due, timer, epoch, scan, told, troubles>>

\* An attempt fails, with or without all the receipts of the answers it was given.
Fails(covered) ==
    /\ ~source.failed
    /\ Changes([source EXCEPT !.failed = TRUE, !.covered = covered, !.rev = @ + 1], FALSE)

Retries ==
    /\ source.failed
    /\ Changes([source EXCEPT !.failed = FALSE, !.covered = TRUE, !.rev = @ + 1], FALSE)

\* The turn ends, and the next one begins.
Ends ==
    /\ source.turn < MaxTurns
    /\ Changes([turn |-> source.turn + 1, text |-> source.text, rev |-> source.rev + 1,
                failed |-> FALSE, covered |-> TRUE], FALSE)

\* Other text of the same size and modification time.
Rewrites == source.failed /\ Changes(source, graced)

BecomesQuiet ==
    /\ source.failed /\ ~graced /\ graced' = TRUE
    /\ UNCHANGED <<source, userVars, storeVars, daemonVars, epoch, scan, told, troubles>>

----------------------------------------------------------------------------
\* Validation.  A process invalidates what the row says before it reads the file
\* again: the row is served only while the two epochs are the same.

\* A replay knows no epoch before its own, and no scan but its own.
Known(p)  == IF p = "daemon" THEN epoch ELSE 0
Bumped(p) == 1 + IF row.epoch > Known(p) THEN row.epoch ELSE Known(p)
IsCurrent(p) == p = "daemon" => scan[p].epoch = epoch

More(n) == due' = IF due + n > MaxDue THEN MaxDue ELSE due + n

BeginsValidation(p) ==
    /\ epoch' = IF p = "daemon" THEN Bumped(p) ELSE epoch
    /\ told' = [text |-> source.text, rev |-> source.rev]

Invalidated(p) == IF row = NoRow THEN NoRow ELSE [row EXCEPT !.epoch = Bumped(p)]

\* A scan is queued, and the idle timer armed for another.
HandlesEvent ==
    /\ news /\ news' = FALSE
    /\ BeginsValidation("daemon") /\ row' = Invalidated("daemon")
    /\ More(2) /\ timer' = 0
    /\ UNCHANGED <<sourceVars, userVars, stored, cursor, scan, troubles>>

OpenTurnTimerFires ==
    /\ timer # 0 /\ timer' = 0 /\ More(1)
    /\ graced \/ source.rev # timer
    /\ UNCHANGED <<sourceVars, userVars, storeVars, news, epoch, scan, told, troubles>>

----------------------------------------------------------------------------
\* A scan.

Goes(p, step) == scan' = [scan EXCEPT ![p].at = step]
Done(p) == scan' = [scan EXCEPT ![p] = NoScan]

\* The file is opened; its size and times at this moment stand for it.
Opens(p) ==
    /\ \/ p = "daemon" /\ scan[p].at = "none" /\ due > 0 /\ due' = due - 1
       \/ scan[p].at = "started" /\ UNCHANGED due
    /\ scan' = [scan EXCEPT ![p] = [NoScan EXCEPT !.at = "opened", !.rev = source.rev]]
    /\ UNCHANGED <<sourceVars, userVars, storeVars, news, timer, epoch, told, troubles>>

\* A row of another snapshot goes.
Begins(p) ==
    /\ scan[p].at = "opened"
    /\ BeginsValidation(p)
    /\ row' = IF row.rev = scan[p].rev THEN Invalidated(p) ELSE NoRow
    /\ scan' = [scan EXCEPT ![p].at = "begun", ![p].epoch = Bumped(p)]
    /\ UNCHANGED <<sourceVars, userVars, stored, cursor, daemonVars, troubles>>

CollidesForGood ==
    /\ due > 0 /\ due' = due - 1 /\ epoch < MaxEpochs
    /\ scan["daemon"].at \notin {"none", "opened"}
    /\ BeginsValidation("daemon") /\ row' = Invalidated("daemon")
    /\ UNCHANGED <<sourceVars, userVars, stored, cursor, news, timer, scan, troubles>>

\* A second scan of the file gives way to the first, which no longer counts, and
\* arms the idle timer, which may be one of those that were due.
Collides ==
    /\ due > 0 /\ due' \in 1..due /\ epoch < MaxEpochs
    /\ scan["daemon"].at \notin {"none", "opened"}
    /\ BeginsValidation("daemon") /\ row' = Invalidated("daemon")
    /\ UNCHANGED <<sourceVars, userVars, stored, cursor, news, timer, scan, troubles>>

Bars ==
    /\ barred' = TRUE /\ row' = NoRow /\ UNCHANGED <<consent, stored, cursor>>

\* Without consent nothing is read; a denial is made good by a tombstone, except in
\* a replay, which reads approved roots only.
Refuses(p) ==
    /\ scan[p].at = "begun" /\ (consent # "approved" \/ barred)
    /\ IF consent = "denied" /\ p = "daemon" THEN Bars ELSE UNCHANGED <<userVars, storeVars>>
    /\ Done(p)
    /\ UNCHANGED <<sourceVars, daemonVars, epoch, told, troubles>>

Parses(p) ==
    /\ scan[p].at = "begun" /\ consent = "approved" /\ ~barred
    /\ scan' = [scan EXCEPT ![p].at = "parsed", ![p].next = cursor + 1,
                            ![p].read = [turn |-> source.turn, text |-> source.text,
                                         failed |-> source.failed, covered |-> source.covered]]
    /\ UNCHANGED <<sourceVars, userVars, storeVars, daemonVars, epoch, told, troubles>>

\* A closed turn is recorded, if the write itself still may; the row goes with it.
\* A turn that is dropped moves the cursor, even when it had been read before.
Records(t) ==
    \/ /\ Plain(t) /\ t \in stored /\ UNCHANGED storeVars
    \/ /\ Plain(t) /\ t \notin stored
       /\ stored' = stored \union {t} /\ cursor' = t /\ row' = NoRow
    \/ /\ ~Plain(t)
       /\ cursor' = t /\ row' = NoRow /\ UNCHANGED stored

MayWrite == consent = "approved" /\ ~barred

Stores(p) ==
    LET t == scan[p].next IN
    /\ scan[p].at = "parsed" /\ t < scan[p].read.turn
    /\ \/ /\ MayWrite /\ Records(t) /\ UNCHANGED userVars
          /\ scan' = [scan EXCEPT ![p].next = t + 1]
       \/ /\ ~MayWrite /\ consent = "denied" /\ Bars /\ Done(p)
       \/ /\ ~MayWrite /\ consent # "denied" /\ UNCHANGED <<userVars, storeVars>>
          /\ scan' = [scan EXCEPT ![p].next = t + 1]
    /\ UNCHANGED <<sourceVars, daemonVars, epoch, told, troubles>>

----------------------------------------------------------------------------
\* The open turn, when the closed ones are done.

SameRevision(s) == row.rev = s.rev
SameTurn(s) == row.rev = s.rev /\ row.text = s.read.text

\* Replaces the row of the same validation, and keeps a summary of the same text.
Observed(s) ==
    [turn |-> s.read.turn, text |-> s.read.text, rev |-> s.rev, covered |-> s.read.covered,
     summary |-> IF SameTurn(s) THEN row.summary ELSE 0,
     epoch |-> s.epoch, validated |-> s.epoch]

Observable(p) ==
    /\ IsCurrent(p)
    /\ MayWrite
    /\ scan[p].rev = source.rev
    /\ scan[p].read.turn \notin Quotes
    /\ row = NoRow \/ row.epoch = scan[p].epoch

\* What the row, as observed, lets the scan do.
Observes(p) ==
    LET seen == Observed(scan[p])
        wanted == seen.covered /\ Plain(seen.turn) /\ seen.summary = 0
    IN /\ Observable(p)
       /\ row' = seen
       /\ IF wanted /\ graced THEN Goes(p, "summarizing") ELSE Done(p)
       /\ timer' = IF wanted /\ ~graced /\ p = "daemon" THEN seen.rev ELSE timer
       /\ UNCHANGED <<userVars, stored, cursor>>

LeavesOpen(p) ==
    /\ ~Observable(p)
    /\ IF IsCurrent(p) /\ consent = "denied" THEN Bars ELSE UNCHANGED <<userVars, storeVars>>
    /\ Done(p) /\ UNCHANGED timer

HandlesOpenTail(p) ==
    /\ scan[p].at = "parsed" /\ scan[p].next >= scan[p].read.turn /\ scan[p].read.failed
    /\ Observes(p) \/ LeavesOpen(p)
    /\ UNCHANGED <<sourceVars, news, due, epoch, told, troubles>>

HasNoOpenTail(p) ==
    /\ scan[p].at = "parsed" /\ scan[p].next >= scan[p].read.turn /\ ~scan[p].read.failed
    /\ Done(p)
    /\ UNCHANGED <<sourceVars, userVars, storeVars, daemonVars, epoch, told, troubles>>

\* After the summariser everything is asked again.
Stageable(s) ==
    /\ s.rev = source.rev /\ MayWrite
    /\ row # NoRow /\ SameTurn(s)
    /\ row.epoch = s.epoch /\ row.validated = s.epoch
    /\ row.covered /\ row.summary = 0

Stages(p) ==
    /\ scan[p].at = "summarizing"
    /\ row' = IF Stageable(scan[p]) THEN [row EXCEPT !.summary = scan[p].read.text] ELSE row
    /\ Done(p)
    /\ UNCHANGED <<sourceVars, userVars, stored, cursor, daemonVars, epoch, told, troubles>>

----------------------------------------------------------------------------
\* The rest of the world.

\* An unreadable file, an error of the database, a memory at its capacity.
ScanFails(p) ==
    /\ scan[p].at # "none" /\ Done(p) /\ Troubled("failures")
    /\ UNCHANGED <<sourceVars, userVars, storeVars, daemonVars, epoch, told>>

\* The startup sweep scans every file.
Restarts ==
    /\ Troubled("others")
    /\ epoch' = 0
    /\ scan' = [scan EXCEPT !["daemon"] = NoScan]
    /\ news' = FALSE /\ due' = 1 /\ timer' = 0
    /\ UNCHANGED <<sourceVars, userVars, storeVars, told>>

Decides(decision) ==
    /\ Troubled("others") /\ consent # decision /\ consent' = decision
    /\ UNCHANGED <<sourceVars, barred, storeVars, daemonVars, epoch, scan, told>>

\* A process of its own replays the transcripts of the root.
Grants ==
    /\ Troubled("grants") /\ consent # "approved" /\ consent' = "approved"
    /\ scan["replay"].at = "none"
    /\ scan' = [scan EXCEPT !["replay"].at = "started"]
    /\ UNCHANGED <<sourceVars, barred, storeVars, daemonVars, epoch, told>>

\* Incognito, a purge or the retention.
IsBarred ==
    /\ Troubled("others") /\ ~barred /\ Bars
    /\ UNCHANGED <<sourceVars, daemonVars, epoch, scan, told>>

ProviderSteps == Fails(TRUE) \/ Fails(FALSE) \/ Retries \/ Ends \/ Rewrites \/ BecomesQuiet
ScanSteps(p) ==
    \/ Opens(p) \/ Begins(p) \/ Refuses(p) \/ Parses(p) \/ Stores(p)
    \/ HandlesOpenTail(p) \/ HasNoOpenTail(p) \/ Stages(p) \/ ScanFails(p)
UserSteps == Decides("pending") \/ Decides("denied") \/ Grants \/ IsBarred

OpenTurnNext ==
    \/ ProviderSteps \/ UserSteps
    \/ HandlesEvent \/ OpenTurnTimerFires \/ Collides \/ Restarts
    \/ \E p \in Procs : ScanSteps(p)

OpenTurnSpec == OpenTurnInit /\ [][OpenTurnNext]_openTurnVars

----------------------------------------------------------------------------
\* Properties.

\* As session-read-model.ts:220 and session-reader.ts:594 select it.
Served == row.summary # 0 /\ row.epoch = row.validated

\* What is served of an open turn is a summary of the turn the row describes, not
\* one of an earlier text of it; the turn has not been closed or barred since; and
\* no change that a file event or a scan has noticed is hidden by it.  (A rewrite
\* that leaves size and times alone is noticed by one process at a time only.)
SnapshotIsOfTheTurn ==
    Served =>
        /\ row.summary = row.text /\ row.covered /\ Plain(row.turn)
        /\ row.turn \notin stored /\ ~barred
        /\ row.rev >= told.rev
        /\ troubles.grants = 0 => row.text >= told.text

\* A turn that failed, of a chat that may be captured, is served, or the daemon has
\* a reason to look at it again: no event, collision, grace or restart in between
\* makes it forget.  (A failed scan does, and so does a replay that takes the turn
\* over within its grace.)
FailedTurnIsNotForgotten ==
    /\ source.failed /\ source.covered /\ Plain(source.turn)
    /\ MayWrite /\ troubles.grants = 0 /\ troubles.failures = 0
    => \/ Served /\ row.text = source.text
       \/ news \/ due > 0 \/ timer # 0 \/ scan["daemon"].at # "none"
=============================================================================
