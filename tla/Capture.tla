------------------------------ MODULE Capture ------------------------------
(* How the turns of ONE native transcript become memory rows.              *)
(*                                                                         *)
(* Turns 1..len are what the provider has written so far; turn len is the  *)
(* trailing one, still open until an idle scan closes it.  Every process   *)
(* that may scan the file is a host: the daemon, and the `elepha consent   *)
(* grant` processes, which replay history for the root they approved.  The *)
(* database is shared, the scan mutex and the work queue are per process.  *)
(*                                                                         *)
(* Atomicity is the code's: one action is one SQLite transaction, or one   *)
(* stretch of JavaScript between two awaits.  A check made before an await *)
(* and repeated inside the writing transaction keeps both evaluations.     *)
EXTENDS Naturals, FiniteSets

CONSTANTS
    N,             \* bound: turns the provider may append
    Kind,          \* [1..N -> TurnKinds]: what the adapter says of a turn
    Quotes,        \* [1..N -> SUBSET 1..N]: MCP turns whose output it repeats
    Boundary,      \* pairs <<t, u>>: u opens a new segment when t is the last
                   \* turn of the segment before it (evaluateSegmentBoundary)
    Roots,         \* approvable project roots
    FileRoot,      \* root of the cwd in the file's metadata line
    TurnRoot,      \* [1..N -> Roots]: root of each turn's own cwd
    Daemon,        \* the daemon process
    Backfills,     \* CLI processes that replay history after a grant
    ReceiptRoom,   \* MCP receipts retained per native session (512 in the code)
    CanFill,       \* may a capture write reach the live-memory capacity?
    Long,          \* turns whose quote-back comparison may run out of its budget
    Derives,       \* are rollups or embeddings of the transcript written?
    CanTouch,      \* may the watcher report events without a new turn?
    Prunes,        \* roots whose directory may go, and the decision with it
    CanCrash       \* hosts that may stop between two steps

TurnKinds == {"work", "mcp", "bare", "drop"}
Turns     == 1..N
Hosts     == {Daemon} \cup Backfills
Decisions == {"pending", "approved", "denied"}
Vetoes    == {"incognito", "purged", "removed"}
Jobs      == {"prompt", "idle"}
Phases    == {"rest", "gate", "resume", "turns", "write"}

ASSUME CaptureAssumption ==
    /\ N \in Nat
    /\ Kind \in [Turns -> TurnKinds]
    /\ Quotes \in [Turns -> SUBSET Turns]
    /\ \A t \in Turns : \A m \in Quotes[t] : m < t /\ Kind[m] \in {"mcp", "bare"}
    /\ \A t \in Turns : Kind[t] # "work" => Quotes[t] = {}
    /\ Boundary \subseteq Turns \X Turns
    /\ FileRoot \in Roots
    /\ TurnRoot \in [Turns -> Roots]
    /\ Daemon \notin Backfills
    /\ ReceiptRoom \in Nat
    /\ CanFill \in BOOLEAN /\ Long \subseteq Turns
    /\ Derives \in BOOLEAN /\ CanTouch \in BOOLEAN
    /\ Prunes \subseteq Roots /\ CanCrash \subseteq Hosts

VARIABLES
    \* the provider's file
    len,        \* turns written
    \* the database
    consent,    \* memory_roots: decision that governs each root
    veto,       \* tombstones of this transcript: incognito_transcripts,
                \* purged_transcripts, live_memory_retention_removals
    session,    \* sessions: segment index -> its cursor and last turn (0: none)
    mem,        \* memories: <<segment index, turn>>
    receipts,   \* mcp_receipts: MCP turns whose output is retained
    deferred,   \* live_memory_capture_deferrals holds the note of a capture
                \* write of this transcript
    full,       \* a capture write now would reach capacity and cannot clean up
    \* the user's purge in progress: segments previewed, {} when none
    plan,
    \* the processes
    up,         \* the daemon runs
    queue,      \* per host: jobs queued, or armed as an idle timer
    phase,      \* per host: where its scan of this file is ("rest": no scan,
                \* the file is not in the host's `processing` set)
    closing,    \* per host: closeTrailingOnIdle
    at,         \* per host: last turn the scan has passed
    end,        \* per host: last turn its parse will emit
    cut,        \* per host: segment decision taken before the summarizer
    \* history, written only
    refused     \* turns a scan has passed over without a record of them

db     == <<consent, veto, session, mem, receipts, deferred, full>>
scan   == <<phase, closing, at, end, cut>>
vars   == <<len, db, plan, up, queue, scan, refused>>

----------------------------------------------------------------------------
Stored(t)   == \E s \in DOMAIN session : <<s, t>> \in mem
Matches(t)  == Quotes[t] \cap receipts # {}
Earlier(t)  == \E m \in receipts : m < t

IsLast(f, s) == s \in DOMAIN f /\ \A q \in DOMAIN f : q <= s

\* advanceSessionCursor: the row's cursor moves, its trailing state does not.
Advanced(f, s, t) == [f EXCEPT ![s] = [cursor |-> t, trail |-> f[s].trail]]

\* upsertSession: the latest segment, or a fresh segment 0.
Upserted == IF DOMAIN session = {}
            THEN [s \in {0} |-> [cursor |-> 0, trail |-> 0]]
            ELSE session

\* Mutant of CutBefore: judges by the cursor, which unrecorded turns move too.
CutBeforeByCursor(t) == \E s \in DOMAIN session :
                    IsLast(session, s) /\ <<session[s].cursor, t>> \in Boundary

\* Did `evaluateSegmentBoundary` on the latest row ask for a new segment?
CutBefore(t) == \E s \in DOMAIN session :
                    IsLast(session, s) /\ <<session[s].trail, t>> \in Boundary

\* recordIncognitoTranscript: a tombstone, and the evidence goes; memory stays.
GoIncognito ==
    /\ veto' = veto \cup {"incognito"}
    /\ receipts' = {}
    /\ UNCHANGED <<consent, session, mem, full>>

Enqueue(h, jobs) == queue' = [queue EXCEPT ![h] = @ \cup jobs]

\* The scan of host h leaves the file, its locals with it:
\* `finally { processing.delete(real) }`.
Leave(h) ==
    /\ phase' = [phase EXCEPT ![h] = "rest"]
    /\ closing' = [closing EXCEPT ![h] = FALSE]
    /\ at' = [at EXCEPT ![h] = 0]
    /\ end' = [end EXCEPT ![h] = 0]
    /\ cut' = [cut EXCEPT ![h] = FALSE]

\* The loop goes on to the next turn of the same parse.
Pass(h) ==
    /\ at' = [at EXCEPT ![h] = @ + 1]
    /\ phase' = [phase EXCEPT ![h] = "turns"]
    /\ cut' = [cut EXCEPT ![h] = FALSE]
    /\ UNCHANGED <<closing, end>>

PassRefused(h) ==
    /\ Pass(h)
    /\ refused' = refused \cup {at[h] + 1}

----------------------------------------------------------------------------
Init ==
    /\ len = 0
    /\ consent \in [Roots -> Decisions]
    /\ veto = {} /\ session = [s \in {} |-> {}] /\ mem = {} /\ receipts = {}
    /\ deferred = FALSE /\ full = FALSE
    /\ plan = {}
    /\ up = TRUE
    /\ queue = [h \in Hosts |-> {}]
    /\ phase = [h \in Hosts |-> "rest"]
    /\ closing = [h \in Hosts |-> FALSE]
    /\ at = [h \in Hosts |-> 0]
    /\ end = [h \in Hosts |-> 0]
    /\ cut = [h \in Hosts |-> FALSE]
    /\ refused = {}

\* The provider completes a prompt and starts the next turn; a running daemon
\* gets the watch event: a scan now, an idle scan once the file is quiet.
Append ==
    /\ len < N
    /\ len' = len + 1
    /\ IF up THEN Enqueue(Daemon, Jobs) ELSE UNCHANGED queue
    /\ UNCHANGED <<db, plan, up, scan, refused>>

\* A write that completes no turn raises the same event.
Touch ==
    /\ CanTouch /\ up /\ len > 0
    /\ Enqueue(Daemon, Jobs)
    /\ UNCHANGED <<len, db, plan, up, scan, refused>>

\* `consent grant`: the decision, then a replay of the files under that root.
Grant(r, b) ==
    /\ consent[r] # "approved" /\ phase[b] = "rest" /\ queue[b] = {}
    /\ consent' = [consent EXCEPT ![r] = "approved"]
    /\ IF r = FileRoot THEN Enqueue(b, {"idle"}) ELSE UNCHANGED queue
    /\ UNCHANGED <<len, veto, session, mem, receipts, deferred, full, plan, up,
                   scan, refused>>

\* `consent revoke` and `consent deny`.
Deny(r) ==
    /\ consent[r] # "denied"
    /\ consent' = [consent EXCEPT ![r] = "denied"]
    /\ UNCHANGED <<len, veto, session, mem, receipts, deferred, full, plan, up,
                   queue, scan, refused>>

\* `consent prune` drops the decision of a root whose directory is gone.
Prune(r) ==
    /\ r \in Prunes /\ consent[r] # "pending"
    /\ consent' = [consent EXCEPT ![r] = "pending"]
    /\ UNCHANGED <<len, veto, session, mem, receipts, deferred, full, plan, up,
                   queue, scan, refused>>

\* Other chats fill the store, or a cleanup or a purge of theirs frees it.
CapacityChanges ==
    /\ CanFill
    /\ full' = ~full
    /\ UNCHANGED <<len, consent, veto, session, mem, receipts, deferred, plan,
                   up, queue, scan, refused>>

----------------------------------------------------------------------------
\* Mutant of Begin: a job refused by the mutex is dropped.
BeginOnce(h, job) ==
    /\ job \in queue[h]
    /\ queue' = [queue EXCEPT ![h] = @ \ {job}]
    /\ IF phase[h] = "rest"
       THEN /\ phase' = [phase EXCEPT ![h] = "gate"]
            /\ closing' = [closing EXCEPT ![h] = (job = "idle")]
            /\ UNCHANGED <<at, end, cut>>
       ELSE UNCHANGED scan
    /\ UNCHANGED <<len, db, plan, up, refused>>

\* A job runs.  A file already being scanned by this process is not scanned
\* twice: the job becomes an idle scan for later.
Begin(h, job) ==
    /\ job \in queue[h]
    /\ IF phase[h] = "rest"
       THEN /\ queue' = [queue EXCEPT ![h] = @ \ {job}]
            /\ phase' = [phase EXCEPT ![h] = "gate"]
            /\ closing' = [closing EXCEPT ![h] = (job = "idle")]
            /\ UNCHANGED <<at, end, cut>>
       ELSE /\ queue' = [queue EXCEPT ![h] = (@ \ {job}) \cup {"idle"}]
            /\ UNCHANGED scan
    /\ UNCHANGED <<len, db, plan, up, refused>>

\* The consent gate of the file, before any of its text is read.  Only the
\* live scan turns a denial into a permanent veto; a replay just leaves.
Gate(h) ==
    /\ phase[h] = "gate"
    /\ \/ /\ consent[FileRoot] = "denied" /\ h = Daemon
          /\ GoIncognito /\ Leave(h) /\ UNCHANGED deferred
       \/ /\ consent[FileRoot] = "denied" => h # Daemon
          /\ consent[FileRoot] # "approved" \/ veto # {}
          /\ Leave(h) /\ UNCHANGED db
       \/ /\ consent[FileRoot] = "approved" /\ veto = {}
          /\ phase' = [phase EXCEPT ![h] = "resume"]
          /\ UNCHANGED <<closing, at, end, cut, db>>
    /\ UNCHANGED <<len, plan, up, queue, refused>>

\* The parse starts: the cursor of the latest segment, the file as it is now.
\* Without closeTrailingOnIdle the trailing turn is not emitted.
Resume(h) ==
    /\ phase[h] = "resume"
    /\ \E s \in DOMAIN Upserted :
          IsLast(Upserted, s) /\ at' = [at EXCEPT ![h] = Upserted[s].cursor]
    /\ end' = [end EXCEPT ![h] = IF closing[h] \/ len = 0 THEN len ELSE len - 1]
    /\ phase' = [phase EXCEPT ![h] = "turns"]
    /\ UNCHANGED <<len, db, plan, up, queue, closing, cut, refused>>

Finish(h) ==
    /\ phase[h] = "turns" /\ at[h] >= end[h]
    /\ Leave(h)
    /\ UNCHANGED <<len, db, plan, up, queue, refused>>

AtTurn(h, t) == phase[h] = "turns" /\ at[h] < end[h] /\ t = at[h] + 1

\* A turn from a denied cwd vetoes the whole transcript and ends the scan.
TurnDenied(h, t) ==
    /\ AtTurn(h, t)
    /\ consent[TurnRoot[t]] = "denied"
    /\ GoIncognito /\ Leave(h)
    /\ UNCHANGED <<len, deferred, plan, up, queue, refused>>

\* A turn from a cwd nobody decided about is passed over.
TurnPending(h, t) ==
    /\ AtTurn(h, t)
    /\ consent[TurnRoot[t]] = "pending"
    /\ PassRefused(h)
    /\ UNCHANGED <<len, db, plan, up, queue>>

\* recordIncognitoIfWriteBlocked finds a tombstone inside the transaction: a
\* retention removal blocks silently, the other two end the scan.
WriteBlocked(h) ==
    /\ IF "removed" \in veto
       THEN Pass(h) /\ UNCHANGED <<consent, veto, session, mem, receipts, full>>
       ELSE veto # {} /\ GoIncognito /\ Leave(h)
    /\ UNCHANGED <<len, plan, up, queue, refused>>

\* Mutant of Defer: the gap is recorded and the loop goes on.
DeferAndPass(h) ==
    /\ full
    /\ deferred' = TRUE
    /\ Pass(h)
    /\ UNCHANGED <<len, consent, veto, session, mem, receipts, full, plan, up,
                   queue, refused>>

\* The write would reach capacity: it is rolled back, the gap is recorded, and
\* the error ends the scan before any later turn can move the cursor.
Defer(h) ==
    /\ full
    /\ deferred' = TRUE
    /\ Leave(h)
    /\ UNCHANGED <<len, consent, veto, session, mem, receipts, full, plan, up,
                   queue, refused>>

\* canRetainMcpReceipt: what an MCP turn was given is retained whole or not at
\* all, and nothing is evicted for it.
ReceiptsFit(t) == Kind[t] = "drop" \/ t \in receipts \/ Cardinality(receipts) < ReceiptRoom

\* Mutants of RecordDropped: the receipt is lost, as in a transaction of its own
\* that fails; and at its limit the oldest receipt makes room.
RecordDroppedLosing(h, t) ==
    /\ AtTurn(h, t)
    /\ Kind[t] \in {"mcp", "drop"} /\ consent[TurnRoot[t]] = "approved"
    /\ veto = {} /\ ReceiptsFit(t)
    /\ \E s \in DOMAIN Upserted :
          /\ IsLast(Upserted, s)
          /\ session' = Advanced(Upserted, s, t)
    /\ deferred' = FALSE
    /\ Pass(h)
    /\ UNCHANGED <<len, consent, veto, mem, receipts, full, plan, up, queue, refused>>

\* recordDroppedTurn: no memory row, but the cursor moves past the turn, in
\* one transaction with the receipts of what an MCP turn was given.
RecordDropped(h, t) ==
    /\ AtTurn(h, t)
    /\ Kind[t] \in {"mcp", "drop"} /\ consent[TurnRoot[t]] = "approved"
    /\ veto = {} /\ ReceiptsFit(t)
    /\ receipts' = IF Kind[t] = "mcp" THEN receipts \cup {t} ELSE receipts
    /\ \E s \in DOMAIN Upserted :
          /\ IsLast(Upserted, s)
          /\ session' = Advanced(Upserted, s, t)
    /\ deferred' = FALSE
    /\ Pass(h)
    /\ UNCHANGED <<len, consent, veto, mem, full, plan, up, queue, refused>>

\* An MCP turn without receipts, or past the receipt limits, is rolled back
\* and passed over; the scan goes on.
RefuseDropped(h, t) ==
    /\ AtTurn(h, t)
    /\ consent[TurnRoot[t]] = "approved"
    /\ \/ Kind[t] = "bare"
       \/ Kind[t] = "mcp" /\ veto = {} /\ ~ReceiptsFit(t)
    /\ PassRefused(h)
    /\ UNCHANGED <<len, db, plan, up, queue>>

DroppedBlocked(h, t) ==
    /\ AtTurn(h, t)
    /\ Kind[t] \in {"mcp", "drop"} /\ consent[TurnRoot[t]] = "approved"
    /\ WriteBlocked(h)
    /\ deferred' = FALSE

DroppedDeferred(h, t) ==
    /\ AtTurn(h, t)
    /\ Kind[t] \in {"mcp", "drop"} /\ consent[TurnRoot[t]] = "approved"
    /\ veto = {} /\ ReceiptsFit(t)
    /\ Defer(h)

----------------------------------------------------------------------------
\* persistTurn of an ordinary turn whose cwd is approved.
AtWork(h, t) == AtTurn(h, t) /\ Kind[t] = "work" /\ consent[TurnRoot[t]] = "approved"

\* The comparison with earlier MCP output did not finish: refused, the scan
\* goes on.
QuoteIncomplete(h, t) ==
    /\ AtWork(h, t)
    /\ t \in Long /\ Earlier(t)
    /\ PassRefused(h)
    /\ UNCHANGED <<len, db, plan, up, queue>>

\* recordQuoteBackTurn: no memory, but an existing segment's cursor moves.
QuoteMatch(h, t) ==
    /\ AtWork(h, t)
    /\ Matches(t) /\ veto = {}
    /\ IF DOMAIN session = {}
       THEN UNCHANGED session
       ELSE \E s \in DOMAIN session :
              IsLast(session, s) /\ session' = Advanced(session, s, t)
    /\ Pass(h)
    /\ UNCHANGED <<len, consent, veto, mem, receipts, deferred, full, plan, up,
                   queue, refused>>

\* The same transaction finds a tombstone.
QuoteBlocked(h, t) ==
    /\ AtWork(h, t)
    /\ Matches(t)
    /\ WriteBlocked(h)
    /\ UNCHANGED deferred

\* The turn is in some segment already: no summary is bought for it.
AlreadyStored(h, t) ==
    /\ AtWork(h, t)
    /\ ~Matches(t) /\ Stored(t)
    /\ Pass(h)
    /\ UNCHANGED <<len, db, plan, up, queue, refused>>

\* The segment decision, from the latest row, before the summarizer's await.
Decide(h, t) ==
    /\ AtWork(h, t)
    /\ ~Matches(t) /\ ~Stored(t)
    /\ cut' = [cut EXCEPT ![h] = CutBefore(t)]
    /\ phase' = [phase EXCEPT ![h] = "write"]
    /\ UNCHANGED <<len, db, plan, up, queue, closing, at, end, refused>>

AtWrite(h, t) == phase[h] = "write" /\ t = at[h] + 1

\* recordIngestedTurn: everything is asked again inside the transaction.
WriteVetoed(h, t) ==
    /\ AtWrite(h, t)
    /\ IF "removed" \notin veto /\ consent[TurnRoot[t]] = "denied"
       THEN GoIncognito /\ Leave(h) /\ UNCHANGED <<len, plan, up, queue, refused>>
       ELSE WriteBlocked(h)
    /\ deferred' = FALSE

WritePending(h, t) ==
    /\ AtWrite(h, t)
    /\ veto = {} /\ consent[TurnRoot[t]] = "pending"
    /\ PassRefused(h)
    /\ deferred' = FALSE
    /\ UNCHANGED <<len, consent, veto, session, mem, receipts, full, plan, up, queue>>

\* Here an unfinished comparison throws, and the scan ends.
WriteIncomplete(h, t) ==
    /\ AtWrite(h, t)
    /\ veto = {} /\ consent[TurnRoot[t]] = "approved"
    /\ t \in Long /\ Earlier(t)
    /\ Leave(h)
    /\ UNCHANGED <<len, db, plan, up, queue, refused>>

\* Another process recorded the quoted output, or the turn itself, meanwhile.
WriteNothing(h, t) ==
    /\ AtWrite(h, t)
    /\ veto = {} /\ consent[TurnRoot[t]] = "approved"
    /\ Matches(t) \/ Stored(t)
    /\ deferred' = FALSE
    /\ Pass(h)
    /\ UNCHANGED <<len, consent, veto, session, mem, receipts, full, plan, up,
                   queue, refused>>

\* Mutants of CanWrite: a check made before the await is not made again.
CanWriteTwice(h, t) ==
    /\ AtWrite(h, t)
    /\ veto = {} /\ consent[TurnRoot[t]] = "approved"
    /\ ~Matches(t)

CanWriteUnasked(h, t) ==
    /\ AtWrite(h, t)
    /\ veto = {}
    /\ ~Matches(t) /\ ~Stored(t)

CanWrite(h, t) ==
    /\ AtWrite(h, t)
    /\ veto = {} /\ consent[TurnRoot[t]] = "approved"
    /\ ~Matches(t) /\ ~Stored(t)

WriteDeferred(h, t) == CanWrite(h, t) /\ Defer(h)

\* The turn becomes a row of the latest segment, or of the one after it when
\* the decision taken before the await said so; cursor and trailing state move
\* in the same transaction.
Write(h, t) ==
    /\ CanWrite(h, t)
    /\ ~full
    /\ \E s \in DOMAIN Upserted :
          /\ IsLast(Upserted, s)
          /\ LET home == IF cut[h] THEN s + 1 ELSE s IN
             /\ mem' = mem \cup {<<home, t>>}
             /\ session' = [q \in DOMAIN Upserted \cup {home} |->
                              IF q = home THEN [cursor |-> t, trail |-> t]
                              ELSE Upserted[q]]
    /\ deferred' = FALSE
    /\ Pass(h)
    /\ UNCHANGED <<len, consent, veto, receipts, full, plan, up, queue, refused>>

Turn(h, t) ==
    \/ TurnDenied(h, t) \/ TurnPending(h, t)
    \/ RecordDropped(h, t) \/ RefuseDropped(h, t)
    \/ DroppedBlocked(h, t) \/ DroppedDeferred(h, t)
    \/ QuoteIncomplete(h, t) \/ QuoteMatch(h, t) \/ QuoteBlocked(h, t)
    \/ AlreadyStored(h, t) \/ Decide(h, t)
    \/ WriteVetoed(h, t) \/ WritePending(h, t) \/ WriteIncomplete(h, t)
    \/ WriteNothing(h, t) \/ WriteDeferred(h, t) \/ Write(h, t)

----------------------------------------------------------------------------
\* `elepha purge` previews segments, asks, and only then pauses capture and
\* deletes: the plan is older than what it is applied to.  The pause is a stop
\* and a restart of the daemon; a replay by another process is not paused, nor
\* is a daemon that does not answer.
PurgePreview ==
    /\ plan = {}
    /\ \E segs \in (SUBSET DOMAIN session) \ {{}} : plan' = segs
    /\ UNCHANGED <<len, db, up, queue, scan, refused>>

PurgeDeclined ==
    /\ plan # {}
    /\ plan' = {}
    /\ UNCHANGED <<len, db, up, queue, scan, refused>>

\* Mutant of PurgeApply: the sessions go, their memories stay.
PurgeSessionsOnly ==
    /\ plan # {}
    /\ veto' = veto \cup {"purged"}
    /\ receipts' = {}
    /\ session' = [s \in DOMAIN session \ plan |-> session[s]]
    /\ plan' = {}
    /\ UNCHANGED <<len, consent, mem, deferred, full, up, queue, scan, refused>>

\* applyPurgePlan: the segments still present go with all they hold, and the
\* whole native transcript is frozen.
PurgeApply ==
    /\ plan # {}
    /\ LET gone == plan \cap DOMAIN session IN
       IF gone = {} THEN UNCHANGED <<session, mem, receipts, veto>>
       ELSE /\ veto' = veto \cup {"purged"}
            /\ receipts' = {}
            /\ mem' = {p \in mem : p[1] \notin gone}
            /\ session' = [s \in DOMAIN session \ gone |-> session[s]]
    /\ plan' = {}
    /\ UNCHANGED <<len, consent, deferred, full, up, queue, scan, refused>>

\* A cleanup another chat's write triggered removes this one whole: every
\* segment, no receipt, and the note of a deferral.
RetentionRemoves ==
    /\ CanFill
    /\ DOMAIN session # {}
    /\ \A p \in mem : consent[TurnRoot[p[2]]] # "pending"
    /\ veto' = veto \cup {"removed"}
    /\ session' = [s \in {} |-> {}]
    /\ mem' = {}
    /\ deferred' = FALSE
    /\ UNCHANGED <<len, consent, receipts, full, plan, up, queue, scan, refused>>

\* A rollup or an embedding of this transcript is written under the same
\* policy (runSessionLiveMemoryWrite), which clears the transcript's note.
DerivedWrite ==
    /\ Derives /\ DOMAIN session # {} /\ ~full
    /\ deferred' = FALSE
    /\ UNCHANGED <<len, consent, veto, session, mem, receipts, full, plan, up,
                   queue, scan, refused>>

\* A process stops; its queue, timers and scan are gone, the database stays.
Crash(h) ==
    /\ h \in CanCrash
    /\ IF h = Daemon THEN up /\ up' = FALSE
       ELSE (queue[h] # {} \/ phase[h] # "rest") /\ UNCHANGED up
    /\ queue' = [queue EXCEPT ![h] = {}]
    /\ Leave(h)
    /\ UNCHANGED <<len, db, plan, refused>>

\* start(): the startup sweep scans every file and closes its trailing turn.
Restart ==
    /\ ~up
    /\ up' = TRUE
    /\ Enqueue(Daemon, IF len = 0 THEN {} ELSE {"idle"})
    /\ UNCHANGED <<len, db, plan, scan, refused>>

----------------------------------------------------------------------------
ScanStep(h) == Gate(h) \/ Resume(h) \/ Finish(h) \/ \E t \in Turns : Turn(h, t)

Next ==
    \/ Append \/ Touch
    \/ \E r \in Roots : Deny(r) \/ Prune(r) \/ \E b \in Backfills : Grant(r, b)
    \/ CapacityChanges
    \/ \E h \in Hosts : ScanStep(h) \/ Crash(h) \/ \E job \in Jobs : Begin(h, job)
    \/ PurgePreview \/ PurgeDeclined \/ PurgeApply \/ RetentionRemoves
    \/ DerivedWrite
    \/ Restart

Spec == Init /\ [][Next]_vars

\* A queued job runs, a scan that can go on goes on, and the service manager
\* restarts the daemon.  Nothing makes the provider write, the user decide or
\* the store empty.
Fairness ==
    /\ WF_vars(Restart)
    /\ \A h \in Hosts : WF_vars(ScanStep(h))
    /\ \A h \in Hosts, job \in Jobs : WF_vars(Begin(h, job))

FairSpec == Spec /\ Fairness

----------------------------------------------------------------------------
Row == [cursor : 0..N, trail : 0..N]

DbTypeOK ==
    /\ consent \in [Roots -> Decisions]
    /\ veto \subseteq Vetoes
    /\ DOMAIN session \subseteq Nat
    /\ session \in [DOMAIN session -> Row]
    /\ mem \subseteq (DOMAIN session) \X Turns
    /\ receipts \subseteq Turns
    /\ deferred \in BOOLEAN /\ full \in BOOLEAN

ScanTypeOK ==
    /\ phase \in [Hosts -> Phases]
    /\ closing \in [Hosts -> BOOLEAN] /\ cut \in [Hosts -> BOOLEAN]
    /\ at \in [Hosts -> 0..N] /\ end \in [Hosts -> 0..N]
    /\ \A h \in Hosts : phase[h] = "write" => at[h] < end[h]

TypeOK ==
    /\ DbTypeOK
    /\ ScanTypeOK
    /\ len \in 0..N
    /\ plan \subseteq Nat
    /\ up \in BOOLEAN
    /\ queue \in [Hosts -> SUBSET Jobs]
    /\ refused \subseteq Turns

\* What the store or its evidence says about turn t.
Covered(t) == Stored(t) \/ Kind[t] = "drop" \/ t \in receipts \/ Matches(t) \/ t \in refused

\* The cursor never runs ahead of the evidence: while nothing was forgotten on
\* purpose, every turn at or before a segment's cursor is stored, was a
\* quote-back with its receipt on file, or was refused in so many words; no
\* crash, deferral, other process or rolled-back write loses one silently.
NothingLostBehindCursor ==
    veto = {} => \A s \in DOMAIN session : \A t \in 1..session[s].cursor : Covered(t)

\* A turn lives in one segment only, whoever scans the file and wherever a
\* segment is cut meanwhile (hasMemoryForNativeTurn inside the write).
OneHomePerTurn ==
    \A p \in mem, q \in mem : p[2] = q[2] => p = q

\* Elepha's own output does not come back as memory: a stored turn repeats an
\* MCP result only if that result's turn was refused its receipt.
NoSelfIngest ==
    veto = {} => \A p \in mem : Quotes[p[2]] \subseteq refused

\* With one process, segments cover the transcript in order, and two turns
\* stored one after the other share a segment exactly when no boundary
\* separates them.
SegmentsFollowBoundaries ==
    \A p \in mem, q \in mem :
        p[2] < q[2] =>
          /\ p[1] <= q[1]
          /\ (\A r \in mem : ~(p[2] < r[2] /\ r[2] < q[2])) =>
                (p[1] = q[1] <=> <<p[2], q[2]>> \notin Boundary) \/ veto # {}

\* What the user is promised (CapturePromise), kept by every interleaving of
\* scans, replays, decisions, purges and cleanups.
Promise == INSTANCE CapturePromise WITH
               remembered <- {p[2] : p \in mem},
               frozen     <- veto # {}

KeepsPromise == Promise!Spec

Approved == \A r \in Roots : consent[r] = "approved"
Settled(t) == Covered(t) \/ veto # {} \/ ~Approved

\* A daemon that stays up eventually settles every turn of an approved
\* transcript that nobody touches any more.
EventuallyCaptured ==
    <>[]up => \A t \in Turns : (t <= len) ~> Settled(t)

\* docs/storage.md: a deferred chat is named, "and capture retries
\* automatically": once the store has room for good, the note goes.
DeferralRetried ==
    <>[](up /\ ~full) => (deferred ~> ~deferred \/ veto # {} \/ ~Approved)
=============================================================================
