------------------------------- MODULE Rollup -------------------------------
(* How stored turns are folded into one mutable aggregate per session.     *)
(*                                                                         *)
(* A rollup worker reads the rows of a session, awaits the model once per  *)
(* batch, and writes under the watermark it read.  Three workers share the *)
(* table: the scan that has just stored turns, the daemon's idle sweep,    *)
(* and an `elepha rollup` process.  One action is one transaction or one   *)
(* stretch of JavaScript between two awaits; the check before each model   *)
(* call is in the same stretch as the read or the write before it, so it   *)
(* cannot fail inside one process and only saves a paid call across two.   *)
EXTENDS Naturals, FiniteSets, FiniteSetsExt

CONSTANTS
    Chats,        \* native transcripts
    N,            \* bound: turns stored in one segment
    Segments,     \* bound: segments of one transcript
    MaxFailures,  \* bound: model calls that fail, or are cut off by a lock
    Sweeps,       \* idle sweeps: the interval timer may start one more while
                  \* the one before still awaits the model
    CanPurge,     \* may sessions be purged, or removed by retention?
    CanUpgrade,   \* may a newer ROLLUP_VERSION be installed?
    CanCrash,     \* may processes stop between two steps?
    RunsCli       \* does anyone run `elepha rollup`?

Workers == {"scan", "cli"} \cup Sweeps
States  == {"live", "final"}
Formats == {"old", "new"}     \* of a stored rollup, and of each turn folded in

ASSUME RollupAssumption ==
    /\ Sweeps \cap {"scan", "cli"} = {}
    /\ N \in Nat \ {0} /\ Segments \in Nat \ {0} /\ MaxFailures \in Nat
    /\ {CanPurge, CanUpgrade, CanCrash, RunsCli} \subseteq BOOLEAN

VARIABLES
    \* the database
    sess,     \* sessions: id -> transcript, segment, and its memories 1..n
    roll,     \* session_rollups: id -> watermark, version, state, turns folded in
    frozen,   \* transcripts whose sessions were purged or removed
    \* the world
    quiet,    \* transcripts whose file has been idle for IDLE_CLOSE_MS
    fails,    \* model calls that failed so far
    upgraded, \* has the version bump happened?
    \* the processes
    up,       \* the daemon runs
    scan,     \* the scan: where it is, in which transcript, what it stored
    list,     \* per worker: <<id, transcript>> of the sessions it will visit
    job       \* per worker: the rollup in flight, Idle when none

db   == <<sess, roll, frozen>>
vars == <<db, quiet, fails, upgraded, up, scan, list, job>>

Idle   == [id |-> 0]
NoScan == [step |-> "rest"]

----------------------------------------------------------------------------
OfChat(c)  == {i \in DOMAIN sess : sess[i].chat = c}
\* findSession: the latest segment of a transcript.
IsLatest(c, i) == i \in OfChat(c) /\ \A j \in OfChat(c) : sess[j].seg <= sess[i].seg

\* `id INTEGER PRIMARY KEY`: SQLite takes the largest rowid in use plus one.
NewId == 1 + (IF DOMAIN sess = {} THEN 0 ELSE Max(DOMAIN sess))

\* listOpenSessions, and listSessionsForRollupRebuild.
Open(i) == i \notin DOMAIN roll \/ roll[i].state = "live"
Rebuild(i) == i \notin DOMAIN roll \/ roll[i].version = "old"

Listed(ids) == {<<i, sess[i].chat>> : i \in ids}

Put(f, i, v) == [j \in DOMAIN f \cup {i} |-> IF j = i THEN v ELSE f[j]]

\* Turn t of the segment stored under an id, folded in by today's code.
Folded(c, s, ts) == {<<c, s, t, "new">> : t \in ts}

Holds(w, id)  == job[w].id = id
Free(w)       == Holds(w, 0)
Drop(w)       == job' = [job EXCEPT ![w] = Idle]

\* Mutant of Begin: a rollup of an older version is merged onto.
BeginMerging(w, id, state) ==
    LET stored   == id \in DOMAIN roll
        mark     == IF stored THEN roll[id].through ELSE 0
    IN  IF mark >= sess[id].n
        THEN /\ roll' = [roll EXCEPT ![id].state = state]
             /\ UNCHANGED job
        ELSE /\ job' = [job EXCEPT ![w] =
                    [id |-> id, chat |-> sess[id].chat, seg |-> sess[id].seg,
                     state |-> state, expected |-> mark, last |-> sess[id].n,
                     carry |-> IF stored THEN roll[id].content ELSE {},
                     stale |-> FALSE]]
             /\ UNCHANGED roll

\* Mutant of Begin: nothing fresh, nothing to do.
BeginIdly(w, id, state) ==
    LET existing == id \in DOMAIN roll /\ roll[id].version # "old"
        mark     == IF existing THEN roll[id].through ELSE 0
    IN  IF mark >= sess[id].n
        THEN UNCHANGED <<roll, job>>
        ELSE /\ job' = [job EXCEPT ![w] =
                    [id |-> id, chat |-> sess[id].chat, seg |-> sess[id].seg,
                     state |-> state, expected |-> mark, last |-> sess[id].n,
                     carry |-> IF existing THEN roll[id].content ELSE {},
                     stale |-> id \in DOMAIN roll /\ ~existing]]
             /\ UNCHANGED roll

\* rollupSession up to its first await.  A rollup of an older version counts as
\* none; with nothing fresh only the state may change.
Begin(w, id, state) ==
    LET stored   == id \in DOMAIN roll
        stale    == stored /\ roll[id].version = "old"
        existing == stored /\ ~stale
        mark     == IF existing THEN roll[id].through ELSE 0
    IN  IF mark >= sess[id].n
        THEN /\ roll' = [roll EXCEPT ![id].state = state]
             /\ UNCHANGED job
        ELSE /\ job' = [job EXCEPT ![w] =
                    [id |-> id, chat |-> sess[id].chat, seg |-> sess[id].seg,
                     state |-> state, expected |-> mark, last |-> sess[id].n,
                     carry |-> IF existing THEN roll[id].content ELSE {},
                     stale |-> stale]]
             /\ UNCHANGED roll

\* RollupStore.write: unconditional when no watermark was read, and otherwise
\* only over the watermark that was.
Lands(j) == j.expected = 0 \/ (j.id \in DOMAIN roll /\ roll[j.id].through = j.expected)

----------------------------------------------------------------------------
Init ==
    /\ sess = [i \in {} |-> {}] /\ roll = [i \in {} |-> {}] /\ frozen = {}
    /\ quiet = {} /\ fails = 0 /\ upgraded = FALSE
    /\ up = TRUE
    /\ scan = NoScan
    /\ list = [w \in Workers |-> {}]
    /\ job = [w \in Workers |-> Idle]

\* The user goes on with a chat, or leaves it alone for half an hour.
Stirs(c) ==
    /\ c \in quiet
    /\ quiet' = quiet \ {c}
    /\ UNCHANGED <<db, fails, upgraded, up, scan, list, job>>

Rests(c) ==
    /\ c \notin quiet
    /\ quiet' = quiet \cup {c}
    /\ UNCHANGED <<db, fails, upgraded, up, scan, list, job>>

----------------------------------------------------------------------------
\* The scan (scanFile, persistTurn).  Between turns it is at rest, or in the
\* loop of one transcript with at least one turn stored.
AtLoop(c) == up /\ c \notin frozen /\ (scan.step = "rest" \/ (scan.step = "loop" /\ scan.chat = c))

Stored(c, id, row) ==
    /\ sess' = Put(sess, id, row)
    /\ scan' = [step |-> "mark", chat |-> c, id |-> id]
    /\ UNCHANGED <<roll, frozen, quiet, fails, upgraded, up, list, job>>

\* recordIngestedTurn: the next turn of the latest segment, or the first of all.
ScanStores(c) ==
    /\ AtLoop(c)
    /\ \/ OfChat(c) = {} /\ Stored(c, NewId, [chat |-> c, seg |-> 1, n |-> 1])
       \/ \E i \in OfChat(c) :
             /\ IsLatest(c, i) /\ sess[i].n < N
             /\ Stored(c, i, [sess[i] EXCEPT !.n = @ + 1])

\* The turn opens a segment: the segment it leaves is finalised first.
ScanCuts(c) ==
    /\ AtLoop(c)
    /\ \E i \in OfChat(c) :
          /\ IsLatest(c, i) /\ sess[i].seg < Segments
          /\ Begin("scan", i, "final")
    /\ scan' = [step |-> "cut", chat |-> c]
    /\ UNCHANGED <<sess, frozen, quiet, fails, upgraded, up, list>>

\* Whatever came of that rollup, the turn is stored in the new segment.
ScanOpens ==
    /\ scan.step = "cut" /\ Free("scan") /\ scan.chat \notin frozen
    /\ \E i \in OfChat(scan.chat) :
          /\ IsLatest(scan.chat, i)
          /\ Stored(scan.chat, NewId, [chat |-> scan.chat, seg |-> sess[i].seg + 1, n |-> 1])

\* A tombstone blocks the write.
ScanBlocked ==
    /\ scan.step = "cut" /\ Free("scan") /\ scan.chat \in frozen
    /\ scan' = NoScan
    /\ UNCHANGED <<db, quiet, fails, upgraded, up, list, job>>

\* markLive, a transaction of its own: a 'final' rollup wakes up.
ScanMarks ==
    /\ scan.step = "mark"
    /\ roll' = IF scan.id \in DOMAIN roll
               THEN [roll EXCEPT ![scan.id].state = "live"] ELSE roll
    /\ scan' = [step |-> "loop", chat |-> scan.chat]
    /\ UNCHANGED <<sess, frozen, quiet, fails, upgraded, up, list, job>>

\* After the loop the latest segment is refreshed.
ScanRefreshes ==
    /\ scan.step = "loop"
    /\ \E i \in OfChat(scan.chat) :
          IsLatest(scan.chat, i) /\ Begin("scan", i, "live")
    /\ scan' = [step |-> "roll", chat |-> scan.chat]
    /\ UNCHANGED <<sess, frozen, quiet, fails, upgraded, up, list>>

\* Or a later turn of the batch throws (a deferral, a read error), and the
\* refresh is skipped; or the chat is gone.
ScanLeaves ==
    /\ scan.step = "loop" \/ (scan.step = "roll" /\ Free("scan"))
    /\ scan' = NoScan
    /\ UNCHANGED <<db, quiet, fails, upgraded, up, list, job>>

----------------------------------------------------------------------------
\* sweepIdleSessions: every open session is listed, one after the other its
\* transcript is looked at, and the LATEST segment of that transcript closed.
SweepStarts(w) ==
    /\ up /\ list[w] = {} /\ Free(w)
    /\ list' = [list EXCEPT ![w] = Listed({i \in DOMAIN sess : Open(i)})]
    /\ UNCHANGED <<db, quiet, fails, upgraded, up, scan, job>>

SweepVisits(w, e) ==
    /\ e \in list[w] /\ Free(w)
    /\ list' = [list EXCEPT ![w] = @ \ {e}]
    /\ IF e[1] \in DOMAIN sess /\ e[2] \in quiet /\ OfChat(e[2]) # {}
       THEN \E i \in OfChat(e[2]) : IsLatest(e[2], i) /\ Begin(w, i, "final")
       ELSE UNCHANGED <<roll, job>>
    /\ UNCHANGED <<sess, frozen, quiet, fails, upgraded, up, scan>>

\* `elepha rollup [--all]`, and `--rebuild --apply`, which refuses to start
\* while the daemon is live.
CliStarts(rebuild) ==
    /\ RunsCli /\ list["cli"] = {} /\ Free("cli")
    /\ rebuild => ~up
    /\ list' = [list EXCEPT !["cli"] = Listed({i \in DOMAIN sess : IF rebuild THEN Rebuild(i) ELSE Open(i)})]
    /\ UNCHANGED <<db, quiet, fails, upgraded, up, scan, job>>

\* It rolls up the listed session itself; a chat in use only with --all.
CliVisits(e) ==
    /\ e \in list["cli"] /\ Free("cli")
    /\ list' = [list EXCEPT !["cli"] = @ \ {e}]
    /\ \/ /\ e[1] \in DOMAIN sess
          /\ Begin("cli", e[1], IF e[2] \in quiet THEN "final" ELSE "live")
       \/ /\ e[1] \notin DOMAIN sess \/ e[2] \notin quiet
          /\ UNCHANGED <<roll, job>>
    /\ UNCHANGED <<sess, frozen, quiet, fails, upgraded, up, scan>>

----------------------------------------------------------------------------
\* Mutant of Answered: the first batch takes the watermark of the last.
AnsweredForAll(w, b) ==
    LET j    == job[w]
        all  == j.carry \cup Folded(j.chat, j.seg, (j.expected + 1)..b)
        done == b = j.last
    IN  /\ j.id \in DOMAIN sess /\ Lands(j)
        /\ roll' = Put(roll, j.id,
              [through |-> j.last,
               version |-> IF j.stale /\ ~done THEN "old" ELSE "new",
               state   |-> IF done THEN j.state ELSE "live",
               content |-> all])
        /\ job' = [job EXCEPT ![w] =
              IF done THEN Idle ELSE [j EXCEPT !.expected = j.last, !.carry = all]]

\* The model answered for the turns up to b, and the answer is written: content
\* and watermark in one transaction.  Only the last batch takes the state, and
\* completes a rebuild.
Answered(w, b) ==
    LET j    == job[w]
        all  == j.carry \cup Folded(j.chat, j.seg, (j.expected + 1)..b)
        done == b = j.last
    IN  /\ j.id \in DOMAIN sess /\ Lands(j)
        /\ roll' = Put(roll, j.id,
              [through |-> b,
               version |-> IF j.stale /\ ~done THEN "old" ELSE "new",
               state   |-> IF done THEN j.state ELSE "live",
               content |-> all])
        /\ job' = [job EXCEPT ![w] =
              IF done THEN Idle ELSE [j EXCEPT !.expected = b, !.carry = all]]

Answers(w) ==
    /\ ~Free(w)
    /\ \E b \in (job[w].expected + 1)..job[w].last : Answered(w, b)
    /\ UNCHANGED <<sess, frozen, quiet, fails, upgraded, up, scan, list>>

\* The session is gone, or another writer moved the watermark: nothing is
\* written and the rest of the batches are not sent.
Refused(w) ==
    /\ ~Free(w)
    /\ job[w].id \notin DOMAIN sess \/ ~Lands(job[w])
    /\ Drop(w)
    /\ UNCHANGED <<db, quiet, fails, upgraded, up, scan, list>>

\* The provider fails, or the memory is locked meanwhile.
Fails(w) ==
    /\ ~Free(w) /\ fails < MaxFailures
    /\ fails' = fails + 1
    /\ Drop(w)
    /\ UNCHANGED <<db, quiet, upgraded, up, scan, list>>

----------------------------------------------------------------------------
\* applyPurgePlan of a chat, with the daemon paused, or the cleanup of an idle
\* chat by the daemon: rollups, memories and sessions go in one transaction.
\* Neither stops an `elepha rollup`.
Purge(c) ==
    /\ CanPurge /\ OfChat(c) # {}
    /\ up => c \in quiet
    /\ sess' = [i \in DOMAIN sess \ OfChat(c) |-> sess[i]]
    /\ roll' = [i \in DOMAIN roll \ OfChat(c) |-> roll[i]]
    /\ frozen' = frozen \cup {c}
    /\ UNCHANGED <<quiet, fails, upgraded, up, scan, list, job>>

DaemonStops ==
    /\ CanCrash /\ up
    /\ up' = FALSE
    /\ scan' = NoScan
    /\ list' = [w \in Workers |-> IF w = "cli" THEN list[w] ELSE {}]
    /\ job' = [w \in Workers |-> IF w = "cli" THEN job[w] ELSE Idle]
    /\ UNCHANGED <<db, quiet, fails, upgraded>>

DaemonStarts ==
    /\ ~up
    /\ up' = TRUE
    /\ UNCHANGED <<db, quiet, fails, upgraded, scan, list, job>>

CliStops ==
    /\ CanCrash /\ (list["cli"] # {} \/ ~Free("cli"))
    /\ list' = [list EXCEPT !["cli"] = {}]
    /\ Drop("cli")
    /\ UNCHANGED <<db, quiet, fails, upgraded, up, scan>>

\* A release with a new ROLLUP_VERSION, installed while nothing runs.
Upgrade ==
    /\ CanUpgrade /\ ~upgraded /\ ~up /\ list["cli"] = {} /\ Free("cli")
    /\ upgraded' = TRUE
    /\ roll' = [i \in DOMAIN roll |->
                  [roll[i] EXCEPT !.version = "old",
                     !.content = {<<x[1], x[2], x[3], "old">> : x \in @}]]
    /\ UNCHANGED <<sess, frozen, quiet, fails, up, scan, list, job>>

----------------------------------------------------------------------------
ScanStep(c) == ScanStores(c) \/ ScanCuts(c)
ScanGoesOn  == ScanOpens \/ ScanBlocked \/ ScanMarks \/ ScanRefreshes \/ ScanLeaves

Next ==
    \/ \E c \in Chats : Stirs(c) \/ Rests(c) \/ ScanStep(c) \/ Purge(c)
    \/ ScanGoesOn
    \/ \E w \in Sweeps : SweepStarts(w) \/ \E e \in list[w] : SweepVisits(w, e)
    \/ \E rebuild \in BOOLEAN : CliStarts(rebuild)
    \/ \E e \in list["cli"] : CliVisits(e)
    \/ \E w \in Workers : Answers(w) \/ Refused(w) \/ Fails(w)
    \/ DaemonStops \/ DaemonStarts \/ CliStops \/ Upgrade

Spec == Init /\ [][Next]_vars

\* The daemon is restarted, its sweep timer fires and its loop visits what it
\* listed, the provider answers, an open scan goes on.
Fairness ==
    /\ WF_vars(DaemonStarts) /\ WF_vars(ScanGoesOn)
    /\ \A w \in Sweeps : WF_vars(SweepStarts(w)) /\ WF_vars(\E e \in list[w] : SweepVisits(w, e))
    /\ \A w \in Workers : WF_vars(Answers(w)) /\ WF_vars(Refused(w))

FairSpec == Spec /\ Fairness

----------------------------------------------------------------------------
\* The watermark accounts for the content, exactly: whoever wrote last, after
\* failures, crashes, rebuilds and lost races, a rollup has folded in each turn
\* of its own segment up to its watermark, none twice, and no other turn.
ContentMatchesWatermark ==
    \A i \in DOMAIN roll :
        /\ {<<x[1], x[2], x[3]>> : x \in roll[i].content}
             = {<<sess[i].chat, sess[i].seg, t>> : t \in 1..roll[i].through}
        /\ Cardinality(roll[i].content) = roll[i].through
        /\ roll[i].through <= sess[i].n

\* A rollup of the current version holds nothing made by an older one, and an
\* interrupted rebuild never passes for a finished one.
CurrentIsRebuilt ==
    \A i \in DOMAIN roll :
        roll[i].version = "new" => \A x \in roll[i].content : x[4] = "new"

\* rollup-service.ts: "A new turn landed: any 'final' rollup for this session
\* is stale and must return to 'live'."
FinalIsComplete ==
    \A i \in DOMAIN roll :
        roll[i].state = "final" /\ scan.step # "mark" => roll[i].through = sess[i].n

\* docs/purge.md: purge "permanently removes selected sessions, turns, and
\* rollups".
PurgedStaysGone ==
    \A i \in DOMAIN roll : \A x \in roll[i].content : x[1] \notin frozen

\* daemon/index.ts: the sweep "closes sessions whose transcripts have gone
\* quiet", and not only a transcript's latest segment.
IdleSessionsClose ==
    \A c \in Chats : <>[](up /\ c \in quiet) =>
        \A s \in 1..Segments :
            []<>(\A i \in OfChat(c) : sess[i].seg = s => ~Open(i))

\* What does hold: of a chat nobody touches, the sweep closes the latest
\* segment, although the provider failed and the daemon crashed meanwhile.
LatestCloses ==
    \A c \in Chats : <>[](up /\ c \in quiet) =>
        []<>(\A i \in OfChat(c) : IsLatest(c, i) => ~Open(i))
=============================================================================
