------------------------------- MODULE Opencode -------------------------------
(* The scans of the OpenCode database (daemon/index.ts, adapters/opencode.ts).  *)
(* A scan discovers the chats updated since a watermark and the chats it left   *)
(* pending, and cuts the closed turns of each; a chat that OpenCode migrated    *)
(* from its old format goes on behind the history stored from that format.     *)
EXTENDS Integers, Sequences, FiniteSets

CONSTANTS
    Natives,   \* chats of the new format
    Migrants,  \* chats with a stored history of the old one (all naturals: ids)
    PageRows,  \* rows a scan reads of a chat
    MaxWrites, \* bound: changes by OpenCode and the user
    MaxStops   \* bound: scans that fail or are killed

VARIABLES
    rows,      \* the rows of a chat, in the order of their sequence numbers
    updated,   \* when its session row was last updated
    v1,        \* its rows of the old format: "none", "kept" as captured, or "grown"
    barred,    \* chats denied, incognito, purged or removed
    history,   \* the stored turns of the new format of a chat
    cursor,    \* the row behind the last one read, of the segment stored last
    segment,   \* its format: "none", "native" for the old one, "opencode-v2"
    pending,   \* opencode_v2_pending
    handoff,   \* opencode_v2_handoffs
    watermark, \* <<time, id>> behind which discovery goes on
    visited,   \* the id behind which the overlap cycle goes on
    scan,      \* the scan in progress
    writes, stops

storeVars    == <<history, cursor, segment, pending, handoff, watermark, visited>>
sourceVars   == <<rows, updated, v1, barred, writes>>
opencodeVars == <<sourceVars, storeVars, scan, stops>>

Chats     == Natives \union Migrants
V1Turns   == 3 \* the indexes of the old history are 0 .. 3
V1Rows    == {"v1user", "v1reply"}
NoPending == [rev |-> <<>>, more |-> FALSE, resume |-> 0]
NoHandoff == [status |-> "none", offset |-> -1, rev |-> <<>>, more |-> FALSE]
NoChat    == [chat |-> 0, rev |-> <<>>, time |-> 0, before |-> 0, boundary |-> 0, offset |-> 0,
              ready |-> <<>>, more |-> FALSE, pending |-> FALSE, skipped |-> 0, step |-> "none"]
NoScan    == [phase |-> "none", queue |-> <<>>, listed |-> {}, now |-> NoChat]

OpencodeInit ==
    /\ rows \in [Chats -> {<<>>, <<"v1user", "v1reply">>}] /\ \A c \in Natives : rows[c] = <<>>
    /\ updated = [c \in Chats |-> 0]
    /\ v1 = [c \in Chats |-> IF c \in Migrants THEN "kept" ELSE "none"]
    /\ barred = {} /\ writes = 0 /\ stops = 0
    /\ history = [c \in Chats |-> <<>>] /\ cursor = [c \in Chats |-> 0]
    /\ segment = [c \in Chats |-> IF c \in Migrants THEN "native" ELSE "none"]
    /\ pending = [c \in Chats |-> NoPending] /\ handoff = [c \in Chats |-> NoHandoff]
    /\ watermark = <<0, 0>> /\ visited = 0
    /\ scan = NoScan

----------------------------------------------------------------------------
\* OpenCode.  Of a barred chat nothing is read, so nothing more is written to it.

Appends(c, kinds, time) ==
    /\ c \notin barred
    /\ writes < MaxWrites /\ writes' = writes + 1
    /\ rows' = [rows EXCEPT ![c] = @ \o kinds]
    /\ updated' = [updated EXCEPT ![c] = time]
    /\ UNCHANGED <<v1, barred, storeVars, scan, stops>>

\* A prompt, replies with calls of Elepha's own tools, the end of a run, or all of it.
Runs == {<<"user">>, <<"ask", "ask", "ask">>, <<"idle">>, <<"user", "idle">>}

Writes(c, kinds) ==
    /\ v1[c] = "none" \/ rows[c] # <<>>
    /\ kinds[1] # "user" => rows[c] # <<>> /\ rows[c][Len(rows[c])] \in {"user", "ask"}
    /\ Appends(c, kinds, writes + 1)

\* The migration keeps the update time of the old session.
Migrates(c) ==
    /\ v1[c] # "none" /\ (rows[c] # <<>> => v1[c] = "grown")
    /\ Appends(c, <<"v1user", "v1reply">>, 0)

\* An OpenCode of the old format goes on with a chat, or drops the rows of a
\* chat that came from it.
ChangesOldFormat(c, rest) ==
    /\ rest \in (IF c \in Migrants THEN {"grown", "none"} ELSE {"grown"}) \ {v1[c]}
    /\ writes < MaxWrites /\ writes' = writes + 1
    /\ c \notin barred /\ v1' = [v1 EXCEPT ![c] = rest]
    /\ UNCHANGED <<rows, updated, barred, storeVars, scan, stops>>

\* Consent is denied, the chat is purged, or retention removes it.
IsBarred(c) ==
    /\ c \notin barred /\ barred' = barred \union {c}
    /\ writes < MaxWrites /\ writes' = writes + 1
    /\ UNCHANGED <<rows, updated, v1, storeVars, scan, stops>>

----------------------------------------------------------------------------
\* Reading a chat.  An idle row closes a turn; the index of a turn is the sequence
\* number of that row.  Skipping omits the rows in front of the first idle row.

Cut(p, r, i) ==
    IF r[i] \in {"user", "v1user"} /\ p.from = 0 /\ ~p.skipping
    THEN [p EXCEPT !.from = i, !.asked = FALSE]
    ELSE IF r[i] = "ask" THEN [p EXCEPT !.asked = TRUE]
    ELSE IF r[i] # "idle" THEN p
    ELSE [p EXCEPT !.from = 0, !.skipping = FALSE,
                   !.skipped = IF p.from = 0 /\ p.skipping THEN i ELSE @,
                   !.ready = IF p.from = 0 THEN @
                             ELSE Append(@, [from |-> p.from, upto |-> i, dropped |-> p.asked])]

Parse(r, after, last, skipping) ==
    LET p[i \in after..last] ==
            IF i = after THEN [from |-> 0, asked |-> FALSE, skipping |-> skipping, skipped |-> 0, ready |-> <<>>]
            ELSE Cut(p[i - 1], r, i)
    IN p[last]

\* A page of complete turns; of a turn longer than a page only the end is looked
\* for, among the newest rows.
Page(r, after) ==
    LET fits == Len(r) <= after + PageRows
        p == Parse(r, after, IF fits THEN Len(r) ELSE after + PageRows, FALSE)
        q == Parse(r, Len(r) - PageRows, Len(r), TRUE)
    IN IF fits THEN [ready |-> p.ready, more |-> FALSE, pending |-> p.from # 0, skipped |-> 0]
       ELSE IF p.ready # <<>> THEN [ready |-> p.ready, more |-> TRUE, pending |-> TRUE, skipped |-> 0]
       ELSE [ready |-> q.ready, more |-> FALSE, skipped |-> q.skipped,
             pending |-> q.from # 0 \/ q.skipping \/ (q.skipped # 0 /\ q.ready = <<>>)]

Revision(c) == <<Len(rows[c])>>

\* The old history is captured to its end, its last prompt was migrated, and behind
\* the migrated rows, which have no idle row, only new ones follow.
FirstNew(r) == LET new == {i \in DOMAIN r : r[i] = "user"}
               IN IF new = {} THEN 0 ELSE CHOOSE i \in new : \A j \in new : i <= j

HistoryCaptured(c) == v1[c] = "kept"

PrefixMigrated(c) ==
    /\ \E i \in 1..(FirstNew(rows[c]) - 1) : rows[c][i] = "v1user"
    /\ \A i \in DOMAIN rows[c] : i < FirstNew(rows[c]) => rows[c][i] # "idle"

OnlyNewBehind(c) ==
    \A i \in DOMAIN rows[c] : i > FirstNew(rows[c]) => rows[c][i] \notin V1Rows

Verified(c) == HistoryCaptured(c) /\ PrefixMigrated(c) /\ OnlyNewBehind(c)

----------------------------------------------------------------------------
\* Discovery.

Follows(c) == updated[c] > watermark[1] \/ (updated[c] = watermark[1] /\ c > watermark[2])

Dirty == {c \in Chats : rows[c] # <<>> /\ v1[c] = "none" /\ Follows(c)}

Waiting == {c \in Chats : pending[c] # NoPending /\ v1[c] = "none"}

InOrder(S, Less(_, _)) ==
    CHOOSE q \in [1..Cardinality(S) -> S] : \A i, j \in DOMAIN q : i < j => Less(q[i], q[j])

Earlier(c, d) == updated[c] < updated[d] \/ (updated[c] = updated[d] /\ c < d)
Smaller(c, d) == c < d

\* One scan at a time; the pages read here are what it works on.
StartsScan ==
    /\ scan = NoScan
    /\ scan' = [NoScan EXCEPT !.phase = "discovery",
                              !.queue = InOrder(Dirty, Earlier) \o InOrder(Waiting \ Dirty, Smaller),
                              !.listed = {<<c, updated[c]>> : c \in Dirty}]
    /\ UNCHANGED <<sourceVars, storeVars, stops>>

Turns(phase) == scan.phase = phase /\ scan.now = NoChat /\ scan.queue # <<>>
Rest         == [scan EXCEPT !.queue = Tail(@), !.now = NoChat]

\* The stored watermark follows the chats of the page, with the time the page had.
ListedAt(c) == {l[2] : l \in {x \in scan.listed : x[1] = c}}

ConsumedAtItsTime(c) ==
    watermark' = IF ListedAt(c) = {} THEN watermark ELSE <<updated[c], c>>

Consumed(c) ==
    watermark' = IF ListedAt(c) = {} THEN watermark ELSE <<CHOOSE t \in ListedAt(c) : TRUE, c>>

Drops(c) == pending' = [pending EXCEPT ![c] = NoPending]

PassesOver(c) ==
    /\ c \in barred \/ segment[c] = "native" \/ handoff[c] # NoHandoff
    /\ IF c \in barred THEN Drops(c) ELSE UNCHANGED pending

HasNoNews(c) ==
    /\ pending[c] # NoPending /\ ~pending[c].more /\ pending[c].rev = Revision(c)
    /\ UNCHANGED pending

SkipsChat ==
    /\ Turns("discovery")
    /\ LET c == Head(scan.queue) IN (PassesOver(c) \/ HasNoNews(c)) /\ Consumed(c)
    /\ scan' = Rest
    /\ UNCHANGED <<sourceVars, history, cursor, segment, handoff, visited, stops>>

Fresh(c) == c \notin barred /\ segment[c] # "native" /\ handoff[c] = NoHandoff

\* The revision is read in front of the rows.
TakesChat ==
    /\ Turns("discovery")
    /\ LET c == Head(scan.queue) IN
       /\ Fresh(c)
       /\ pending[c] # NoPending => pending[c].more \/ pending[c].rev # Revision(c)
       /\ scan' = [scan EXCEPT !.queue = Tail(@),
                               !.now = [NoChat EXCEPT !.chat = c, !.rev = Revision(c), !.before = cursor[c], !.step = "revised"]]
    /\ UNCHANGED <<sourceVars, storeVars, stops>>

ReadsRows ==
    /\ scan.now.step = "revised"
    /\ LET c == scan.now.chat
           p == Page(rows[c], IF scan.now.boundary # 0 THEN scan.now.boundary - 1
                              ELSE IF pending[c].resume # 0 THEN pending[c].resume ELSE cursor[c])
       IN scan' = [scan EXCEPT !.now.ready = p.ready, !.now.more = p.more, !.now.pending = p.pending,
                               !.now.skipped = p.skipped, !.now.step = "read"]
    /\ UNCHANGED <<sourceVars, storeVars, stops>>

\* The first turn behind the old history opens a segment; what was verified of the
\* old rows and of the boundary must still hold when it is written.
HandsOff(c)     == scan.now.boundary # 0 /\ segment[c] # "opencode-v2"
StillVerified(c) == HandsOff(c) => Verified(c) /\ FirstNew(rows[c]) = scan.now.boundary

Indexes(c) == {history[c][k].index : k \in DOMAIN history[c]}
              \union (IF c \in Migrants THEN 0..V1Turns ELSE {})

Stores(c, t) ==
    LET index == t.upto - 1 + scan.now.offset IN
    IF c \in barred \/ ~StillVerified(c) \/ index \in Indexes(c)
    THEN UNCHANGED <<history, cursor, segment>>
    ELSE /\ history' = [history EXCEPT ![c] = Append(@, [from |-> t.from, upto |-> t.upto, index |-> index])]
         /\ cursor' = [cursor EXCEPT ![c] = t.upto]
         /\ segment' = [segment EXCEPT ![c] = "opencode-v2"]

\* A turn that is dropped moves the cursor, except that of the old history.
Advances(c, t) ==
    IF c \in barred \/ HandsOff(c) THEN UNCHANGED <<history, cursor, segment>>
    ELSE /\ cursor' = [cursor EXCEPT ![c] = t.upto]
         /\ segment' = [segment EXCEPT ![c] = "opencode-v2"]
         /\ UNCHANGED history

HandlesTurn ==
    /\ scan.now.step = "read" /\ scan.now.ready # <<>>
    /\ LET c == scan.now.chat
           t == Head(scan.now.ready)
       IN /\ IF t.dropped THEN Advances(c, t) ELSE Stores(c, t)
          /\ scan' = [scan EXCEPT !.now.ready = IF c \in barred THEN <<>> ELSE Tail(@)]
    /\ UNCHANGED <<sourceVars, pending, handoff, watermark, visited, stops>>

\* A chat with an open turn, or with more rows, stays pending at the revision read.
FinishesChat ==
    /\ scan.phase = "discovery" /\ scan.now.step = "read" /\ scan.now.ready = <<>>
    /\ LET c == scan.now.chat
           resume == IF cursor[c] # scan.now.before THEN 0
                     ELSE IF scan.now.skipped # 0 THEN scan.now.skipped ELSE pending[c].resume
       IN /\ IF c \notin barred /\ (scan.now.pending \/ scan.now.more \/ resume # 0)
             THEN pending' = [pending EXCEPT ![c] = [rev |-> scan.now.rev, more |-> scan.now.more, resume |-> resume]]
             ELSE Drops(c)
          /\ Consumed(c)
    /\ scan' = [scan EXCEPT !.now = NoChat]
    /\ UNCHANGED <<sourceVars, history, cursor, segment, handoff, visited, stops>>

----------------------------------------------------------------------------
\* The overlap cycle: a page (one chat here) of those with both formats, by id,
\* and the chats whose last pass stopped at a full page.

Overlapping == {c \in Chats : v1[c] # "none" /\ rows[c] # <<>>}

StartsOverlap ==
    LET behind == {c \in Overlapping : c > visited}
        page   == {c \in behind : \A d \in behind : c <= d}
        more   == {c \in Overlapping : handoff[c].more}
    IN
    /\ scan.phase = "discovery" /\ scan.queue = <<>> /\ scan.now = NoChat
    /\ visited' = IF behind # page THEN CHOOSE c \in page : TRUE ELSE 0
    /\ scan' = [NoScan EXCEPT !.phase = "overlap", !.queue = InOrder(more \ page, Smaller) \o InOrder(page, Smaller)]
    /\ UNCHANGED <<sourceVars, history, cursor, segment, pending, handoff, watermark, stops>>

BothRevisions(c) == Revision(c) \o <<v1[c]>>

\* An offset once recorded stays.
Recorded(c, status, offset, rev, more) ==
    handoff' = IF c \in barred THEN handoff
               ELSE [handoff EXCEPT ![c] = [status |-> status, rev |-> rev, more |-> more,
                                            offset |-> IF @.offset # -1 THEN @.offset ELSE offset]]

Unchanged(c) == handoff[c].rev = BothRevisions(c) /\ ~handoff[c].more

Abstains(c) ==
    \/ segment[c] # "native" /\ handoff[c].offset = -1
    \/ segment[c] = "native" /\ (v1[c] # "kept" \/ (FirstNew(rows[c]) # 0 /\ ~Verified(c)))

AwaitsUser(c) == segment[c] = "native" /\ v1[c] = "kept" /\ FirstNew(rows[c]) = 0

LeavesChat(c) ==
    \/ (c \in barred \/ Unchanged(c)) /\ UNCHANGED handoff
    \/ Abstains(c) /\ Recorded(c, "abstained", -1, BothRevisions(c), FALSE)
    \/ AwaitsUser(c) /\ Recorded(c, "waiting", -1, BothRevisions(c), FALSE)

LeavesOverlap ==
    /\ Turns("overlap")
    /\ LeavesChat(Head(scan.queue))
    /\ scan' = Rest
    /\ UNCHANGED <<sourceVars, history, cursor, segment, pending, watermark, visited, stops>>

\* The offset of the new indexes is recorded before the first turn is.
NoOffset(c) == 0
OffsetOf(c) == IF handoff[c].offset # -1 THEN handoff[c].offset ELSE V1Turns + 1

TakesOver ==
    /\ Turns("overlap")
    /\ LET c == Head(scan.queue)
           chat == [NoChat EXCEPT !.chat = c, !.rev = BothRevisions(c), !.before = cursor[c],
                                  !.offset = OffsetOf(c), !.step = "revised"]
       IN /\ c \notin barred /\ ~Unchanged(c)
          /\ \/ /\ segment[c] = "opencode-v2" /\ handoff[c].offset # -1
                /\ scan' = [scan EXCEPT !.queue = Tail(@), !.now = chat]
                /\ UNCHANGED handoff
             \/ /\ segment[c] = "native" /\ FirstNew(rows[c]) # 0 /\ Verified(c)
                /\ scan' = [scan EXCEPT !.queue = Tail(@), !.now = [chat EXCEPT !.boundary = FirstNew(rows[c])]]
                /\ Recorded(c, "waiting", OffsetOf(c), <<>>, FALSE)
    /\ UNCHANGED <<sourceVars, history, cursor, segment, pending, watermark, visited, stops>>

FinishesOverlap ==
    /\ scan.phase = "overlap" /\ scan.now.step = "read" /\ scan.now.ready = <<>>
    /\ LET c == scan.now.chat IN
       Recorded(c, IF segment[c] = "opencode-v2" THEN "active" ELSE "waiting", scan.now.offset, scan.now.rev,
                scan.now.more /\ cursor[c] # scan.now.before)
    /\ scan' = [scan EXCEPT !.now = NoChat]
    /\ UNCHANGED <<sourceVars, history, cursor, segment, pending, watermark, visited, stops>>

EndsScan ==
    /\ scan.phase = "overlap" /\ scan.queue = <<>> /\ scan.now = NoChat
    /\ scan' = NoScan
    /\ UNCHANGED <<sourceVars, storeVars, stops>>

\* A row that cannot be read or a chat at capacity ends the scan, or the pass over
\* the chat in the overlap cycle; so does a crash the scan.
Stops ==
    /\ stops < MaxStops /\ stops' = stops + 1
    /\ scan # NoScan
    /\ \/ scan' = NoScan
       \/ scan.phase = "overlap" /\ scan.now # NoChat /\ scan' = [scan EXCEPT !.now = NoChat]
    /\ UNCHANGED <<sourceVars, storeVars>>

OpencodeNext ==
    \/ \E c \in Chats :
        \/ \E kinds \in Runs : Writes(c, kinds)
        \/ Migrates(c) \/ IsBarred(c)
        \/ \E rest \in {"grown", "none"} : ChangesOldFormat(c, rest)
    \/ StartsScan \/ SkipsChat \/ TakesChat \/ ReadsRows \/ HandlesTurn \/ FinishesChat
    \/ StartsOverlap \/ LeavesOverlap \/ TakesOver \/ FinishesOverlap \/ EndsScan
    \/ Stops

OpencodeSpec == OpencodeInit /\ [][OpencodeNext]_opencodeVars

----------------------------------------------------------------------------
Start(c)  == IF c \in Natives THEN 0 ELSE IF FirstNew(rows[c]) = 0 THEN Len(rows[c]) ELSE FirstNew(rows[c]) - 1
Closed(c) == Parse(rows[c], Start(c), Len(rows[c]), FALSE).ready
Kept(c)   == LET closed == Closed(c)
             IN {closed[n] : n \in {m \in DOMAIN closed : ~closed[m].dropped}}

IsOf(s, t) == s.from = t.from /\ s.upto = t.upto

\* No turn is longer than a page: such a turn, and what was written behind it in the
\* meantime, is omitted.
FitsPages(c) ==
    \A i \in Start(c)..(Len(rows[c]) - PageRows - 1) :
        \E k \in DOMAIN Closed(c) : i < Closed(c)[k].upto /\ Closed(c)[k].upto <= i + PageRows

\* What is stored of a chat in the new format is the first of its closed turns, each
\* once, in order and without a gap, behind the old history where there is one;
\* whatever scans failed, and whatever OpenCode did with the old rows meanwhile.
CapturedInOrder ==
    \A c \in Chats : FitsPages(c) =>
        LET stored == history[c]
            kept   == Kept(c)
        IN  /\ \A k \in DOMAIN stored : \E t \in kept : IsOf(stored[k], t)
            /\ \A j, k \in DOMAIN stored : j < k => stored[j].upto < stored[k].upto
            /\ \A t \in kept, k \in DOMAIN stored : t.upto < stored[k].upto =>
                   \E j \in DOMAIN stored : IsOf(stored[j], t)

\* A closed turn not read yet is found by a later scan: its chat is ahead of the
\* watermark, or pending with a revision or rows that are still to be read.
NothingForgotten ==
    \A c \in Natives :
        /\ v1[c] = "none" /\ handoff[c] = NoHandoff /\ c \notin barred /\ FitsPages(c)
        /\ \E k \in DOMAIN Closed(c) : Closed(c)[k].upto > cursor[c]
        => Follows(c) \/ (pending[c] # NoPending /\ (pending[c].more \/ pending[c].rev # Revision(c)))
=============================================================================
