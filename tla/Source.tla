-------------------------------- MODULE Source --------------------------------
(* A transcript that grows while it is read, and the turns cut from it         *)
(* (adapters/base.ts, adapters/codex.ts).  A scan resumes at a cursor, parses   *)
(* the complete records behind it and yields the turns that are closed; each    *)
(* turn carries the cursor the next scan resumes at.  What belongs to a turn    *)
(* that is still open is parsed again by every scan.                            *)
EXTENDS Naturals, Sequences, FiniteSets

CONSTANTS
    MaxHeaders, \* bound: headers in the file
    MaxRecords, \* bound: records in the file
    MaxAttempts \* bound: attempts the provider starts

VARIABLES
    lines,      \* the complete records of the file
    explicit,   \* the provider marks where its attempts start and end
    running,    \* the provider's attempt in progress, 0 when it waits for the user
    prompted,   \* that attempt has its prompt in the file
    attempts,   \* attempts started
    cursor,     \* where the next scan resumes
    turns,      \* the turns handed to the daemon
    replaced    \* another file took its place

providerVars == <<lines, explicit, running, prompted, attempts, replaced>>
sourceVars   == <<providerVars, cursor, turns>>

Start   == [at |-> 0, next |-> 0, mark |-> FALSE, context |-> 0]
Content == {"reply", "call", "ask"}

SourceInit ==
    /\ lines = <<>> /\ replaced = FALSE
    /\ explicit \in BOOLEAN
    /\ running = 0 /\ prompted = FALSE /\ attempts = 0
    /\ cursor = Start
    /\ turns = <<>>

----------------------------------------------------------------------------
\* The provider.  A prompt opens a turn; with explicit markers the start of the
\* attempt precedes it, and an attempt that failed may be followed by a retry.

Appends(kind, id) ==
    /\ Len(lines) < MaxRecords
    /\ lines' = Append(lines, [kind |-> kind, id |-> id, file |-> replaced])
    /\ UNCHANGED <<explicit, replaced, cursor, turns>>

WritesHeader ==
    /\ Cardinality({i \in DOMAIN lines : lines[i].kind = "header"}) < MaxHeaders
    /\ Appends("header", 0)
    /\ UNCHANGED <<running, prompted, attempts>>

StartsAttempt ==
    /\ explicit /\ running = 0 /\ attempts < MaxAttempts
    /\ running' = attempts + 1 /\ attempts' = attempts + 1
    /\ prompted' = (lines # <<>> /\ lines[Len(lines)].kind = "fail")
    /\ Appends("start", attempts + 1)

Prompts ==
    /\ IF explicit THEN running # 0 /\ ~prompted ELSE running = 0 \/ prompted
    /\ prompted' = TRUE
    /\ running' = IF explicit THEN running ELSE 1
    /\ Appends("user", 0)
    /\ UNCHANGED attempts

\* A reply, a tool call, or a call of one of Elepha's own tools.
Contributes(kind) ==
    /\ running # 0 /\ prompted
    /\ kind \in Content
    /\ Appends(kind, 0)
    /\ UNCHANGED <<running, prompted, attempts>>

\* The result of a call, or Elepha's answer.
Returns ==
    /\ lines # <<>> /\ lines[Len(lines)].kind \in {"call", "ask"}
    /\ Appends(IF lines[Len(lines)].kind = "call" THEN "output" ELSE "answer", 0)
    /\ UNCHANGED <<running, prompted, attempts>>

EndsAttempt(how) ==
    /\ explicit /\ running # 0 /\ prompted
    /\ how \in {"finish", "abort", "fail"}
    /\ running' = 0 /\ prompted' = FALSE
    /\ Appends(how, running)
    /\ UNCHANGED attempts

\* Another file appears under the name, shorter or as long.
IsReplaced ==
    /\ ~replaced /\ cursor.at > 0
    /\ replaced' = TRUE
    /\ \E n \in {cursor.at - 1, cursor.at} : lines' = [i \in 1..n |-> [kind |-> "header", id |-> 0, file |-> TRUE]]
    /\ running' = 0 /\ prompted' = FALSE /\ attempts' = MaxAttempts
    /\ UNCHANGED <<explicit, cursor, turns>>

----------------------------------------------------------------------------
\* The parser.  Its state s: the open turn (s.open, from its boundary record),
\* the start marker not yet bound to a turn (s.pending, read at s.pendingAt), the
\* header in force, the headers not behind an issued cursor yet, and its output.

NoTurn == [from |-> 0, last |-> 0, header |-> 0, text |-> FALSE, tools |-> 0,
           asked |-> 0, answered |-> FALSE,
           started |-> FALSE, id |-> 0, finished |-> FALSE, aborted |-> FALSE, failed |-> FALSE]

Resumed(c) ==
    [turn |-> NoTurn, pending |-> 0, pendingAt |-> 0, header |-> c.context,
     committed |-> c.context, noted |-> {}, out |-> <<>>, cursor |-> c, halted |-> FALSE]

LastIn(S) == IF S = {} THEN 0 ELSE CHOOSE x \in S : \A y \in S : y <= x

\* A header sets the working directory.  Of those behind no cursor yet, the last
\* before a pending start marker and the last of all are remembered.
NotesHeader(s, i) ==
    LET cutoff == IF s.pending # 0 THEN s.pendingAt ELSE i
        before == {h \in s.noted : h < cutoff}
    IN IF lines[i].kind # "header" THEN s
       ELSE [s EXCEPT !.header = i,
                      !.noted = {i} \union (IF before = {} THEN {} ELSE {LastIn(before)})]

\* A marker ends the attempt it names, or binds one that has no content.
Signalled(s, i) ==
    LET r == lines[i]
        pends == s.pending # 0 /\ s.pending = r.id
    IN IF r.kind = "start" THEN [s EXCEPT !.pending = r.id, !.pendingAt = i]
       ELSE IF s.turn.from = 0 THEN s
       ELSE IF r.kind = "fail" /\ (pends \/ ~s.turn.started \/ s.turn.id = r.id)
         THEN [s EXCEPT !.turn.started = TRUE, !.turn.id = r.id, !.turn.finished = FALSE,
                        !.turn.aborted = FALSE, !.turn.failed = TRUE,
                        !.pending = IF pends THEN 0 ELSE @]
       ELSE IF r.kind \in {"finish", "abort"} /\ (pends \/ (s.turn.started /\ s.turn.id = r.id))
         THEN [s EXCEPT !.turn.started = TRUE, !.turn.id = r.id, !.turn.finished = TRUE,
                        !.turn.aborted = (r.kind = "abort"), !.turn.failed = FALSE,
                        !.pending = IF pends THEN 0 ELSE @]
       ELSE s

\* Content after a start marker without a prompt is a retry of the open turn.
Retried(s, i) ==
    IF s.pending # 0 /\ s.turn.from # 0 /\ lines[i].kind \in Content
    THEN [s EXCEPT !.turn.started = TRUE, !.turn.id = s.pending, !.turn.finished = FALSE,
                   !.turn.aborted = FALSE, !.turn.failed = FALSE, !.pending = 0]
    ELSE s

\* Calls are open until their result, questions to Elepha until their answer,
\* which is the turn's receipt.
Registers(t, k) ==
    [t EXCEPT !.tools = IF k \in {"call", "ask"} THEN @ + 1 ELSE @,
              !.asked = IF k = "ask" THEN @ + 1 ELSE @]

ForgetsTheReceipt(t, k) ==
    [t EXCEPT !.tools = IF k \in {"output", "answer"} /\ @ > 0 THEN @ - 1 ELSE @,
              !.asked = IF k = "answer" /\ @ > 0 THEN @ - 1 ELSE @]

Records(t, k) ==
    [t EXCEPT !.tools = IF k \in {"output", "answer"} /\ @ > 0 THEN @ - 1 ELSE @,
              !.asked = IF k = "answer" /\ @ > 0 THEN @ - 1 ELSE @,
              !.answered = @ \/ (k = "answer" /\ t.asked > 0)]

Observed(s, i) ==
    IF s.turn.from = 0 THEN s
    ELSE [s EXCEPT !.turn = Records(Registers(s.turn, lines[i].kind), lines[i].kind)]

\* A cursor carries the last header before it.
ContextAt(s, end) ==
    LET behind == {h \in s.noted : h <= end}
    IN [s EXCEPT !.committed = IF behind = {} THEN @ ELSE LastIn(behind), !.noted = @ \ behind]

\* A turn is yielded with the cursor behind it; one with an unanswered question to
\* Elepha ends the scan, one with an answer is yielded without its text.
Yields(s, end, idle) ==
    IF s.turn.asked > 0 THEN [s EXCEPT !.halted = TRUE]
    ELSE LET c == ContextAt(s, end) IN
         [c EXCEPT
            !.out = Append(@, [from |-> s.turn.from, last |-> s.turn.last, header |-> s.turn.header,
                               index |-> s.cursor.next, file |-> lines[s.turn.from].file, dropped |-> s.turn.answered,
                               swallowed |-> idle /\ s.pending # 0]),
            !.cursor = [at |-> end, next |-> s.cursor.next + 1,
                        mark |-> lines[end].file, context |-> c.committed]]

CutsAtThePrompt(s, i) ==
    IF lines[i].kind # "user" THEN s
    ELSE LET closed == IF s.turn.from = 0 THEN s ELSE Yields(s, i - 1, FALSE)
         IN [closed EXCEPT !.turn = [NoTurn EXCEPT !.from = i, !.started = (s.pending # 0), !.id = s.pending],
                           !.pending = 0]

\* A prompt closes the open turn, in front of the start marker that precedes the
\* prompt, and opens its own.
Opened(s, i) ==
    IF lines[i].kind # "user" THEN s
    ELSE LET closed == IF s.turn.from = 0 THEN s
                       ELSE Yields(s, IF s.pending # 0 THEN s.pendingAt - 1 ELSE i - 1, FALSE)
         IN [closed EXCEPT !.turn = [NoTurn EXCEPT !.from = i, !.started = (s.pending # 0), !.id = s.pending],
                           !.pending = 0]

Folded(s, i) ==
    IF s.turn.from = 0 \/ lines[i].kind \notin Content \union {"user"} THEN s
    ELSE [s EXCEPT !.turn.last = i,
                   !.turn.header = s.header,
                   !.turn.text = @ \/ lines[i].kind = "reply"]

Read(s, i) ==
    IF s.halted THEN s
    ELSE Folded(Opened(Observed(Retried(Signalled(NotesHeader(s, i), i), i), i), i), i)

Parsed(c, end) ==
    LET parse[i \in c.at..end] == IF i = c.at THEN Resumed(c) ELSE Read(parse[i - 1], i)
    IN parse[end]

\* A quiet file closes its last turn when that was answered and, if its attempts
\* are marked, the marked one ended.
ClosableAnyhow(t) == t.from # 0

Closable(t) ==
    /\ t.from # 0
    /\ ~t.started \/ t.finished
    /\ t.aborted \/ (t.text /\ t.tools = 0) \/ t.asked > 0

----------------------------------------------------------------------------
\* The cursor is trusted while the file reaches it and the bytes before it are
\* those it was issued behind.
ContextTrusted == cursor.context > 0 => lines[cursor.context].file = cursor.mark

TrustsAlways == cursor.at <= Len(lines)

Trusted ==
    /\ cursor.at <= Len(lines)
    /\ cursor.at > 0 => lines[cursor.at].file = cursor.mark
    /\ ContextTrusted

\* A scan reads to the end the file had, to its budget, or to its abort.
Scans(end) ==
    LET s == Parsed(cursor, end) IN
    /\ Trusted /\ cursor.at < end /\ end <= Len(lines)
    /\ s.out # <<>>
    /\ turns' = turns \o s.out /\ cursor' = s.cursor
    /\ UNCHANGED providerVars

ScansIdle ==
    LET s == Parsed(cursor, Len(lines))
        t == IF ~s.halted /\ Closable(s.turn) THEN Yields(s, Len(lines), TRUE) ELSE s
    IN
    /\ Trusted /\ cursor.at < Len(lines)
    /\ t.out # <<>>
    /\ turns' = turns \o t.out /\ cursor' = t.cursor
    /\ UNCHANGED providerVars

SourceNext ==
    \/ WritesHeader \/ StartsAttempt \/ Prompts \/ Returns \/ IsReplaced
    \/ \E kind \in Content : Contributes(kind)
    \/ \E how \in {"finish", "abort", "fail"} : EndsAttempt(how)
    \/ \E end \in 1..MaxRecords : Scans(end)
    \/ ScansIdle

SourceSpec == SourceInit /\ [][SourceNext]_sourceVars

----------------------------------------------------------------------------
\* The turns of one parse of everything, the open one included.
Whole ==
    LET s == Parsed(Start, Len(lines))
    IN IF s.turn.from = 0 \/ s.halted THEN s.out ELSE Yields([s EXCEPT !.turn.asked = 0], Len(lines), FALSE).out

Matches(t, u) == t.from = u.from /\ t.last = u.last /\ t.header = u.header /\ t.index = u.index /\ t.dropped = u.dropped

\* However many scans read a transcript with markers, and wherever each of them
\* stopped, their turns are those of one parse of the whole: the same records, in
\* the same working directory, under the same index.  Not so once an idle scan took
\* a start marker whose prompt was still to come (see MarkedTurnsAreFinished).
ResumingIsInvisible ==
    explicit /\ ~replaced /\ (\A k \in DOMAIN turns : ~turns[k].swallowed) =>
        /\ Len(turns) <= Len(Whole)
        /\ \A k \in DOMAIN turns : Matches(turns[k], Whole[k])

\* A turn in which Elepha answered is never handed on with its text, and no turn is
\* while an answer is awaited.
AnswersAreWithheld ==
    \A k \in DOMAIN turns :
        ~replaced => \A i \in turns[k].from..turns[k].last : lines[i].kind = "ask" => turns[k].dropped

\* The turns of a transcript come from one file: behind a cursor of the file that
\* was replaced nothing is cut from the one that took its place.
TurnsAreOfOneFile ==
    \A j, k \in DOMAIN turns : turns[j].file = turns[k].file

\* A turn whose attempt is marked is handed on only after the mark of its end
\* (adapters/base.ts:5-10).  Does not hold: see swallowed above.
MarkedTurnsAreFinished ==
    explicit /\ ~replaced /\ running # 0 /\ prompted =>
        \A k \in DOMAIN turns, i \in DOMAIN lines :
            lines[i].kind = "start" /\ lines[i].id = running => turns[k].last < i
=============================================================================
