-------------------------------- MODULE Evidence --------------------------------
(* The stored evidence of one chat: filtered copies of its turns               *)
(* (storage/durable-capture-store.ts), the coverage rows that say which copies *)
(* are current (turn-search-index.ts), the capture status, turn vectors        *)
(* (turn-embedding-store.ts, embeddings/generate-turns.ts, refresh-turns.ts)   *)
(* and the readers that serve them (serving/session-reader.ts,                 *)
(* current-chat-semantic-candidates.ts).  Reingest, a capture setting turned   *)
(* off, incognito and consent change all of it under a worker and a lookup     *)
(* that stop at every await.                                                   *)
EXTENDS Integers, FiniteSets, FiniteSetsExt

CONSTANTS
    TurnCount, Versions, \* turns; the texts a source can have, in order
    Edited,              \* turns whose source goes on changing
    Long,                \* turns whose last text is over SESSION_CHAR_BUDGET
    Window,              \* turns a rendered window can hold
    Native,              \* the chat is in a native OpenCode database
    MaxEvents            \* bound

VARIABLES
    source,     \* the version the transcript holds
    memory,     \* memories
    copy,       \* filtered_turns
    coverage,   \* turn_search_index
    status,     \* durable_capture_status
    vector,     \* turn_embeddings
    refresh,    \* turn_embedding_refresh_state
    chat,       \* what the user decided: capture, consent, incognito
    worker,     \* the embedding pass
    lookup,     \* a semantic lookup of the chat
    events      \* changes made

evidenceVars == <<source, memory, copy, coverage, status, vector, refresh, chat,
                  worker, lookup, events>>

Turns      == 1 .. TurnCount
Missing    == [version |-> 0, reingested |-> FALSE, older |-> FALSE]
NoCopy     == [version |-> -1, clean |-> TRUE, cut |-> FALSE, current |-> TRUE]
NoCoverage == [kind |-> "none", digest |-> 0, current |-> TRUE]
NoVector   == [digest |-> 0, version |-> 0, clean |-> TRUE]
NoRow      == [turn |-> 0, digest |-> 0, current |-> TRUE, reingested |-> FALSE]
Resting    == [step |-> "idle", part |-> "recent", row |-> NoRow, version |-> 0,
               clean |-> TRUE, epoch |-> 0, from |-> 0]
NoLookup   == [step |-> "idle", hits |-> {}, found |-> {}]

Stored(t)  == memory[t] # Missing
Covered(t) == coverage[t] # NoCoverage
First      == Min({t \in Turns : Stored(t)})

----------------------------------------------------------------------------
\* Copies, coverage and status, of a memory m, a copy c and a coverage row r.

\* older: captured_at < reingested_at.  A reingest can fall in the same
\* millisecond, so the coverage row is asked as well.
TimesAreEnough(m, c, r) == m.reingested /\ (c = NoCopy \/ m.older)
Superseded(m, c, r) == m.reingested /\ (c = NoCopy \/ m.older \/ r = NoCoverage)

NotCurrent(m, c, r) ==
    c = NoCopy \/ ~c.current \/ Superseded(m, c, r) \/ r = NoCoverage \/ r.current # c.current

\* boundedSanitizedProjection drops the oldest text over the budget.
Projected(t) == [version |-> source[t], clean |-> TRUE, cut |-> t \in Long /\ source[t] = Max(Versions), current |-> TRUE]
Kind(c)      == IF c.cut THEN "truncated" ELSE "included"
Indexed(t)   == [kind |-> Kind(Projected(t)), digest |-> source[t], current |-> TRUE]

ComputedState(mem, cop, rows) ==
    IF status.state = "parse_error" THEN "parse_error"
    ELSE IF \E t \in Turns : mem[t] # Missing /\ NotCurrent(mem[t], cop[t], rows[t]) THEN "disabled_gap"
    ELSE IF \E t \in Turns : cop[t].cut THEN "complete_truncated"
    ELSE "complete"

Refreshed(mem, cop, rows) == [state |-> ComputedState(mem, cop, rows), current |-> TRUE]

\* What the migration leaves of rows earlier versions wrote.
Reconciled(mem, cop, rows) ==
    [t \in Turns |-> IF cop[t] = NoCopy \/ (mem[t].reingested /\ mem[t].older) THEN NoCoverage ELSE rows[t]]

\* Databases of earlier versions: a first turn with a copy that may be from an
\* older filter, unsanitized, or superseded by a reingest; or an evicted chat.
Legacy == {<<FALSE, TRUE, TRUE>>, <<TRUE, TRUE, TRUE>>, <<FALSE, FALSE, TRUE>>, <<FALSE, TRUE, FALSE>>}

EvidenceInit ==
    /\ source = [t \in Turns |-> 1]
    /\ \E state \in {"none", "complete", "evicted"}, reingested, clean, current \in BOOLEAN :
          LET full   == state = "complete"
              old(x) == [t \in Turns |-> x]
              had    == [version |-> IF reingested THEN 0 ELSE 1, clean |-> clean, cut |-> FALSE, current |-> current]
              row    == [kind |-> "included", digest |-> had.version, current |-> current]
          IN /\ <<reingested, clean, current>> \in IF full THEN Legacy ELSE {<<FALSE, TRUE, TRUE>>}
             /\ status = [state |-> state, current |-> current]
             /\ memory = [old(Missing) EXCEPT ![1] =
                    IF state = "none" THEN Missing
                    ELSE [version |-> 1, reingested |-> reingested, older |-> reingested]]
             /\ copy = [old(NoCopy) EXCEPT ![1] = IF full THEN had ELSE NoCopy]
             /\ coverage = Reconciled(memory, copy, [old(NoCoverage) EXCEPT ![1] = row])
    /\ vector = [t \in Turns |-> NoVector]
    /\ refresh = [cursor |-> 0, epoch |-> 0]
    /\ chat = [capture |-> TRUE, consent |-> TRUE, incognito |-> FALSE]
    /\ worker = Resting /\ lookup = NoLookup /\ events = 0

----------------------------------------------------------------------------
\* What writes them.

Event    == events < MaxEvents /\ events' = events + 1
Writable == chat.consent /\ ~chat.incognito
Keeps    == chat.capture /\ status.state # "evicted"

Replaced(t) ==
    /\ copy' = [copy EXCEPT ![t] = Projected(t)]
    /\ coverage' = [coverage EXCEPT ![t] = Indexed(t)]
    /\ vector' = [vector EXCEPT ![t] = NoVector]
    /\ status' = Refreshed(memory', copy', coverage')

\* recordTurn: without a copy the turn is a gap.
Records(t) ==
    /\ Writable /\ ~Stored(t) /\ \A u \in 1 .. t - 1 : Stored(u)
    /\ memory' = [memory EXCEPT ![t] = [version |-> source[t], reingested |-> FALSE, older |-> FALSE]]
    /\ IF Keeps THEN Replaced(t) ELSE UNCHANGED <<copy, coverage, vector, status>>
    /\ UNCHANGED <<source, refresh, chat, worker, lookup, events>>

\* reingestTurn: coverage is withdrawn; with capture off the old copy stays, and
\* so does the status.
Reingested(t, older) ==
    memory' = [memory EXCEPT ![t] = [version |-> source[t], reingested |-> TRUE, older |-> older]]

Reingests(t) ==
    /\ Event /\ Writable /\ Stored(t)
    /\ \/ Keeps /\ Reingested(t, FALSE) /\ Replaced(t)
       \/ /\ ~Keeps
          /\ \E older \in BOOLEAN : Reingested(t, older)
          /\ coverage' = [coverage EXCEPT ![t] = NoCoverage]
          /\ vector' = [vector EXCEPT ![t] = NoVector]
          /\ copy' = IF chat.capture THEN [copy EXCEPT ![t] = NoCopy] ELSE copy
          /\ UNCHANGED status
    /\ UNCHANGED <<source, refresh, chat, worker, lookup>>

Edits(t) ==
    /\ t \in Edited /\ Stored(t) /\ source[t] + 1 \in Versions
    /\ source' = [source EXCEPT ![t] = @ + 1]
    /\ UNCHANGED <<memory, copy, coverage, status, vector, refresh, chat, worker, lookup, events>>

\* applySanitize rewrites copies in place; only a row whose values change is
\* updated, so the vector of the text before stays.
Cleaned == [t \in Turns |-> [copy[t] EXCEPT !.clean = TRUE]]

Sanitizes ==
    /\ Event /\ copy # Cleaned /\ copy' = Cleaned
    /\ UNCHANGED <<source, memory, coverage, status, vector, refresh, chat, worker, lookup>>

\* A restored database: sanitized, and without vectors.
Normalizes ==
    /\ Event /\ worker = Resting /\ lookup = NoLookup
    /\ copy' = Cleaned /\ vector' = [t \in Turns |-> NoVector]
    /\ UNCHANGED <<source, memory, coverage, status, refresh, chat, worker, lookup>>

MeetsMalformedRecord ==
    /\ Event /\ Stored(1) /\ status' = [state |-> "parse_error", current |-> TRUE]
    /\ UNCHANGED <<source, memory, copy, coverage, vector, refresh, chat, worker, lookup>>

TurnsCapture ==
    /\ Event /\ chat' = [chat EXCEPT !.capture = ~@]
    /\ UNCHANGED <<source, memory, copy, coverage, status, vector, refresh, worker, lookup>>

\* The consent trigger starts the sweep again in the same transaction.
TurnsConsent ==
    /\ Event /\ chat' = [chat EXCEPT !.consent = ~@]
    /\ refresh' = [cursor |-> 0, epoch |-> refresh.epoch + 1]
    /\ UNCHANGED <<source, memory, copy, coverage, status, vector, worker, lookup>>

GoesIncognito ==
    /\ Event /\ ~chat.incognito /\ chat' = [chat EXCEPT !.incognito = TRUE]
    /\ copy' = [t \in Turns |-> NoCopy] /\ coverage' = [t \in Turns |-> NoCoverage]
    /\ vector' = [t \in Turns |-> NoVector] /\ status' = [state |-> "none", current |-> TRUE]
    /\ UNCHANGED <<source, memory, refresh, worker, lookup>>

----------------------------------------------------------------------------
\* Reading one turn, or a window of the chat.

Located(t) == Stored(t) /\ ~chat.incognito
Whole(t)   == coverage[t].current /\ status = [state |-> "complete", current |-> TRUE] /\ copy[t] # NoCopy
Uncut(t)   == copy[t].current /\ ~copy[t].cut
Evident(t) ==
    /\ chat.consent /\ Located(t) /\ Whole(t) /\ Uncut(t) /\ Covered(t)
    /\ ~Superseded(memory[t], copy[t], coverage[t])
    /\ ~NotCurrent(memory[t], copy[t], coverage[t])

Copies(S)    == {[turn |-> t, version |-> copy[t].version] : t \in S}
TurnEvidence == Copies({t \in Turns : Evident(t)})

FirstInteraction ==
    Copies({t \in Turns : /\ Stored(t) /\ t = First /\ status.state # "evicted"
                          /\ copy[t].current /\ ~copy[t].cut
                          /\ ~NotCurrent(memory[t], copy[t], coverage[t])})

HasStatus == status.state \in {"complete", "complete_truncated"} /\ status.current
AnyStale  == \E t \in Turns : copy[t] # NoCopy /\ Superseded(memory[t], copy[t], coverage[t])
AnyGap    == \E t \in Turns : Stored(t) /\ NotCurrent(memory[t], copy[t], coverage[t])
Complete  == HasStatus /\ ~AnyStale /\ ~AnyGap
Newest    == {t \in Turns : Stored(t) /\ Cardinality({u \in Turns : u > t /\ Stored(u)}) < Window}

RenderedCopies == IF Complete THEN Copies(Newest) ELSE {}

\* A superseded copy is an answer; any other gap sends a native OpenCode chat
\* back to its database.
RenderedSource ==
    IF Native /\ ~Complete /\ ~(HasStatus /\ AnyStale) /\ ~chat.incognito
    THEN {[turn |-> t, version |-> source[t]] : t \in Newest} ELSE {}

Searchable == {t \in Turns : copy[t] # NoCopy /\ ~Superseded(memory[t], copy[t], coverage[t])}
Recalled   == IF ~chat.incognito /\ status.state # "evicted" THEN Copies(Searchable) ELSE {}

----------------------------------------------------------------------------
\* The embedding pass: its newest row, then one below the cursor.

Candidates == {t \in Turns : Covered(t) /\ ~chat.incognito}
Row(t)     == [turn |-> t, digest |-> coverage[t].digest, current |-> coverage[t].current,
               reingested |-> memory[t].reingested]
Below(t)   == {u \in Candidates : u < t}

StillCandidate(row) == chat.consent /\ row.turn \in Candidates /\ row.current

\* assertCurrent, and the same question inside the transaction of write.
Unmoved(row) == /\ chat.consent /\ row.turn \in Candidates
                /\ Row(row.turn) = row /\ row.current

Worker(w) ==
    /\ worker' = w
    /\ UNCHANGED <<source, memory, copy, coverage, status, refresh, chat, lookup, events>>

StartsPass ==
    /\ worker = Resting /\ Candidates # {} /\ chat.consent
    /\ Worker([Resting EXCEPT !.step = "picked", !.row = Row(Max(Candidates)),
                              !.epoch = refresh.epoch, !.from = refresh.cursor])
    /\ UNCHANGED vector

\* After the newest row: the rows below the cursor, or below that row.
Next_(w) ==
    IF w.part = "recent" /\ Below(w.row.turn) # {} THEN [w EXCEPT !.step = "paging"]
    ELSE [w EXCEPT !.step = "saving"]

Pages ==
    /\ worker.step = "paging"
    /\ LET from == IF worker.from = 0 THEN worker.row.turn ELSE worker.from
       IN Worker(IF ~chat.consent \/ Below(from) = {} THEN [worker EXCEPT !.step = "saving"]
                 ELSE [worker EXCEPT !.step = "picked", !.part = "historical",
                                     !.row = Row(Max(Below(from)))])
    /\ UNCHANGED vector

Checks ==
    /\ worker.step = "picked"
    /\ Worker(IF Unmoved(worker.row) THEN [worker EXCEPT !.step = "checked"] ELSE Resting)
    /\ UNCHANGED vector

\* Evidence is a copy: a turn that was reingested is left out.
Reads ==
    /\ worker.step = "checked"
    /\ LET t == worker.row.turn
       IN Worker(IF ~chat.consent THEN Resting
                 ELSE IF ~Evident(t) \/ worker.row.reingested THEN Next_(worker)
                 ELSE [worker EXCEPT !.step = "read", !.version = copy[t].version, !.clean = copy[t].clean])
    /\ UNCHANGED vector

Embedding(w) == [digest |-> w.row.digest, version |-> w.version, clean |-> w.clean]

Compares ==
    /\ worker.step = "read"
    /\ Worker(IF ~Unmoved(worker.row) THEN Resting
              ELSE IF vector[worker.row.turn] = Embedding(worker) THEN Next_(worker)
              ELSE [worker EXCEPT !.step = "embedding"])
    /\ UNCHANGED vector

\* write: the row is asked for again in the transaction.
Stores ==
    /\ worker.step = "embedding"
    /\ IF Unmoved(worker.row)
       THEN /\ vector' = [vector EXCEPT ![worker.row.turn] = Embedding(worker)]
            /\ Worker(Next_(worker))
       ELSE Worker(Resting) /\ UNCHANGED vector

\* A pass under another authority does not move the cursor.
Saves ==
    /\ worker.step = "saving"
    /\ refresh' = IF refresh.epoch # worker.epoch THEN refresh
                  ELSE [refresh EXCEPT !.cursor =
                           IF worker.part = "historical" /\ Below(worker.row.turn) # {}
                           THEN worker.row.turn ELSE 0]
    /\ worker' = Resting
    /\ UNCHANGED <<source, memory, copy, coverage, status, vector, chat, lookup, events>>

----------------------------------------------------------------------------
\* The semantic lookup: the vectors it found are asked for again before and
\* after each turn's evidence is read.

Hits == {t \in Turns : /\ vector[t] # NoVector /\ Covered(t) /\ coverage[t].digest = vector[t].digest
                       /\ coverage[t].current /\ ~chat.incognito}
Fresh(hit) == hit.turn \in Hits /\ vector[hit.turn] = hit.vector

Looks(l) ==
    /\ lookup' = l
    /\ UNCHANGED <<source, memory, copy, coverage, status, vector, refresh, chat, worker, events>>

FindsVectors ==
    /\ lookup = NoLookup /\ chat.consent /\ Hits # {}
    /\ Looks([step |-> "ranked", hits |-> {[turn |-> t, vector |-> vector[t]] : t \in Hits}, found |-> {}])

\* The text read now has to hash to what was embedded.
Hashes(hit) == copy[hit.turn].version = hit.vector.version /\ copy[hit.turn].clean = hit.vector.clean

GathersEvidence(hit) ==
    /\ lookup.step = "ranked" /\ hit \in lookup.hits
    /\ Looks(IF ~chat.consent THEN NoLookup
             ELSE [lookup EXCEPT !.hits = @ \ {hit},
                                 !.found = IF Fresh(hit) /\ Evident(hit.turn) /\ Hashes(hit) THEN @ \union {hit} ELSE @])

Answered ==
    IF lookup.step = "ranked" /\ lookup.hits = {} /\ chat.consent /\ \A hit \in lookup.found : Fresh(hit)
    THEN {[turn |-> hit.turn, version |-> hit.vector.version] : hit \in lookup.found} ELSE {}

EndsLookup == lookup.step = "ranked" /\ lookup.hits = {} /\ Looks(NoLookup)

----------------------------------------------------------------------------
Written  == \E t \in Turns : Records(t) \/ Reingests(t) \/ Edits(t)
Decided  == Sanitizes \/ Normalizes \/ MeetsMalformedRecord \/ TurnsCapture \/ TurnsConsent \/ GoesIncognito
Embedded == StartsPass \/ Pages \/ Checks \/ Reads \/ Compares \/ Stores \/ Saves
Looked   == FindsVectors \/ EndsLookup \/ \E hit \in lookup.hits : GathersEvidence(hit)

EvidenceNext == Written \/ Decided \/ Embedded \/ Looked

----------------------------------------------------------------------------
\* Whatever a reader would answer now is the text its turn has: a copy that a
\* reingest superseded, in the same millisecond or with capture off, or a hit a
\* lookup found before, is never given to a chat; nor is anything once the chat
\* is incognito (SUPERSEDED_COPY_SQL, NOT_CURRENT_COPY_SQL, indexedTurnEvidence).
Answers == TurnEvidence \union FirstInteraction \union RenderedCopies
           \union RenderedSource \union Recalled \union Answered

ServesCurrentText ==
    \A item \in Answers : item.version >= memory[item.turn].version /\ ~chat.incognito

\* A stored vector describes the version its coverage row and its memory have,
\* although the worker read the text, and waited for the model, in between.
VectorsDescribeTurns ==
    \A t \in Turns : vector[t] # NoVector =>
        /\ Covered(t) /\ vector[t].digest = coverage[t].digest
        /\ vector[t].version = memory[t].version

=============================================================================
