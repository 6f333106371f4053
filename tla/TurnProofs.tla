------------------------------- MODULE TurnProofs -------------------------------
(* The turns of a chat that is still being written, in a module of their own: it   *)
(* is small, and MCParts is not.                                                    *)
(* The open turn (OpenTurn), for any number of turns, changes, troubles and epochs: *)
(* what is served of it is of the turn as it was read last, and a turn that failed  *)
(* is not forgotten.  Nothing orders the steps of the two processes, so the         *)
(* invariant relates what each of them read to what the row says and to what the    *)
(* transcript has become: the same text is always the same turn.                    *)
(* The turns that scans cut from a transcript (Source), for any records and however *)
(* many scans read it: what their parsers may never hand on, and that they cut what *)
(* one parse of the whole cuts.  A parse is a recursive function over the records;  *)
(* that it is one at all, and what it keeps, is induction on their number           *)
(* (UpwardInduction of SetLemmas).                                                  *)
EXTENDS OpenTurn, Integers, Sequences, FiniteSets, FiniteSetTheorems, SetLemmas, TLAPS

CONSTANTS MaxHeaders, MaxRecords, MaxAttempts

VARIABLES lines, explicit, running, prompted, attempts, sourceCursor, turns, replaced

S == INSTANCE Source WITH cursor <- sourceCursor

------------------------------------------------------------------------------
Sources == [turn : Nat, text : Nat, rev : Nat, failed : BOOLEAN, covered : BOOLEAN]
Reads   == [turn : Nat, text : Nat, failed : BOOLEAN, covered : BOOLEAN]
TurnRows == [turn : Nat, text : Nat, rev : Nat, covered : BOOLEAN, summary : Nat,
             epoch : Nat, validated : Nat]
Scans   == [at : {"none", "started", "opened", "begun", "parsed", "summarizing"},
            rev : Nat, epoch : Nat, next : Nat, read : Reads]

TurnTypes ==
    /\ source \in Sources /\ row \in TurnRows /\ scan \in [Procs -> Scans]
    /\ graced \in BOOLEAN /\ barred \in BOOLEAN /\ news \in BOOLEAN
    /\ stored \subseteq Nat /\ cursor \in Nat /\ epoch \in Nat /\ due \in Nat /\ timer \in Nat
    /\ told \in [text : Nat, rev : Nat]
    /\ troubles \in [grants : Nat, failures : Nat, others : Nat]

Reading(p)  == scan[p].at \in {"parsed", "summarizing"}
Begun(p)    == scan[p].at \in {"begun", "parsed", "summarizing"}
Same(a, b)  == a.text = b.text => a.turn = b.turn /\ a.covered = b.covered

\* Every change makes another text, so what was seen of the same text is the same.
SeenInv ==
    /\ told.text <= source.text /\ told.rev <= source.rev /\ source.turn > 0
    /\ \A t \in stored : t < source.turn
    /\ source.failed => source.rev > 0 /\ source.text > 0
    /\ row # NoRow =>
          /\ row.text <= source.text /\ Same(row, source)
          /\ row.turn \notin stored /\ ~barred
          /\ row.validated <= row.epoch
    /\ \A p \in Procs : scan[p].rev <= source.rev
    /\ \A p \in Procs : Reading(p) =>
          /\ scan[p].read.turn <= source.turn /\ scan[p].read.text <= source.text
          /\ Same(scan[p].read, source)
          /\ scan[p].read.text = source.text => scan[p].read.failed = source.failed
          /\ row # NoRow => Same(scan[p].read, row)
          /\ scan[p].rev = source.rev => scan[p].read.turn = source.turn
          /\ scan[p].at = "summarizing" =>
                scan[p].read.covered /\ Plain(scan[p].read.turn) /\ scan[p].read.failed
          /\ \A q \in Procs : Reading(q) => Same(scan[p].read, scan[q].read)

\* A summary is of the text of its row; a row that is valid was seen no earlier than
\* what was told last.
ServedInv ==
    /\ row.summary # 0 => row.summary = row.text /\ row.covered /\ Plain(row.turn)
    /\ row # NoRow /\ row.epoch = row.validated =>
          /\ row.rev >= told.rev
          /\ troubles.grants = 0 => row.text >= told.text
    /\ troubles.grants = 0 => scan["replay"].at = "none"
    /\ Begun("daemon") => scan["daemon"].epoch <= epoch
    /\ troubles.grants = 0 /\ Reading("daemon") /\ scan["daemon"].epoch = epoch =>
          scan["daemon"].read.text >= told.text

\* What the scan of the daemon missed, an event or another scan will meet.
Coming == news \/ due > 0
DueInv ==
    troubles.grants = 0 =>
        /\ Reading("daemon") /\ scan["daemon"].read.text # source.text => Coming
        /\ scan["daemon"].at # "none" /\ scan["daemon"].rev # source.rev => Coming
        /\ Begun("daemon") /\ scan["daemon"].epoch # epoch => Coming
        /\ Begun("daemon") /\ row # NoRow => row.epoch = epoch
        /\ scan["daemon"].at = "summarizing" /\ scan["daemon"].epoch = epoch /\ ~barred =>
              /\ row # NoRow /\ SameTurn(scan["daemon"]) /\ row.covered /\ row.summary = 0
              /\ row.epoch = epoch /\ row.validated = epoch

TurnInv == TurnTypes /\ SeenInv /\ ServedInv /\ DueInv /\ FailedTurnIsNotForgotten

LEMMA TurnStarts ==
    ASSUME OpenTurnInit, MaxTurns \in Nat
    PROVE  TurnInv
<1>1. PICK t \in 1..MaxTurns :
        /\ source = [turn |-> t, text |-> 0, rev |-> 0, failed |-> FALSE, covered |-> TRUE]
        /\ stored = {n \in 1..(t - 1) : Plain(n)} /\ cursor = t - 1
  BY DEF OpenTurnInit
<1>2. /\ row = NoRow /\ scan = [p \in Procs |-> NoScan] /\ told = [text |-> 0, rev |-> 0]
      /\ graced = FALSE /\ barred = FALSE /\ epoch = 0 /\ news = FALSE /\ due = 0 /\ timer = 0
      /\ troubles = NoTroubles
  BY DEF OpenTurnInit
<1>3. /\ source \in Sources /\ source.turn > 0 /\ stored \subseteq Nat /\ cursor \in Nat
      /\ \A n \in stored : n < source.turn
  BY <1>1 DEF Sources
<1>4. NoRow \in TurnRows /\ NoScan \in Scans /\ NoTroubles \in [grants : Nat, failures : Nat, others : Nat]
  BY DEF NoRow, TurnRows, NoScan, Scans, Reads, NoTroubles
<1>5. TurnTypes
  BY <1>2, <1>3, <1>4 DEF TurnTypes
<1>6. \A p \in Procs : scan[p].at = "none" /\ scan[p].rev = 0
  BY <1>2 DEF NoScan
<1>7. SeenInv
  <2>1. told.text = 0 /\ told.rev = 0 /\ source.text = 0 /\ source.rev = 0 /\ ~source.failed
    BY <1>1, <1>2
  <2> QED  BY <1>2, <1>3, <1>6, <2>1 DEF SeenInv, Reading
<1>8. ServedInv /\ DueInv
  BY <1>2, <1>6 DEF ServedInv, DueInv, Reading, Begun, Procs, NoRow
<1>9. FailedTurnIsNotForgotten
  BY <1>1 DEF FailedTurnIsNotForgotten
<1> QED  BY <1>5, <1>7, <1>8, <1>9 DEF TurnInv

\* A change of the transcript makes another text, and announces itself.
LEMMA TurnChanged ==
    ASSUME TurnInv, NEW next \in Sources, NEW grace \in BOOLEAN, Changes(next, grace),
           next.text = source.text, next.turn >= source.turn, next.rev >= source.rev,
           next.turn # source.turn => next.rev > source.rev,
           next.failed => next.rev > 0
    PROVE  TurnInv'
<1>1. TurnTypes /\ SeenInv /\ ServedInv /\ DueInv
  BY DEF TurnInv
<1>2. /\ source' \in Sources /\ source'.text = source.text + 1 /\ source'.turn = next.turn
      /\ source'.rev = next.rev /\ source'.failed = next.failed
      /\ graced' \in BOOLEAN /\ news' = TRUE
      /\ UNCHANGED <<userVars, storeVars, due, timer, epoch, scan, told, troubles>>
  BY DEF Changes, Sources
<1>3. TurnTypes'
  BY <1>1, <1>2 DEF TurnTypes, userVars, storeVars
<1>4. SeenInv'
  BY <1>1, <1>2 DEF SeenInv, TurnTypes, Sources, TurnRows, Scans, Reads, Same, Reading,
     userVars, storeVars
<1>5. ServedInv' /\ DueInv' /\ FailedTurnIsNotForgotten'
  BY <1>1, <1>2 DEF ServedInv, DueInv, Coming, FailedTurnIsNotForgotten, Begun, Reading,
     SameTurn, userVars, storeVars
<1> QED  BY <1>3, <1>4, <1>5 DEF TurnInv

\* The next revision of the transcript, with the outcome of its last attempt.
LEMMA AttemptEnds ==
    ASSUME NEW s \in Sources, NEW f \in BOOLEAN, NEW c \in BOOLEAN
    PROVE  LET n == [s EXCEPT !.failed = f, !.covered = c, !.rev = @ + 1]
           IN n \in Sources /\ n.turn = s.turn /\ n.text = s.text /\ n.rev = s.rev + 1
<1> DEFINE r == s.rev + 1
<1>1. r \in Nat
  BY DEF Sources
<1> HIDE DEF r
<1>2. LET n == [s EXCEPT !.failed = f, !.covered = c, !.rev = r]
      IN n \in Sources /\ n.turn = s.turn /\ n.text = s.text /\ n.rev = r
  BY <1>1 DEF Sources
<1> QED  BY <1>2 DEF r

LEMMA ProviderKeeps ==
    ASSUME TurnInv, ProviderSteps
    PROVE  TurnInv'
<1>1. TurnTypes /\ SeenInv /\ ServedInv /\ DueInv /\ FailedTurnIsNotForgotten
  BY DEF TurnInv
<1>2. source \in Sources /\ graced \in BOOLEAN
  BY <1>1 DEF TurnTypes
<1>3. ASSUME NEW covered \in BOOLEAN, Fails(covered)
      PROVE  TurnInv'
  <2> DEFINE next == [source EXCEPT !.failed = TRUE, !.covered = covered, !.rev = @ + 1]
  <2>1. /\ next \in Sources /\ next.text = source.text /\ next.turn = source.turn
        /\ next.rev = source.rev + 1 /\ source.rev \in Nat /\ source.turn \in Nat
    BY <1>2, AttemptEnds DEF Sources
  <2>2. Changes(next, FALSE)
    BY <1>3 DEF Fails
  <2> HIDE DEF next
  <2>3. /\ next.turn >= source.turn /\ next.rev >= source.rev
        /\ next.rev > source.rev /\ next.rev > 0
    BY <2>1
  <2> QED  BY <2>1, <2>2, <2>3, TurnChanged
<1>4. CASE Retries
  <2> DEFINE next == [source EXCEPT !.failed = FALSE, !.covered = TRUE, !.rev = @ + 1]
  <2>1. /\ next \in Sources /\ next.text = source.text /\ next.turn = source.turn
        /\ next.rev = source.rev + 1 /\ source.rev \in Nat /\ source.turn \in Nat
    BY <1>2, AttemptEnds DEF Sources
  <2>2. Changes(next, FALSE)
    BY <1>4 DEF Retries
  <2> HIDE DEF next
  <2>3. /\ next.turn >= source.turn /\ next.rev >= source.rev
        /\ next.rev > source.rev /\ next.rev > 0
    BY <2>1
  <2> QED  BY <2>1, <2>2, <2>3, TurnChanged
<1>5. CASE Ends
  <2> DEFINE next == [turn |-> source.turn + 1, text |-> source.text, rev |-> source.rev + 1,
                      failed |-> FALSE, covered |-> TRUE]
  <2>1. /\ next \in Sources /\ next.text = source.text /\ next.turn = source.turn + 1
        /\ next.rev = source.rev + 1 /\ source.rev \in Nat /\ source.turn \in Nat
    BY <1>2 DEF Sources
  <2>2. Changes(next, FALSE)
    BY <1>5 DEF Ends
  <2> HIDE DEF next
  <2>3. /\ next.turn >= source.turn /\ next.rev >= source.rev
        /\ next.rev > source.rev /\ next.rev > 0
    BY <2>1
  <2> QED  BY <2>1, <2>2, <2>3, TurnChanged
<1>6. CASE Rewrites
  <2>1. Changes(source, graced) /\ source.failed
    BY <1>6 DEF Rewrites
  <2>2. source.rev > 0 /\ source.rev \in Nat /\ source.turn \in Nat
    BY <1>1, <1>2, <2>1 DEF SeenInv, Sources
  <2> QED  BY <1>2, <2>1, <2>2, TurnChanged
<1>7. CASE BecomesQuiet
  <2>1. graced' = TRUE /\ UNCHANGED <<source, consent, barred, stored, cursor, row, news, due, timer,
                                      epoch, scan, told, troubles>>
    BY <1>7 DEF BecomesQuiet, userVars, storeVars, daemonVars
  <2>2. TurnTypes'
    BY <1>1, <2>1 DEF TurnTypes
  <2>3. SeenInv' /\ ServedInv'
    BY <1>1, <2>1 DEF SeenInv, ServedInv, Begun, Reading
  <2>4. DueInv' /\ FailedTurnIsNotForgotten'
    BY <1>1, <2>1 DEF DueInv, Coming, Served, FailedTurnIsNotForgotten, MayWrite, Begun, Reading, SameTurn
  <2> QED  BY <2>2, <2>3, <2>4 DEF TurnInv
<1> QED  BY <1>3, <1>4, <1>5, <1>6, <1>7 DEF ProviderSteps

\* What an invalidation leaves: the same row, of a validation that is still to come.
LEMMA InvalidatedRow ==
    ASSUME TurnTypes, NEW p \in Procs
    PROVE  /\ Bumped(p) \in Nat /\ Bumped(p) > row.epoch /\ Bumped(p) > Known(p)
           /\ Invalidated(p) \in TurnRows
           /\ row = NoRow => Invalidated(p) = NoRow
           /\ row # NoRow =>
                 /\ Invalidated(p) # NoRow
                 /\ Invalidated(p).turn = row.turn /\ Invalidated(p).text = row.text
                 /\ Invalidated(p).rev = row.rev /\ Invalidated(p).covered = row.covered
                 /\ Invalidated(p).summary = row.summary
                 /\ Invalidated(p).validated = row.validated
                 /\ Invalidated(p).epoch = Bumped(p)
<1>1. row \in TurnRows /\ row.epoch \in Nat /\ Known(p) \in Nat
  BY DEF TurnTypes, TurnRows, Known
<1>2. Bumped(p) \in Nat /\ Bumped(p) > row.epoch /\ Bumped(p) > Known(p)
  BY <1>1 DEF Bumped
<1> DEFINE r == [row EXCEPT !.epoch = Bumped(p)]
<1>3. /\ r \in TurnRows /\ r.turn = row.turn /\ r.text = row.text /\ r.rev = row.rev
      /\ r.covered = row.covered /\ r.summary = row.summary /\ r.validated = row.validated
      /\ r.epoch = Bumped(p)
  BY <1>1, <1>2 DEF TurnRows
<1>4. NoRow.epoch = 0 /\ NoRow \in TurnRows
  BY DEF NoRow, TurnRows
<1> HIDE DEF r
<1>5. r # NoRow
  BY <1>1, <1>2, <1>3, <1>4
<1>6. Invalidated(p) = IF row = NoRow THEN NoRow ELSE r
  BY DEF Invalidated, r
<1> QED  BY <1>2, <1>3, <1>4, <1>5, <1>6

\* Nothing of the row is served, and nothing of a scan that runs counts, from an
\* invalidation by the daemon on; the scan to come will.
LEMMA InvalidationKeeps ==
    ASSUME TurnInv, BeginsValidation("daemon"), row' = Invalidated("daemon"),
           due' \in Nat \ {0}, timer' \in Nat, news' \in BOOLEAN,
           UNCHANGED <<sourceVars, userVars, stored, cursor, scan, troubles>>
    PROVE  TurnInv'
<1>1. TurnTypes /\ SeenInv /\ ServedInv /\ DueInv
  BY DEF TurnInv
<1>2. /\ epoch' = Bumped("daemon") /\ told' = [text |-> source.text, rev |-> source.rev]
      /\ Known("daemon") = epoch /\ "daemon" \in Procs
  BY DEF BeginsValidation, Known, Procs
<1>3. /\ epoch' \in Nat /\ epoch' > row.epoch /\ epoch' > epoch
      /\ row' \in TurnRows /\ (row = NoRow => row' = NoRow)
      /\ row # NoRow =>
            /\ row' # NoRow
            /\ row'.turn = row.turn /\ row'.text = row.text /\ row'.rev = row.rev
            /\ row'.covered = row.covered /\ row'.summary = row.summary
            /\ row'.validated = row.validated /\ row'.epoch = epoch'
  BY <1>1, <1>2, InvalidatedRow
<1>4. TurnTypes'
  BY <1>1, <1>2, <1>3 DEF TurnTypes, sourceVars, userVars, Sources
<1>5. NoRow.summary = 0
  BY DEF NoRow
<1>6. SeenInv'
  BY <1>1, <1>2, <1>3 DEF SeenInv, TurnTypes, TurnRows, Sources, Same, Reading, sourceVars, userVars
<1>7. ServedInv'
  BY <1>1, <1>2, <1>3, <1>5 DEF ServedInv, SeenInv, TurnTypes, TurnRows, Scans, Begun, Reading,
     sourceVars, userVars
<1>8. DueInv' /\ FailedTurnIsNotForgotten'
  BY <1>1, <1>2, <1>3 DEF DueInv, ServedInv, TurnTypes, Scans, Begun, Reading, Coming,
     FailedTurnIsNotForgotten
<1> QED  BY <1>4, <1>6, <1>7, <1>8 DEF TurnInv

LEMMA MoreIsDue ==
    ASSUME TurnTypes, MaxDue \in Nat \ {0}, NEW n \in Nat \ {0}, More(n)
    PROVE  due' \in Nat \ {0}
BY DEF TurnTypes, More

\* The scan of one process ends.
LEMMA ScanDone ==
    ASSUME TurnTypes, NEW p \in Procs, Done(p)
    PROVE  /\ scan' \in [Procs -> Scans] /\ scan'[p].at = "none" /\ scan'[p].rev = 0
           /\ \A q \in Procs \ {p} : scan'[q] = scan[q]
<1>1. NoScan \in Scans /\ NoScan.at = "none" /\ NoScan.rev = 0
  BY DEF NoScan, Scans, Reads
<1> QED  BY <1>1 DEF TurnTypes, Done

\* It may end without having seen anything, or after a bar, as far as what is served
\* goes.
LEMMA EndedScanKeeps ==
    ASSUME TurnInv, NEW p \in Procs, Done(p),
           UNCHANGED <<sourceVars, stored, cursor, consent, news, due, timer, epoch, told>>,
           \/ UNCHANGED <<row, barred>>
           \/ row' = NoRow /\ barred' = TRUE,
           troubles' \in [grants : Nat, failures : Nat, others : Nat],
           troubles'.grants = troubles.grants
    PROVE  TurnTypes' /\ SeenInv' /\ ServedInv' /\ DueInv'
<1>1. TurnTypes /\ SeenInv /\ ServedInv /\ DueInv
  BY DEF TurnInv
<1>2. /\ scan' \in [Procs -> Scans] /\ scan'[p].at = "none" /\ scan'[p].rev = 0
      /\ \A q \in Procs \ {p} : scan'[q] = scan[q]
  BY <1>1, ScanDone
<1>3. NoRow \in TurnRows /\ NoRow.summary = 0
  BY DEF NoRow, TurnRows
<1>4. TurnTypes'
  BY <1>1, <1>2, <1>3 DEF TurnTypes, sourceVars
<1>5. SeenInv'
  BY <1>1, <1>2, <1>3 DEF SeenInv, TurnTypes, Sources, Reading, sourceVars
<1>6. ServedInv'
  BY <1>1, <1>2, <1>3 DEF ServedInv, Begun, Reading, sourceVars, Procs
<1>7. DueInv'
  <2>1. CASE p = "daemon"
    BY <1>2, <2>1 DEF DueInv, Begun, Reading
  <2>2. CASE p = "replay"
    <3>1. scan'["daemon"] = scan["daemon"]
      BY <1>2, <2>2 DEF Procs
    <3>2. CASE UNCHANGED <<row, barred>>
      BY <1>1, <3>1, <3>2 DEF DueInv, Begun, Reading, Coming, SameTurn, sourceVars
    <3>3. CASE row' = NoRow /\ barred' = TRUE
      BY <1>1, <3>1, <3>3 DEF DueInv, Begun, Reading, Coming, sourceVars
    <3> QED  BY <3>2, <3>3
  <2> QED  BY <2>1, <2>2 DEF Procs
<1> QED  BY <1>4, <1>5, <1>6, <1>7

\* A scan takes a step: the file is opened; the row is invalidated, or goes, if it is
\* of another snapshot; the text is read.
LEMMA OpensKeeps ==
    ASSUME TurnInv, NEW p \in Procs, Opens(p)
    PROVE  TurnInv'
<1>1. TurnTypes /\ SeenInv /\ ServedInv /\ DueInv
  BY DEF TurnInv
<1>2. /\ UNCHANGED <<source, graced, consent, barred, stored, cursor, row, news, timer, epoch,
                      told, troubles>>
      /\ scan' = [scan EXCEPT ![p] = [NoScan EXCEPT !.at = "opened", !.rev = source.rev]]
      /\ p # "daemon" => scan[p].at = "started"
      /\ due' \in Nat
  <2>1. source.rev \in Nat /\ due \in Nat
    BY <1>1 DEF TurnTypes, Sources
  <2> QED  BY <2>1 DEF Opens, sourceVars, userVars, storeVars
<1>3. /\ scan' \in [Procs -> Scans] /\ scan'[p].at = "opened" /\ scan'[p].rev = source.rev
      /\ \A q \in Procs \ {p} : scan'[q] = scan[q]
  <2> DEFINE s == [NoScan EXCEPT !.at = "opened", !.rev = source.rev]
  <2>1. s \in Scans /\ s.at = "opened" /\ s.rev = source.rev
    BY <1>1 DEF NoScan, Scans, Reads, TurnTypes, Sources
  <2> HIDE DEF s
  <2>2. scan' = [scan EXCEPT ![p] = s]
    BY <1>2 DEF s
  <2> QED  BY <1>1, <2>1, <2>2 DEF TurnTypes
<1>4. TurnTypes'
  BY <1>1, <1>2, <1>3 DEF TurnTypes
<1>5. SeenInv'
  BY <1>1, <1>2, <1>3 DEF SeenInv, TurnTypes, Sources, Reading
<1>6. ServedInv'
  BY <1>1, <1>2, <1>3 DEF ServedInv, Begun, Reading, Procs
<1>7. DueInv' /\ FailedTurnIsNotForgotten'
  <2>1. CASE p = "daemon"
    BY <1>2, <1>3, <2>1 DEF DueInv, Begun, Reading, FailedTurnIsNotForgotten
  <2>2. CASE p = "replay"
    BY <1>1, <1>2, <2>2 DEF ServedInv, DueInv, FailedTurnIsNotForgotten
  <2> QED  BY <2>1, <2>2 DEF Procs
<1> QED  BY <1>4, <1>5, <1>6, <1>7 DEF TurnInv

LEMMA BeginsKeeps ==
    ASSUME TurnInv, NEW p \in Procs, Begins(p)
    PROVE  TurnInv'
<1>1. TurnTypes /\ SeenInv /\ ServedInv /\ DueInv
  BY DEF TurnInv
<1>2. /\ UNCHANGED <<source, graced, consent, barred, stored, cursor, news, due, timer, troubles>>
      /\ scan[p].at = "opened"
      /\ scan' = [scan EXCEPT ![p].at = "begun", ![p].epoch = Bumped(p)]
      /\ epoch' = IF p = "daemon" THEN Bumped(p) ELSE epoch
      /\ told' = [text |-> source.text, rev |-> source.rev]
  BY DEF Begins, BeginsValidation, sourceVars, userVars, daemonVars
<1>3. /\ Bumped(p) \in Nat /\ Bumped(p) > Known(p)
      /\ row' \in TurnRows
      /\ row' = NoRow \/
            /\ row # NoRow
            /\ row'.turn = row.turn /\ row'.text = row.text /\ row'.rev = row.rev
            /\ row'.covered = row.covered /\ row'.summary = row.summary
            /\ row'.validated = row.validated /\ row'.epoch = Bumped(p)
            /\ row'.validated < row'.epoch
  <2>1. row' = Invalidated(p) \/ row' = NoRow
    BY DEF Begins
  <2>2. NoRow \in TurnRows
    BY DEF NoRow, TurnRows
  <2>3. row # NoRow => row.validated <= row.epoch
    BY <1>1 DEF SeenInv
  <2>4. row.epoch \in Nat /\ row.validated \in Nat
    BY <1>1 DEF TurnTypes, TurnRows
  <2> QED  BY <1>1, <2>1, <2>2, <2>3, <2>4, InvalidatedRow
<1>4. /\ scan' \in [Procs -> Scans] /\ scan'[p].at = "begun" /\ scan'[p].epoch = Bumped(p)
      /\ scan'[p].rev = scan[p].rev
      /\ \A q \in Procs \ {p} : scan'[q] = scan[q]
  <2> DEFINE e == Bumped(p)
             t == scan[p]
             s == [t EXCEPT !.at = "begun", !.epoch = e]
  <2>1. e \in Nat /\ t \in Scans
    BY <1>1, <1>3 DEF TurnTypes
  <2> HIDE DEF e, t
  <2>2. s \in Scans /\ s.at = "begun" /\ s.epoch = e /\ s.rev = t.rev
    BY <2>1 DEF Scans
  <2>3. scan' = [scan EXCEPT ![p] = s]
    BY <1>1, <1>2 DEF e, t, TurnTypes
  <2> HIDE DEF s
  <2>4. scan' \in [Procs -> Scans] /\ scan'[p] = s /\ \A q \in Procs \ {p} : scan'[q] = scan[q]
    BY <1>1, <2>2, <2>3 DEF TurnTypes
  <2> QED  BY <2>2, <2>4 DEF e, t
<1>5. TurnTypes'
  BY <1>1, <1>2, <1>3, <1>4 DEF TurnTypes, Sources
<1>6. NoRow.summary = 0
  BY DEF NoRow
<1>7. SeenInv'
  BY <1>1, <1>2, <1>3, <1>4 DEF SeenInv, TurnTypes, Sources, TurnRows, Same, Reading
<1>8. CASE p = "daemon"
  <2>1. epoch' = Bumped(p) /\ Known(p) = epoch /\ epoch \in Nat
    BY <1>1, <1>2, <1>8 DEF Known, TurnTypes
  <2>2. ServedInv'
    BY <1>1, <1>2, <1>3, <1>4, <1>6, <1>8, <2>1 DEF ServedInv, TurnTypes, TurnRows, Begun, Reading, Procs
  <2>3. DueInv' /\ FailedTurnIsNotForgotten'
    BY <1>1, <1>2, <1>3, <1>4, <1>8, <2>1 DEF DueInv, FailedTurnIsNotForgotten, Begun, Reading, Coming
  <2> QED  BY <1>5, <1>7, <2>2, <2>3 DEF TurnInv
<1>9. CASE p = "replay"
  <2>1. troubles.grants # 0
    BY <1>1, <1>2, <1>9 DEF ServedInv
  <2>2. ServedInv'
    BY <1>1, <1>2, <1>3, <1>4, <1>6, <1>9, <2>1 DEF ServedInv, TurnTypes, TurnRows, Begun, Reading, Procs
  <2>3. DueInv' /\ FailedTurnIsNotForgotten'
    BY <1>2, <2>1 DEF DueInv, FailedTurnIsNotForgotten
  <2> QED  BY <1>5, <1>7, <2>2, <2>3 DEF TurnInv
<1> QED  BY <1>8, <1>9 DEF Procs

LEMMA ParsesKeeps ==
    ASSUME TurnInv, NEW p \in Procs, Parses(p)
    PROVE  TurnInv'
<1>1. TurnTypes /\ SeenInv /\ ServedInv /\ DueInv
  BY DEF TurnInv
<1> DEFINE read == [turn |-> source.turn, text |-> source.text,
                    failed |-> source.failed, covered |-> source.covered]
<1>2. /\ UNCHANGED <<source, graced, consent, barred, stored, cursor, row, news, due, timer,
                      epoch, told, troubles>>
      /\ scan[p].at = "begun"
      /\ scan' = [scan EXCEPT ![p].at = "parsed", ![p].next = cursor + 1, ![p].read = read]
  BY DEF Parses, sourceVars, userVars, storeVars, daemonVars
<1>3. /\ read \in Reads /\ read.turn = source.turn /\ read.text = source.text
      /\ read.failed = source.failed /\ read.covered = source.covered
  BY <1>1 DEF Reads, TurnTypes, Sources
<1> HIDE DEF read
<1>4. /\ scan' \in [Procs -> Scans] /\ scan'[p].at = "parsed" /\ scan'[p].read = read
      /\ scan'[p].epoch = scan[p].epoch /\ scan'[p].rev = scan[p].rev
      /\ \A q \in Procs \ {p} : scan'[q] = scan[q]
  <2> DEFINE n == cursor + 1
             t == scan[p]
             s == [t EXCEPT !.at = "parsed", !.next = n, !.read = read]
  <2>1. n \in Nat /\ t \in Scans
    BY <1>1 DEF TurnTypes
  <2> HIDE DEF n, t
  <2>2. /\ s \in Scans /\ s.at = "parsed" /\ s.read = read /\ s.epoch = t.epoch
        /\ s.rev = t.rev
    BY <1>3, <2>1 DEF Scans
  <2>3. scan' = [scan EXCEPT ![p] = s]
    BY <1>1, <1>2 DEF n, t, TurnTypes
  <2> HIDE DEF s
  <2>4. scan' \in [Procs -> Scans] /\ scan'[p] = s /\ \A q \in Procs \ {p} : scan'[q] = scan[q]
    BY <1>1, <2>2, <2>3 DEF TurnTypes
  <2> QED  BY <2>2, <2>4 DEF t
<1>5. TurnTypes'
  BY <1>1, <1>2, <1>4 DEF TurnTypes
<1>6. source.turn \in Nat /\ source.text \in Nat
  BY <1>1 DEF TurnTypes, Sources
<1>7. SeenInv'
  BY <1>1, <1>2, <1>3, <1>4, <1>6 DEF SeenInv, Same, Reading
<1>8. ServedInv'
  BY <1>1, <1>2, <1>3, <1>4, <1>6 DEF ServedInv, SeenInv, Begun, Reading, Procs
<1>9. DueInv' /\ FailedTurnIsNotForgotten'
  <2>1. CASE p = "daemon"
    BY <1>1, <1>2, <1>3, <1>4, <2>1 DEF DueInv, FailedTurnIsNotForgotten, Begun, Reading, Coming
  <2>2. CASE p = "replay"
    BY <1>1, <1>2, <2>2 DEF ServedInv, DueInv, FailedTurnIsNotForgotten
  <2> QED  BY <2>1, <2>2 DEF Procs
<1> QED  BY <1>5, <1>7, <1>8, <1>9 DEF TurnInv

\* A scan that may not read gives up; the chat of a denied root is barred.
LEMMA RefusesKeeps ==
    ASSUME TurnInv, NEW p \in Procs, Refuses(p)
    PROVE  TurnInv'
<1>1. TurnTypes /\ SeenInv /\ ServedInv /\ DueInv
  BY DEF TurnInv
<1>2. /\ UNCHANGED <<source, graced, stored, cursor, consent, news, due, timer, epoch, told, troubles>>
      /\ scan[p].at = "begun" /\ (consent # "approved" \/ barred) /\ Done(p)
      /\ \/ UNCHANGED <<row, barred>>
         \/ row' = NoRow /\ barred' = TRUE
  <2>1. CASE consent = "denied" /\ p = "daemon"
    BY <2>1 DEF Refuses, Bars, sourceVars, daemonVars
  <2>2. CASE ~(consent = "denied" /\ p = "daemon")
    <3>1. UNCHANGED <<userVars, storeVars>>
      BY <2>2 DEF Refuses
    <3>2. UNCHANGED <<consent, barred, stored, cursor, row>>
      BY <3>1 DEF userVars, storeVars
    <3> QED  BY <3>2 DEF Refuses, sourceVars, daemonVars
  <2> QED  BY <2>1, <2>2
<1>3. troubles' \in [grants : Nat, failures : Nat, others : Nat] /\ troubles'.grants = troubles.grants
  BY <1>1, <1>2 DEF TurnTypes
<1>4. TurnTypes' /\ SeenInv' /\ ServedInv' /\ DueInv'
  BY <1>2, <1>3, EndedScanKeeps DEF sourceVars
<1>5. FailedTurnIsNotForgotten'
  BY <1>1, <1>2 DEF ServedInv, FailedTurnIsNotForgotten, MayWrite, Procs
<1> QED  BY <1>4, <1>5 DEF TurnInv

\* A closed turn is recorded or dropped, before the open one is looked at.
LEMMA StoresKeeps ==
    ASSUME TurnInv, NEW p \in Procs, Stores(p)
    PROVE  TurnInv'
<1>1. TurnTypes /\ SeenInv /\ ServedInv /\ DueInv
  BY DEF TurnInv
<1> DEFINE t == scan[p].next
           n == t + 1
<1>2. scan[p] \in Scans /\ t \in Nat /\ n \in Nat /\ source.turn \in Nat
  BY <1>1 DEF TurnTypes, Scans, Sources
<1>3. /\ UNCHANGED <<source, graced, news, due, timer, epoch, told, troubles>>
      /\ scan[p].at = "parsed" /\ t < scan[p].read.turn
  BY DEF Stores, sourceVars, daemonVars
<1>4. t < source.turn
  BY <1>1, <1>2, <1>3 DEF SeenInv, Reading, Scans, Reads
<1>5. CASE ~MayWrite /\ consent = "denied" /\ Bars /\ Done(p)
  <2>1. troubles' \in [grants : Nat, failures : Nat, others : Nat] /\ troubles'.grants = troubles.grants
    BY <1>1, <1>3 DEF TurnTypes
  <2>2. TurnTypes' /\ SeenInv' /\ ServedInv' /\ DueInv'
    BY <1>3, <1>5, <2>1, EndedScanKeeps DEF sourceVars, Bars
  <2>3. FailedTurnIsNotForgotten'
    BY <1>5 DEF Bars, FailedTurnIsNotForgotten, MayWrite
  <2> QED  BY <2>2, <2>3 DEF TurnInv
<1>6. CASE /\ scan' = [scan EXCEPT ![p].next = t + 1] /\ UNCHANGED userVars
           /\ Records(t) \/ UNCHANGED storeVars
  <2>1. /\ scan' \in [Procs -> Scans] /\ scan'[p].at = "parsed" /\ scan'[p].read = scan[p].read
        /\ scan'[p].epoch = scan[p].epoch /\ scan'[p].rev = scan[p].rev
        /\ \A q \in Procs \ {p} : scan'[q] = scan[q]
    <3> DEFINE u == scan[p]
               s == [u EXCEPT !.next = n]
    <3> HIDE DEF u, n
    <3>1. /\ s \in Scans /\ s.at = u.at /\ s.read = u.read /\ s.epoch = u.epoch /\ s.rev = u.rev
      BY <1>2 DEF Scans, u
    <3>2. scan' = [scan EXCEPT ![p] = s]
      BY <1>1, <1>6 DEF n, u, TurnTypes
    <3> HIDE DEF s
    <3>3. scan' \in [Procs -> Scans] /\ scan'[p] = s /\ \A q \in Procs \ {p} : scan'[q] = scan[q]
      BY <1>1, <3>1, <3>2 DEF TurnTypes
    <3> QED  BY <1>3, <3>1, <3>3 DEF u
  <2> HIDE DEF t, n
  <2>2. /\ consent' = consent /\ barred' = barred
        /\ stored' = stored \/ (stored' = stored \union {t} /\ row' = NoRow)
        /\ row' = row \/ row' = NoRow
        /\ cursor' = cursor \/ cursor' = t
    <3>1. CASE UNCHANGED storeVars
      BY <1>6, <3>1 DEF userVars, storeVars
    <3>2. CASE Records(t) /\ ~(UNCHANGED storeVars)
      BY <1>6, <3>2 DEF Records, userVars
    <3> QED  BY <1>6, <3>1, <3>2 DEF t
  <2>3. NoRow \in TurnRows /\ NoRow.summary = 0
    BY DEF NoRow, TurnRows
  <2>4. TurnTypes'
    BY <1>1, <1>2, <1>3, <2>1, <2>2, <2>3 DEF TurnTypes
  <2>5. SeenInv'
    BY <1>1, <1>3, <1>4, <2>1, <2>2 DEF SeenInv, Reading
  <2>6. ServedInv'
    BY <1>1, <1>3, <2>1, <2>2, <2>3 DEF ServedInv, Begun, Reading, Procs
  <2>7. DueInv' /\ FailedTurnIsNotForgotten'
    <3>1. CASE p = "daemon"
      BY <1>1, <1>3, <2>1, <2>2, <3>1 DEF DueInv, FailedTurnIsNotForgotten, Begun, Reading, Coming
    <3>2. CASE p = "replay"
      BY <1>1, <1>3, <3>2 DEF ServedInv, DueInv, FailedTurnIsNotForgotten
    <3> QED  BY <3>1, <3>2 DEF Procs
  <2> QED  BY <2>4, <2>5, <2>6, <2>7 DEF TurnInv
<1> QED  BY <1>5, <1>6 DEF Stores

\* The open turn is looked at: its row is the snapshot the scan read.
LEMMA ObservesKeeps ==
    ASSUME TurnInv, NEW p \in Procs, scan[p].at = "parsed", scan[p].read.failed, Observes(p),
           UNCHANGED <<sourceVars, news, due, epoch, told, troubles>>
    PROVE  TurnInv'
<1>1. TurnTypes /\ SeenInv /\ ServedInv /\ DueInv
  BY DEF TurnInv
<1> DEFINE s == scan[p]
           seen == Observed(s)
           wanted == seen.covered /\ Plain(seen.turn) /\ seen.summary = 0
<1>2. s \in Scans /\ row \in TurnRows /\ source \in Sources
  BY <1>1 DEF TurnTypes
<1>3. /\ seen \in TurnRows /\ seen.turn = s.read.turn /\ seen.text = s.read.text
      /\ seen.rev = s.rev /\ seen.covered = s.read.covered
      /\ seen.epoch = s.epoch /\ seen.validated = s.epoch
      /\ seen.summary = IF SameTurn(s) THEN row.summary ELSE 0
  BY <1>2 DEF Observed, TurnRows, Scans, Reads
<1>4. /\ UNCHANGED <<source, graced, news, due, epoch, told, troubles, consent, barred, stored, cursor>>
      /\ row' = seen
      /\ Observable(p)
      /\ IF wanted /\ graced THEN Goes(p, "summarizing") ELSE Done(p)
      /\ timer' = IF wanted /\ ~graced /\ p = "daemon" THEN seen.rev ELSE timer
  BY DEF Observes, sourceVars, userVars
<1>5. /\ s.rev = source.rev /\ consent = "approved" /\ ~barred
      /\ p = "daemon" => s.epoch = epoch
      /\ p = "replay" => troubles.grants # 0
      /\ s.read.turn = source.turn /\ s.read.text <= source.text
      /\ Same(s.read, source)
      /\ row # NoRow => Same(s.read, row)
  BY <1>1, <1>4 DEF Observable, MayWrite, IsCurrent, SeenInv, ServedInv, Reading
<1>6. NoRow.summary = 0 /\ NoRow.turn = 0
  BY DEF NoRow
<1>7. seen.summary # 0 => seen.summary = seen.text /\ seen.covered /\ Plain(seen.turn)
  BY <1>1, <1>3, <1>5, <1>6 DEF ServedInv, SameTurn, Same
<1>8. s.read \in Reads
  BY <1>2 DEF Scans
<1> HIDE DEF seen
<1>9. \/ /\ wanted /\ graced
         /\ scan' \in [Procs -> Scans] /\ scan'[p].at = "summarizing" /\ scan'[p].read = s.read
         /\ scan'[p].epoch = s.epoch /\ scan'[p].rev = s.rev
         /\ \A q \in Procs \ {p} : scan'[q] = scan[q]
      \/ /\ ~(wanted /\ graced)
         /\ scan' \in [Procs -> Scans] /\ scan'[p].at = "none" /\ scan'[p].rev = 0
         /\ \A q \in Procs \ {p} : scan'[q] = scan[q]
  <2>1. CASE wanted /\ graced
    <3> DEFINE u == [s EXCEPT !.at = "summarizing"]
    <3>1. u \in Scans /\ u.at = "summarizing" /\ u.read = s.read /\ u.epoch = s.epoch /\ u.rev = s.rev
      BY <1>2 DEF Scans
    <3>2. scan' = [scan EXCEPT ![p] = u]
      BY <1>1, <1>4, <2>1 DEF Goes, TurnTypes
    <3> HIDE DEF u
    <3>3. scan' \in [Procs -> Scans] /\ scan'[p] = u /\ \A q \in Procs \ {p} : scan'[q] = scan[q]
      BY <1>1, <3>1, <3>2 DEF TurnTypes
    <3> QED  BY <2>1, <3>1, <3>3
  <2>2. CASE ~(wanted /\ graced)
    BY <1>1, <1>4, <2>2, ScanDone
  <2> QED  BY <2>1, <2>2
<1>10. timer' \in Nat
  BY <1>1, <1>2, <1>3, <1>4 DEF TurnTypes, Scans
<1>11. scan' \in [Procs -> Scans]
  BY <1>9
<1>12. TurnTypes'
  BY <1>1, <1>3, <1>4, <1>10, <1>11 DEF TurnTypes
<1>13. source.turn \notin stored /\ s.epoch \in Nat /\ source.turn \in Nat /\ source.turn > 0
  BY <1>1, <1>2 DEF SeenInv, TurnTypes, Sources, Scans
<1>14. /\ row'.turn = s.read.turn /\ row'.text = s.read.text /\ row'.covered = s.read.covered
       /\ row'.rev = s.rev /\ row'.epoch = s.epoch /\ row'.validated = s.epoch
       /\ row'.summary = seen.summary /\ row' # NoRow
  BY <1>3, <1>4, <1>5, <1>6, <1>13
<1>15. \A q \in Procs : /\ Reading(q)' => Reading(q) /\ scan'[q].read = scan[q].read
                        /\ Begun(q)' => Begun(q) /\ scan'[q].epoch = scan[q].epoch
                        /\ scan'[q].at # "none" => scan[q].at # "none" /\ scan'[q].rev = scan[q].rev
                        /\ scan'[q].rev = scan[q].rev \/ scan'[q].rev = 0
                        /\ scan'[q].at = "summarizing" =>
                              scan[q].at = "summarizing" \/ (q = p /\ wanted)
  <2> SUFFICES ASSUME NEW q \in Procs
               PROVE  /\ Reading(q)' => Reading(q) /\ scan'[q].read = scan[q].read
                      /\ Begun(q)' => Begun(q) /\ scan'[q].epoch = scan[q].epoch
                      /\ scan'[q].at # "none" => scan[q].at # "none" /\ scan'[q].rev = scan[q].rev
                      /\ scan'[q].rev = scan[q].rev \/ scan'[q].rev = 0
                      /\ scan'[q].at = "summarizing" =>
                            scan[q].at = "summarizing" \/ (q = p /\ wanted)
    OBVIOUS
  <2> HIDE DEF wanted
  <2>1. CASE q = p
    BY <1>9, <2>1 DEF Reading, Begun
  <2>2. CASE q # p
    BY <1>9, <2>2 DEF Reading, Begun
  <2> QED  BY <2>1, <2>2
<1>16. Reading(p) /\ Begun(p)
  BY DEF Reading, Begun
<1> HIDE DEF s, wanted
<1>17. SeenInv'
  <2>1. /\ told'.text <= source'.text /\ told'.rev <= source'.rev /\ source'.turn > 0
        /\ \A t \in stored' : t < source'.turn
        /\ source'.failed => source'.rev > 0 /\ source'.text > 0
    BY <1>1, <1>4 DEF SeenInv
  <2>2. /\ row'.text <= source'.text /\ Same(row', source')
        /\ row'.turn \notin stored' /\ ~barred' /\ row'.validated <= row'.epoch
    BY <1>4, <1>5, <1>13, <1>14 DEF Same
  <2>3. \A q \in Procs : scan'[q].rev <= source'.rev
    BY <1>1, <1>2, <1>4, <1>15 DEF SeenInv, Sources
  <2>4. ASSUME NEW q \in Procs, Reading(q)'
        PROVE  /\ scan'[q].read.turn <= source'.turn /\ scan'[q].read.text <= source'.text
               /\ Same(scan'[q].read, source')
               /\ scan'[q].read.text = source'.text => scan'[q].read.failed = source'.failed
               /\ Same(scan'[q].read, row')
               /\ scan'[q].rev = source'.rev => scan'[q].read.turn = source'.turn
               /\ scan'[q].at = "summarizing" =>
                     scan'[q].read.covered /\ Plain(scan'[q].read.turn) /\ scan'[q].read.failed
               /\ \A r \in Procs : Reading(r)' => Same(scan'[q].read, scan'[r].read)
    <3>1. Reading(q) /\ scan'[q].read = scan[q].read /\ scan'[q].rev = scan[q].rev
      BY <1>15, <2>4 DEF Reading
    <3>2. Same(scan[q].read, s.read)
      BY <1>1, <1>16, <3>1 DEF SeenInv, s
    <3>3. Same(scan'[q].read, row')
      BY <1>14, <3>1, <3>2 DEF Same
    <3>4. \A r \in Procs : Reading(r)' => Same(scan'[q].read, scan'[r].read)
      BY <1>1, <1>15, <3>1 DEF SeenInv
    <3>5. scan'[q].at = "summarizing" =>
             scan'[q].read.covered /\ Plain(scan'[q].read.turn) /\ scan'[q].read.failed
      <4>1. CASE scan[q].at = "summarizing"
        BY <1>1, <3>1, <4>1 DEF SeenInv
      <4>2. CASE q = p /\ wanted
        BY <1>3, <3>1, <4>2 DEF wanted, s
      <4> QED  BY <1>15, <4>1, <4>2
    <3> QED  BY <1>1, <1>4, <3>1, <3>3, <3>4, <3>5 DEF SeenInv
  <2> QED  BY <2>1, <2>2, <2>3, <2>4 DEF SeenInv
<1>18. ServedInv'
  <2>1. row'.summary # 0 => row'.summary = row'.text /\ row'.covered /\ Plain(row'.turn)
    BY <1>4, <1>7
  <2>2. row'.rev >= told'.rev
    BY <1>1, <1>4, <1>5, <1>14 DEF SeenInv
  <2>3. troubles'.grants = 0 => row'.text >= told'.text
    BY <1>1, <1>4, <1>5, <1>14, <1>16 DEF ServedInv, Procs, s
  <2>4. troubles'.grants = 0 => scan'["replay"].at = "none"
    BY <1>1, <1>4, <1>15 DEF ServedInv, Procs
  <2>5. /\ Begun("daemon")' => scan'["daemon"].epoch <= epoch'
        /\ troubles'.grants = 0 /\ Reading("daemon")' /\ scan'["daemon"].epoch = epoch' =>
              scan'["daemon"].read.text >= told'.text
    BY <1>1, <1>4, <1>15 DEF ServedInv, Procs, Reading, Begun
  <2> QED  BY <2>1, <2>2, <2>3, <2>4, <2>5 DEF ServedInv
<1>19. DueInv' /\ FailedTurnIsNotForgotten'
  <2>1. CASE troubles.grants # 0
    BY <1>4, <2>1 DEF DueInv, FailedTurnIsNotForgotten
  <2>2. CASE troubles.grants = 0
    <3>1. p = "daemon" /\ s = scan["daemon"] /\ s.epoch = epoch
      BY <1>5, <2>2 DEF Procs, s
    <3>2. Coming' <=> Coming
      BY <1>4 DEF Coming
    <3>3. /\ Reading("daemon")' /\ scan'["daemon"].read.text # source'.text => Coming'
          /\ scan'["daemon"].at # "none" /\ scan'["daemon"].rev # source'.rev => Coming'
          /\ Begun("daemon")' /\ scan'["daemon"].epoch # epoch' => Coming'
      BY <1>1, <1>4, <1>15, <2>2, <3>2 DEF DueInv, Procs
    <3>4. Begun("daemon")' /\ row' # NoRow => row'.epoch = epoch'
      BY <1>4, <1>14, <3>1
    <3>5. scan'["daemon"].at = "summarizing" =>
              /\ row' # NoRow /\ SameTurn(scan["daemon"])' /\ row'.covered /\ row'.summary = 0
              /\ row'.epoch = epoch' /\ row'.validated = epoch'
      BY <1>3, <1>4, <1>9, <1>14, <3>1 DEF SameTurn, wanted
    <3>6. DueInv'
      BY <3>3, <3>4, <3>5 DEF DueInv
    <3>7. FailedTurnIsNotForgotten'
      <4> SUFFICES ASSUME source.failed, source.covered, Plain(source.turn), ~Coming,
                          ~(wanted /\ graced)
                   PROVE  (Served /\ row.text = source.text)' \/ timer' # 0
        BY <1>4, <1>9, <3>1 DEF FailedTurnIsNotForgotten, Coming
      <4>1. s.read.text = source.text /\ s.read.covered
        BY <1>1, <1>5, <1>16, <2>2, <3>1 DEF DueInv, Same, Coming
      <4>2. CASE seen.summary # 0
        BY <1>4, <1>14, <4>1, <4>2 DEF Served
      <4>3. CASE seen.summary = 0
        <5>1. wanted /\ ~graced
          BY <1>3, <1>5, <4>1, <4>3 DEF wanted
        <5>2. source.rev > 0 /\ source.rev \in Nat
          BY <1>1, <1>2 DEF SeenInv, Sources
        <5> QED  BY <1>3, <1>4, <1>5, <3>1, <5>1, <5>2 DEF wanted
      <4> QED  BY <4>2, <4>3
    <3> QED  BY <3>6, <3>7
  <2> QED  BY <2>1, <2>2
<1> QED  BY <1>12, <1>17, <1>18, <1>19 DEF TurnInv

\* What a scan may not observe it leaves; if it did not look at what is there now,
\* another one will.
LEMMA LeavesOpenKeeps ==
    ASSUME TurnInv, NEW p \in Procs, scan[p].at = "parsed", LeavesOpen(p),
           UNCHANGED <<sourceVars, news, due, epoch, told, troubles>>
    PROVE  TurnInv'
<1>1. TurnTypes /\ SeenInv /\ ServedInv /\ DueInv
  BY DEF TurnInv
<1>2. /\ UNCHANGED <<source, graced, stored, cursor, consent, news, due, timer, epoch, told, troubles>>
      /\ Done(p) /\ ~Observable(p)
      /\ \/ UNCHANGED <<row, barred>>
         \/ row' = NoRow /\ barred' = TRUE
  <2>1. CASE IsCurrent(p) /\ consent = "denied"
    BY <2>1 DEF LeavesOpen, Bars, sourceVars
  <2>2. CASE ~(IsCurrent(p) /\ consent = "denied")
    <3>1. UNCHANGED <<userVars, storeVars>>
      BY <2>2 DEF LeavesOpen
    <3> QED  BY <3>1 DEF LeavesOpen, sourceVars, userVars, storeVars
  <2> QED  BY <2>1, <2>2
<1>3. troubles' \in [grants : Nat, failures : Nat, others : Nat] /\ troubles'.grants = troubles.grants
  BY <1>1, <1>2 DEF TurnTypes
<1>4. TurnTypes' /\ SeenInv' /\ ServedInv' /\ DueInv'
  BY <1>2, <1>3, EndedScanKeeps DEF sourceVars
<1>5. FailedTurnIsNotForgotten'
  <2> SUFFICES ASSUME Plain(source.turn), MayWrite', troubles.grants = 0
               PROVE  Coming
    BY <1>2 DEF FailedTurnIsNotForgotten, Coming
  <2>1. MayWrite
    BY <1>2 DEF MayWrite
  <2>2. p = "daemon"
    BY <1>1 DEF ServedInv, Procs
  <2>3. CASE ~IsCurrent(p)
    BY <1>1, <2>2, <2>3 DEF DueInv, IsCurrent, Begun
  <2>4. CASE scan[p].rev # source.rev
    BY <1>1, <2>2, <2>4 DEF DueInv
  <2>5. CASE scan[p].read.turn \in Quotes
    BY <1>1, <2>2, <2>5 DEF DueInv, SeenInv, Same, Reading, Plain
  <2>6. CASE row # NoRow /\ row.epoch # scan[p].epoch
    BY <1>1, <2>2, <2>6 DEF DueInv, Begun
  <2> QED  BY <1>2, <2>1, <2>3, <2>4, <2>5, <2>6 DEF Observable
<1> QED  BY <1>4, <1>5 DEF TurnInv

LEMMA HasNoOpenTailKeeps ==
    ASSUME TurnInv, NEW p \in Procs, HasNoOpenTail(p)
    PROVE  TurnInv'
<1>1. TurnTypes /\ SeenInv /\ ServedInv /\ DueInv
  BY DEF TurnInv
<1>2. /\ UNCHANGED <<source, graced, stored, cursor, consent, row, barred, news, due, timer, epoch,
                      told, troubles>>
      /\ Done(p) /\ scan[p].at = "parsed" /\ ~scan[p].read.failed
  BY DEF HasNoOpenTail, sourceVars, userVars, storeVars, daemonVars
<1>3. troubles' \in [grants : Nat, failures : Nat, others : Nat] /\ troubles'.grants = troubles.grants
  BY <1>1, <1>2 DEF TurnTypes
<1>4. TurnTypes' /\ SeenInv' /\ ServedInv' /\ DueInv'
  BY <1>2, <1>3, EndedScanKeeps DEF sourceVars
<1>5. FailedTurnIsNotForgotten'
  <2> SUFFICES ASSUME source.failed, troubles.grants = 0
               PROVE  Coming
    BY <1>2 DEF FailedTurnIsNotForgotten, Coming
  <2>1. p = "daemon"
    BY <1>1, <1>2 DEF ServedInv, Procs
  <2> QED  BY <1>1, <1>2, <2>1 DEF DueInv, SeenInv, Reading
<1> QED  BY <1>4, <1>5 DEF TurnInv

\* The summary is of the text that was read, and it is staged only beside that text.
LEMMA StagesKeeps ==
    ASSUME TurnInv, NEW p \in Procs, Stages(p)
    PROVE  TurnInv'
<1>1. TurnTypes /\ SeenInv /\ ServedInv /\ DueInv
  BY DEF TurnInv
<1> DEFINE s == scan[p]
           text == s.read.text
           staged == [row EXCEPT !.summary = text]
<1>2. s \in Scans /\ row \in TurnRows /\ source \in Sources /\ text \in Nat
  BY <1>1 DEF TurnTypes, Scans, Reads
<1>3. /\ UNCHANGED <<source, graced, stored, cursor, consent, barred, news, due, timer, epoch,
                      told, troubles>>
      /\ Done(p) /\ s.at = "summarizing"
      /\ row' = IF Stageable(s) THEN staged ELSE row
  BY DEF Stages, sourceVars, userVars, daemonVars
<1>4. /\ scan' \in [Procs -> Scans] /\ scan'[p].at = "none" /\ scan'[p].rev = 0
      /\ \A q \in Procs \ {p} : scan'[q] = scan[q]
  BY <1>1, <1>3, ScanDone
<1> HIDE DEF text
<1>5. /\ staged \in TurnRows /\ staged.summary = text
      /\ staged.turn = row.turn /\ staged.text = row.text /\ staged.rev = row.rev
      /\ staged.covered = row.covered /\ staged.epoch = row.epoch /\ staged.validated = row.validated
  BY <1>2 DEF TurnRows
<1> HIDE DEF staged
<1>6. /\ row' \in TurnRows
      /\ row'.turn = row.turn /\ row'.text = row.text /\ row'.rev = row.rev
      /\ row'.covered = row.covered /\ row'.epoch = row.epoch /\ row'.validated = row.validated
      /\ row'.summary = row.summary \/ (row'.summary = row.text /\ row.covered /\ Plain(row.turn) /\ row # NoRow)
      /\ row' # NoRow => row # NoRow
  <2>1. CASE Stageable(s)
    <3>1. row # NoRow /\ row.text = text /\ row.covered
      BY <2>1 DEF Stageable, SameTurn, text
    <3>2. Plain(row.turn)
      BY <1>1, <1>3, <3>1 DEF SeenInv, Reading, Same, text
    <3> QED  BY <1>3, <1>5, <2>1, <3>1, <3>2
  <2>2. CASE ~Stageable(s)
    BY <1>2, <1>3, <2>2
  <2> QED  BY <2>1, <2>2
<1>7. TurnTypes'
  BY <1>1, <1>3, <1>4, <1>6 DEF TurnTypes
<1>8. SeenInv'
  BY <1>1, <1>2, <1>3, <1>4, <1>6 DEF SeenInv, Same, Reading, Sources
<1>9. ServedInv'
  BY <1>1, <1>3, <1>4, <1>6 DEF ServedInv, Begun, Reading, Procs
<1>10. DueInv' /\ FailedTurnIsNotForgotten'
  <2>1. CASE troubles.grants # 0
    BY <1>3, <2>1 DEF DueInv, FailedTurnIsNotForgotten
  <2>2. CASE troubles.grants = 0
    <3>1. p = "daemon" /\ s = scan["daemon"]
      BY <1>1, <1>3, <2>2 DEF ServedInv, Procs
    <3>2. DueInv'
      BY <1>4, <3>1 DEF DueInv, Begun, Reading
    <3>3. FailedTurnIsNotForgotten'
      <4> SUFFICES ASSUME source.failed, MayWrite, ~Coming
                   PROVE  (Served /\ row.text = source.text)'
        BY <1>3 DEF FailedTurnIsNotForgotten, Coming, MayWrite
      <4>1. /\ s.read.text = source.text /\ s.rev = source.rev /\ s.epoch = epoch /\ ~barred
            /\ source.text > 0 /\ source.text \in Nat
        BY <1>1, <1>2, <1>3, <2>2, <3>1 DEF DueInv, SeenInv, Coming, Reading, Begun, MayWrite, Sources
      <4>2. Stageable(s)
        BY <1>1, <1>3, <2>2, <3>1, <4>1 DEF DueInv, Stageable
      <4>3. row'.summary = source.text /\ row.text = source.text /\ row.epoch = row.validated
        BY <1>3, <1>5, <4>1, <4>2 DEF Stageable, SameTurn, text
      <4> QED  BY <1>3, <1>6, <4>1, <4>3 DEF Served
    <3> QED  BY <3>2, <3>3
  <2> QED  BY <2>1, <2>2
<1> QED  BY <1>7, <1>8, <1>9, <1>10 DEF TurnInv

\* What is counted.
LEMMA TroublesCounted ==
    ASSUME TurnTypes, NEW what \in {"grants", "failures", "others"}, Troubled(what)
    PROVE  /\ troubles' \in [grants : Nat, failures : Nat, others : Nat]
           /\ what # "grants" => troubles'.grants = troubles.grants
           /\ what = "grants" => troubles'.grants # 0
           /\ what = "failures" => troubles'.failures # 0
<1> DEFINE n == troubles[what] + 1
<1>1. /\ troubles \in [grants : Nat, failures : Nat, others : Nat] /\ n \in Nat /\ n # 0
  BY DEF TurnTypes
<1>2. troubles' = [troubles EXCEPT ![what] = n]
  BY DEF Troubled
<1> HIDE DEF n
<1>3. CASE what = "grants"
  BY <1>1, <1>2, <1>3
<1>4. CASE what = "failures"
  BY <1>1, <1>2, <1>4
<1>5. CASE what = "others"
  BY <1>1, <1>2, <1>5
<1> QED  BY <1>3, <1>4, <1>5

LEMMA ScanFailsKeeps ==
    ASSUME TurnInv, NEW p \in Procs, ScanFails(p)
    PROVE  TurnInv'
<1>1. TurnTypes
  BY DEF TurnInv
<1>2. /\ UNCHANGED <<source, graced, stored, cursor, consent, row, barred, news, due, timer, epoch, told>>
      /\ Done(p) /\ Troubled("failures")
  BY DEF ScanFails, sourceVars, userVars, storeVars, daemonVars
<1>3. /\ troubles' \in [grants : Nat, failures : Nat, others : Nat]
      /\ troubles'.grants = troubles.grants /\ troubles'.failures # 0
  BY <1>1, <1>2, TroublesCounted
<1>4. TurnTypes' /\ SeenInv' /\ ServedInv' /\ DueInv'
  BY <1>2, <1>3, EndedScanKeeps DEF sourceVars
<1>5. FailedTurnIsNotForgotten'
  BY <1>3 DEF FailedTurnIsNotForgotten
<1> QED  BY <1>4, <1>5 DEF TurnInv

LEMMA RestartsKeeps ==
    ASSUME TurnInv, Restarts
    PROVE  TurnInv'
<1>1. TurnTypes /\ SeenInv /\ ServedInv /\ DueInv
  BY DEF TurnInv
<1>2. /\ UNCHANGED <<source, graced, stored, cursor, consent, row, barred, told>>
      /\ epoch' = 0 /\ news' = FALSE /\ due' = 1 /\ timer' = 0
      /\ Done("daemon") /\ Troubled("others") /\ "daemon" \in Procs
  BY DEF Restarts, Done, Procs, sourceVars, userVars, storeVars
<1>3. /\ troubles' \in [grants : Nat, failures : Nat, others : Nat]
      /\ troubles'.grants = troubles.grants
  BY <1>1, <1>2, TroublesCounted
<1>4. /\ scan' \in [Procs -> Scans] /\ scan'["daemon"].at = "none" /\ scan'["daemon"].rev = 0
      /\ \A q \in Procs \ {"daemon"} : scan'[q] = scan[q]
  BY <1>1, <1>2, ScanDone
<1>5. TurnTypes'
  BY <1>1, <1>2, <1>3, <1>4 DEF TurnTypes
<1>6. SeenInv'
  BY <1>1, <1>2, <1>4 DEF SeenInv, TurnTypes, Sources, Reading
<1>7. ServedInv'
  BY <1>1, <1>2, <1>3, <1>4 DEF ServedInv, Begun, Reading, Procs
<1>8. DueInv' /\ FailedTurnIsNotForgotten'
  BY <1>2, <1>4 DEF DueInv, FailedTurnIsNotForgotten, Begun, Reading
<1> QED  BY <1>5, <1>6, <1>7, <1>8 DEF TurnInv

\* What the user decides; a chat that is barred loses its row.
LEMMA UserKeeps ==
    ASSUME TurnInv, UserSteps
    PROVE  TurnInv'
<1>1. TurnTypes /\ SeenInv /\ ServedInv /\ DueInv /\ FailedTurnIsNotForgotten
  BY DEF TurnInv
<1>2. ASSUME NEW decision \in {"pending", "denied"}, Decides(decision)
      PROVE  TurnInv'
  <2>1. /\ UNCHANGED <<source, graced, barred, stored, cursor, row, news, due, timer, epoch, scan, told>>
        /\ consent' = decision /\ Troubled("others")
    BY <1>2 DEF Decides, sourceVars, storeVars, daemonVars
  <2>2. /\ troubles' \in [grants : Nat, failures : Nat, others : Nat]
        /\ troubles'.grants = troubles.grants
    BY <1>1, <2>1, TroublesCounted
  <2>3. TurnTypes'
    BY <1>1, <2>1, <2>2 DEF TurnTypes
  <2>4. SeenInv' /\ ServedInv'
    BY <1>1, <2>1, <2>2 DEF SeenInv, ServedInv, Begun, Reading
  <2>5. DueInv'
    BY <1>1, <2>1, <2>2 DEF DueInv, Coming, Begun, Reading, SameTurn
  <2>6. FailedTurnIsNotForgotten'
    BY <1>2, <2>1 DEF FailedTurnIsNotForgotten, MayWrite
  <2> QED  BY <2>3, <2>4, <2>5, <2>6 DEF TurnInv
<1>3. CASE Grants
  <2>1. /\ UNCHANGED <<source, graced, barred, stored, cursor, row, news, due, timer, epoch, told>>
        /\ scan["replay"].at = "none"
        /\ scan' = [scan EXCEPT !["replay"].at = "started"] /\ Troubled("grants")
    BY <1>3 DEF Grants, sourceVars, storeVars, daemonVars
  <2>2. /\ troubles' \in [grants : Nat, failures : Nat, others : Nat] /\ troubles'.grants # 0
    BY <1>1, <2>1, TroublesCounted
  <2>3. /\ scan' \in [Procs -> Scans] /\ scan'["replay"].at = "started"
        /\ scan'["replay"].rev = scan["replay"].rev /\ scan'["daemon"] = scan["daemon"]
    BY <1>1, <2>1 DEF TurnTypes, Scans, Procs
  <2>4. TurnTypes'
    BY <1>1, <2>1, <2>2, <2>3 DEF TurnTypes
  <2>5. SeenInv'
    BY <1>1, <2>1, <2>3 DEF SeenInv, Reading, Procs
  <2>6. ServedInv'
    BY <1>1, <2>1, <2>2, <2>3 DEF ServedInv, Begun, Reading
  <2>7. DueInv' /\ FailedTurnIsNotForgotten'
    BY <2>2 DEF DueInv, FailedTurnIsNotForgotten
  <2> QED  BY <2>4, <2>5, <2>6, <2>7 DEF TurnInv
<1>4. CASE IsBarred
  <2>1. /\ UNCHANGED <<source, graced, consent, stored, cursor, news, due, timer, epoch, scan, told>>
        /\ barred' = TRUE /\ row' = NoRow /\ Troubled("others")
    BY <1>4 DEF IsBarred, Bars, sourceVars, daemonVars
  <2>2. /\ troubles' \in [grants : Nat, failures : Nat, others : Nat]
        /\ troubles'.grants = troubles.grants
    BY <1>1, <2>1, TroublesCounted
  <2>3. NoRow \in TurnRows /\ NoRow.summary = 0
    BY DEF NoRow, TurnRows
  <2>4. TurnTypes'
    BY <1>1, <2>1, <2>2, <2>3 DEF TurnTypes
  <2>5. SeenInv' /\ ServedInv'
    BY <1>1, <2>1, <2>2, <2>3 DEF SeenInv, ServedInv, Begun, Reading
  <2>6. DueInv' /\ FailedTurnIsNotForgotten'
    BY <1>1, <2>1, <2>2 DEF DueInv, FailedTurnIsNotForgotten, MayWrite, Coming, Begun, Reading
  <2> QED  BY <2>4, <2>5, <2>6 DEF TurnInv
<1> QED  BY <1>2, <1>3, <1>4 DEF UserSteps

\* Every step keeps the invariant, if a scan that is asked for can be due at all.
LEMMA TurnStep ==
    ASSUME TurnInv, [OpenTurnNext]_openTurnVars, MaxDue \in Nat \ {0}
    PROVE  TurnInv'
<1>1. TurnTypes
  BY DEF TurnInv
<1>2. CASE HandlesEvent
  <2>1. due' \in Nat \ {0}
    BY <1>1, <1>2, MoreIsDue DEF HandlesEvent
  <2> QED  BY <1>2, <2>1, InvalidationKeeps DEF HandlesEvent
<1>3. CASE OpenTurnTimerFires
  <2>1. /\ due' \in Nat \ {0} /\ timer' = 0
        /\ UNCHANGED <<source, graced, consent, barred, stored, cursor, row, news, epoch, scan, told, troubles>>
    BY <1>1, <1>3, MoreIsDue DEF OpenTurnTimerFires, sourceVars, userVars, storeVars
  <2>2. TurnTypes'
    BY <1>1, <2>1 DEF TurnTypes
  <2>3. SeenInv' /\ ServedInv'
    BY <2>1 DEF TurnInv, SeenInv, ServedInv, Begun, Reading
  <2>4. DueInv' /\ FailedTurnIsNotForgotten'
    BY <2>1 DEF TurnInv, DueInv, FailedTurnIsNotForgotten, Coming, Begun, Reading, SameTurn
  <2> QED  BY <2>2, <2>3, <2>4 DEF TurnInv
<1>4. CASE Collides
  <2>1. due' \in Nat \ {0} /\ timer' \in Nat /\ news' \in BOOLEAN
    BY <1>1, <1>4 DEF TurnTypes, Collides
  <2>2. UNCHANGED <<sourceVars, userVars, stored, cursor, scan, troubles>>
    BY <1>4 DEF Collides
  <2> QED  BY <1>4, <2>1, <2>2, InvalidationKeeps DEF Collides
<1>5. ASSUME NEW p \in Procs, HandlesOpenTail(p)
      PROVE  TurnInv'
  <2>1. /\ scan[p].at = "parsed" /\ scan[p].read.failed
        /\ Observes(p) \/ LeavesOpen(p)
        /\ UNCHANGED <<sourceVars, news, due, epoch, told, troubles>>
    BY <1>5 DEF HandlesOpenTail
  <2> QED  BY <2>1, ObservesKeeps, LeavesOpenKeeps
<1>6. CASE UNCHANGED openTurnVars
  <2>1. UNCHANGED <<source, graced, consent, barred, stored, cursor, row, news, due, timer, epoch, scan,
                    told, troubles>>
    BY <1>6 DEF openTurnVars, sourceVars, userVars, storeVars, daemonVars
  <2>2. TurnTypes' /\ SeenInv' /\ ServedInv'
    BY <2>1 DEF TurnInv, TurnTypes, SeenInv, ServedInv, Begun, Reading
  <2>3. DueInv' /\ FailedTurnIsNotForgotten'
    BY <2>1 DEF TurnInv, DueInv, FailedTurnIsNotForgotten, Served, MayWrite, Coming, Begun, Reading, SameTurn
  <2> QED  BY <2>2, <2>3 DEF TurnInv
<1> QED  BY <1>2, <1>3, <1>4, <1>5, <1>6, ProviderKeeps, UserKeeps, RestartsKeeps, OpensKeeps, BeginsKeeps,
            RefusesKeeps, ParsesKeeps, StoresKeeps, HasNoOpenTailKeeps, StagesKeeps, ScanFailsKeeps
         DEF OpenTurnNext, ScanSteps

LEMMA SnapshotFollows ==
    ASSUME TurnInv
    PROVE  SnapshotIsOfTheTurn
<1>1. NoRow.summary = 0
  BY DEF NoRow
<1> QED  BY <1>1 DEF TurnInv, SeenInv, ServedInv, SnapshotIsOfTheTurn, Served

\* What is served of an open turn is a summary of the text its row describes, of a
\* turn that is neither closed nor barred, and no older than what a file event or a
\* scan noticed last (open-turn-store.ts: a row is served only while its two epochs
\* are the same, and every process that reads the file again parts them first).
THEOREM SnapshotIsOfTheTurnHolds ==
    ASSUME MaxTurns \in Nat, MaxDue \in Nat \ {0}
    PROVE  OpenTurnSpec => []SnapshotIsOfTheTurn
<1>1. OpenTurnInit => TurnInv
  BY TurnStarts
<1>2. TurnInv /\ [OpenTurnNext]_openTurnVars => TurnInv'
  BY TurnStep
<1>3. TurnInv => SnapshotIsOfTheTurn
  BY SnapshotFollows
<1> QED  BY <1>1, <1>2, <1>3, PTL DEF OpenTurnSpec

\* Whatever event, collision, grace or restart comes in between, a turn that failed
\* is served or the daemon has a reason to look at it again (daemon/index.ts:
\* handleOpenTail and the idle timer), if no scan failed and no replay took it over.
THEOREM FailedTurnIsNotForgottenHolds ==
    ASSUME MaxTurns \in Nat, MaxDue \in Nat \ {0}
    PROVE  OpenTurnSpec => []FailedTurnIsNotForgotten
<1>1. OpenTurnInit => TurnInv
  BY TurnStarts
<1>2. TurnInv /\ [OpenTurnNext]_openTurnVars => TurnInv'
  BY TurnStep
<1>3. TurnInv => FailedTurnIsNotForgotten
  BY DEF TurnInv
<1> QED  BY <1>1, <1>2, <1>3, PTL DEF OpenTurnSpec

------------------------------------------------------------------------------
\* A parse of a transcript (Source), record by record.
ParseOf(p, c, end) ==
    p = [i \in c.at..end |-> IF i = c.at THEN S!Resumed(c) ELSE S!Read(p[i - 1], i)]

LEMMA ParsedIsChosen ==
    ASSUME NEW c, NEW end
    PROVE  S!Parsed(c, end) = (CHOOSE p : ParseOf(p, c, end))[end]
BY DEF S!Parsed, ParseOf

LEMMA ParsesAgree ==
    ASSUME NEW c, c.at \in Nat, NEW m \in Nat, NEW n \in Nat, m <= n,
           NEW p, ParseOf(p, c, m), NEW q, ParseOf(q, c, n)
    PROVE  \A i \in c.at..m : p[i] = q[i]
<1> DEFINE Good == {k \in Nat : c.at + k <= m => p[c.at + k] = q[c.at + k]}
<1>1. 0 \in Good
  BY DEF ParseOf
<1>2. ASSUME NEW k \in Nat, k \in Good
      PROVE  k + 1 \in Good
  <2> SUFFICES ASSUME c.at + (k + 1) <= m
               PROVE  p[c.at + (k + 1)] = q[c.at + (k + 1)]
    OBVIOUS
  <2> DEFINE i == c.at + (k + 1)
  <2>1. i - 1 = c.at + k /\ i \in c.at..m /\ i \in c.at..n /\ i # c.at
    OBVIOUS
  <2>2. p[c.at + k] = q[c.at + k]
    BY <1>2
  <2> HIDE DEF i
  <2>3. p[i] = S!Read(p[i - 1], i) /\ q[i] = S!Read(q[i - 1], i)
    BY <2>1 DEF ParseOf
  <2>4. p[i] = q[i]
    BY <2>1, <2>2, <2>3
  <2> QED  BY <2>4 DEF i
<1>3. \A k \in Nat : k \in Good
  <2> HIDE DEF Good
  <2> QED  BY <1>1, <1>2, UpwardInduction
<1> SUFFICES ASSUME NEW i \in c.at..m PROVE p[i] = q[i]
  OBVIOUS
<1>4. i - c.at \in Nat /\ c.at + (i - c.at) = i
  OBVIOUS
<1> QED  BY <1>3, <1>4

LEMMA ParseExists ==
    ASSUME NEW c, c.at \in Nat
    PROVE  \A n \in Nat : \E p : ParseOf(p, c, n)
<1> DEFINE Good == {n \in Nat : \E p : ParseOf(p, c, n)}
<1>1. ASSUME NEW n \in Nat, n <= c.at
      PROVE  n \in Good
  <2>1. ParseOf([i \in c.at..n |-> S!Resumed(c)], c, n)
    <3>1. [i \in c.at..n |-> S!Resumed(c)]
            = [i \in c.at..n |-> IF i = c.at THEN S!Resumed(c)
                                 ELSE S!Read([j \in c.at..n |-> S!Resumed(c)][i - 1], i)]
      BY <1>1
    <3> QED  BY <3>1 DEF ParseOf
  <2> QED  BY <2>1
<1>2. ASSUME NEW n \in Nat, n \in Good
      PROVE  n + 1 \in Good
  <2>1. CASE n + 1 <= c.at
    BY <1>1, <2>1
  <2>2. CASE n + 1 > c.at
    <3>1. PICK p : ParseOf(p, c, n)
      BY <1>2
    <3> DEFINE q == [i \in c.at..(n + 1) |-> IF i = n + 1 THEN S!Read(p[n], n + 1) ELSE p[i]]
               r == [i \in c.at..(n + 1) |-> IF i = c.at THEN S!Resumed(c)
                                             ELSE S!Read(q[i - 1], i)]
    <3>2. ASSUME NEW i \in c.at..(n + 1)
          PROVE  q[i] = r[i]
      <4>1. CASE i = n + 1
        <5>1. i # c.at /\ i - 1 = n /\ n \in c.at..(n + 1) /\ n # n + 1
          BY <2>2, <4>1
        <5>2. q[i - 1] = p[n]
          BY <5>1
        <5> QED  BY <4>1, <5>1, <5>2
      <4>2. CASE i # n + 1
        <5>1. i \in c.at..n
          BY <4>2
        <5>2. CASE i = c.at
          BY <3>1, <4>2, <5>1, <5>2 DEF ParseOf
        <5>3. CASE i # c.at
          <6>1. i - 1 \in c.at..(n + 1) /\ i - 1 # n + 1
            BY <5>1, <5>3
          <6>2. q[i - 1] = p[i - 1]
            BY <6>1
          <6>3. p[i] = S!Read(p[i - 1], i)
            BY <3>1, <5>1, <5>3 DEF ParseOf
          <6> QED  BY <4>2, <5>3, <6>2, <6>3
        <5> QED  BY <5>2, <5>3
      <4> QED  BY <4>1, <4>2
    <3>3. q = r
      <4>1. q = [i \in c.at..(n + 1) |-> q[i]] /\ r = [i \in c.at..(n + 1) |-> r[i]]
        OBVIOUS
      <4> HIDE DEF q, r
      <4> QED  BY <3>2, <4>1
    <3>4. ParseOf(q, c, n + 1)
      <4> HIDE DEF q
      <4> QED  BY <3>3 DEF ParseOf
    <3> QED  BY <3>4
  <2> QED  BY <2>1, <2>2
<1>3. 0 \in Good
  BY <1>1
<1>4. \A n \in Nat : n \in Good
  <2> HIDE DEF Good
  <2> QED  BY <1>2, <1>3, UpwardInduction
<1> QED  BY <1>4

\* So a parse starts where the cursor says, and goes on record by record.
LEMMA ParsedSteps ==
    ASSUME NEW c, c.at \in Nat
    PROVE  /\ S!Parsed(c, c.at) = S!Resumed(c)
           /\ \A n \in Nat : n >= c.at => S!Parsed(c, n + 1) = S!Read(S!Parsed(c, n), n + 1)
<1>1. S!Parsed(c, c.at) = S!Resumed(c)
  <2> DEFINE p == CHOOSE p : ParseOf(p, c, c.at)
  <2>1. ParseOf(p, c, c.at)
    BY ParseExists
  <2> HIDE DEF p
  <2>2. p[c.at] = S!Resumed(c)
    BY <2>1 DEF ParseOf
  <2> QED  BY <2>2, ParsedIsChosen DEF p
<1>2. ASSUME NEW n \in Nat, n >= c.at
      PROVE  S!Parsed(c, n + 1) = S!Read(S!Parsed(c, n), n + 1)
  <2> DEFINE p == CHOOSE p : ParseOf(p, c, n)
             q == CHOOSE q : ParseOf(q, c, n + 1)
  <2>1. ParseOf(p, c, n) /\ ParseOf(q, c, n + 1)
    <3>1. n + 1 \in Nat
      OBVIOUS
    <3> QED  BY <3>1, ParseExists
  <2>2. S!Parsed(c, n) = p[n] /\ S!Parsed(c, n + 1) = q[n + 1]
    BY ParsedIsChosen
  <2> HIDE DEF p, q
  <2>3. p[n] = q[n]
    BY <1>2, <2>1, ParsesAgree
  <2>4. q[n + 1] = S!Read(q[(n + 1) - 1], n + 1)
    BY <1>2, <2>1 DEF ParseOf
  <2> QED  BY <2>2, <2>3, <2>4
<1> QED  BY <1>1, <1>2

\* What a parse works on, and what it hands on.
Entries == [kind : {"header", "start", "user", "output", "answer", "finish", "abort", "fail"}
                     \union S!Content,
            id : Nat, file : BOOLEAN]
Cursors == [at : Nat, next : Nat, mark : BOOLEAN, context : Nat]
OpenTurns == [from : Nat, last : Nat, header : Nat, text : BOOLEAN, tools : Nat, asked : Nat,
              answered : BOOLEAN, started : BOOLEAN, id : Nat, finished : BOOLEAN,
              aborted : BOOLEAN, failed : BOOLEAN]
CutTurns  == [from : Nat, last : Nat, header : Nat, index : Nat, file : BOOLEAN,
              dropped : BOOLEAN, swallowed : BOOLEAN]
ParseStates == [turn : OpenTurns, pending : Nat, pendingAt : Nat, header : Nat,
                committed : Nat, noted : {X \in SUBSET Nat : IsFiniteSet(X)},
                out : Seq(CutTurns), cursor : Cursors, halted : BOOLEAN]

\* Between two records of the file, one asked Elepha.
Asked(from, last) == \E i \in from..last : lines[i].kind = "ask"

\* A turn that was cut lies behind the cursor of the scan and in front of the next one; its
\* file is the one it was read from; and it is withheld when it asked.
IsCut(t, after, upto) ==
    /\ after < t.from /\ t.from <= t.last /\ t.last <= upto
    /\ t.file = lines[t.from].file
    /\ Asked(t.from, t.last) => t.dropped

\* After i records.  A start marker that is still pending was read behind the open turn.
TurnAhead(s, i) ==
    /\ s.turn.from # 0 =>
          /\ s.cursor.at < s.turn.from /\ s.turn.from <= s.turn.last /\ s.turn.last <= i
          /\ s.pending # 0 => s.turn.last < s.pendingAt
          /\ Asked(s.turn.from, i) => s.turn.asked > 0 \/ s.turn.answered \/ s.halted
    /\ s.pending # 0 => s.pendingAt <= i

OutInv(s, c, i) ==
    /\ c.at <= s.cursor.at /\ s.cursor.at <= i
    /\ IF s.out = <<>> THEN s.cursor = c
       ELSE s.cursor.at > c.at /\ s.cursor.mark = lines[s.cursor.at].file
    /\ \A k \in DOMAIN s.out : IsCut(s.out[k], c.at, s.cursor.at)

ParsedInv(s, c, i) == s \in ParseStates /\ TurnAhead(s, i) /\ OutInv(s, c, i)

LEMMA StateTypes ==
    ASSUME NEW s \in ParseStates
    PROVE  /\ s.turn \in OpenTurns /\ s.out \in Seq(CutTurns) /\ s.cursor \in Cursors
           /\ s.pending \in Nat /\ s.pendingAt \in Nat /\ s.header \in Nat
           /\ s.committed \in Nat
           /\ s.turn.from \in Nat /\ s.turn.last \in Nat /\ s.turn.header \in Nat
           /\ s.turn.asked \in Nat /\ s.turn.answered \in BOOLEAN
           /\ s.cursor.at \in Nat /\ s.cursor.next \in Nat
<1>1. /\ s.turn \in OpenTurns /\ s.out \in Seq(CutTurns) /\ s.cursor \in Cursors
      /\ s.pending \in Nat /\ s.pendingAt \in Nat /\ s.header \in Nat /\ s.committed \in Nat
  BY DEF ParseStates
<1>2. \A t \in OpenTurns : /\ t.from \in Nat /\ t.last \in Nat /\ t.header \in Nat
                           /\ t.asked \in Nat /\ t.answered \in BOOLEAN
  BY DEF OpenTurns
<1>3. \A c \in Cursors : c.at \in Nat /\ c.next \in Nat
  BY DEF Cursors
<1> QED  BY <1>1, <1>2, <1>3

LEMMA CursorTypes == \A c \in Cursors : c.at \in Nat
BY DEF Cursors

LEMMA LineRead ==
    ASSUME lines \in Seq(Entries), NEW i \in 1..Len(lines)
    PROVE  lines[i] \in Entries /\ lines[i].file \in BOOLEAN
<1>1. lines[i] \in Entries
  OBVIOUS
<1> QED  BY <1>1 DEF Entries

LEMMA LastInSet ==
    ASSUME NEW X \in SUBSET Nat, IsFiniteSet(X)
    PROVE  S!LastIn(X) \in Nat
<1>1. CASE X = {}
  BY <1>1 DEF S!LastIn
<1>2. CASE X # {}
  <2>1. Max(X) \in X /\ \A y \in X : y <= Max(X)
    <3>1. X \in SUBSET Int
      OBVIOUS
    <3> QED  BY <1>2, <3>1, MaxOfFinite
  <2> QED  BY <1>2, <2>1 DEF S!LastIn
<1> QED  BY <1>1, <1>2

LEMMA HeaderNoted ==
    ASSUME NEW s \in ParseStates, NEW i \in Nat
    PROVE  LET u == S!NotesHeader(s, i) IN
           /\ u \in ParseStates
           /\ u.turn = s.turn /\ u.pending = s.pending /\ u.pendingAt = s.pendingAt
           /\ u.out = s.out /\ u.cursor = s.cursor /\ u.halted = s.halted
<1> DEFINE cutoff == IF s.pending # 0 THEN s.pendingAt ELSE i
           before == {h \in s.noted : h < cutoff}
           noted  == {i} \union (IF before = {} THEN {} ELSE {S!LastIn(before)})
<1>1. before \in SUBSET Nat /\ IsFiniteSet(before)
  BY FS_Subset DEF ParseStates
<1>2. noted \in SUBSET Nat /\ IsFiniteSet(noted)
  <2>1. S!LastIn(before) \in Nat
    BY <1>1, LastInSet
  <2>2. IsFiniteSet({i}) /\ IsFiniteSet({S!LastIn(before)}) /\ IsFiniteSet({})
    BY FS_Singleton, FS_EmptySet
  <2> HIDE DEF before
  <2> QED  BY <2>1, <2>2, FS_Union
<1>3. S!NotesHeader(s, i) = IF lines[i].kind # "header" THEN s
                            ELSE [s EXCEPT !.header = i, !.noted = noted]
  BY DEF S!NotesHeader
<1> HIDE DEF noted
<1> QED  BY ZenonT(40), <1>2, <1>3 DEF ParseStates

LEMMA SignalRead ==
    ASSUME NEW s \in ParseStates, NEW i \in Nat, lines[i] \in Entries
    PROVE  LET u == S!Signalled(s, i) IN
           /\ u \in ParseStates
           /\ u.turn.from = s.turn.from /\ u.turn.last = s.turn.last
           /\ u.turn.asked = s.turn.asked /\ u.turn.answered = s.turn.answered
           /\ u.out = s.out /\ u.cursor = s.cursor /\ u.halted = s.halted
           /\ \/ u.pending = 0
              \/ u.pending = s.pending /\ u.pendingAt = s.pendingAt
              \/ u.pendingAt = i /\ lines[i].kind = "start"
<1> DEFINE r     == lines[i]
           pends == s.pending # 0 /\ s.pending = r.id
           rest  == IF pends THEN 0 ELSE s.pending
           ended(finished, aborted, failed) ==
               [s.turn EXCEPT !.started = TRUE, !.id = r.id, !.finished = finished,
                              !.aborted = aborted, !.failed = failed]
           marked(finished, aborted, failed) ==
               [s EXCEPT !.turn = ended(finished, aborted, failed), !.pending = rest]
<1>1. /\ s.turn \in OpenTurns /\ r.id \in Nat /\ s.pending \in Nat
      /\ rest \in Nat /\ (rest = 0 \/ rest = s.pending)
  BY DEF ParseStates, Entries
<1>2. ASSUME NEW f \in BOOLEAN, NEW a \in BOOLEAN, NEW d \in BOOLEAN
      PROVE  /\ ended(f, a, d) \in OpenTurns
             /\ ended(f, a, d).from = s.turn.from /\ ended(f, a, d).last = s.turn.last
             /\ ended(f, a, d).asked = s.turn.asked
             /\ ended(f, a, d).answered = s.turn.answered
  BY ZenonT(40), <1>1 DEF OpenTurns
<1>3. \/ S!Signalled(s, i) = s
      \/ r.kind = "start" /\ S!Signalled(s, i) = [s EXCEPT !.pending = r.id, !.pendingAt = i]
      \/ S!Signalled(s, i) = marked(FALSE, FALSE, TRUE)
      \/ S!Signalled(s, i) = marked(TRUE, r.kind = "abort", FALSE)
  BY ZenonT(40) DEF S!Signalled
<1>4. CASE S!Signalled(s, i) = s
  BY <1>4
<1>5. CASE r.kind = "start" /\ S!Signalled(s, i) = [s EXCEPT !.pending = r.id, !.pendingAt = i]
  BY <1>1, <1>5 DEF ParseStates
<1>6. ASSUME NEW f \in BOOLEAN, NEW a \in BOOLEAN, NEW d \in BOOLEAN,
             S!Signalled(s, i) = marked(f, a, d)
      PROVE  LET u == S!Signalled(s, i) IN
             /\ u \in ParseStates /\ u.turn = ended(f, a, d)
             /\ u.out = s.out /\ u.cursor = s.cursor /\ u.halted = s.halted
             /\ u.pending = rest /\ u.pendingAt = s.pendingAt
  <2>1. ended(f, a, d) \in OpenTurns
    BY ZenonT(40), <1>2
  <2> HIDE DEF ended, rest
  <2> QED  BY <1>1, <1>6, <2>1 DEF ParseStates
<1>7. (r.kind = "abort") \in BOOLEAN
  OBVIOUS
<1> HIDE DEF ended, marked, rest, pends, r
<1> QED  BY ZenonT(40), <1>1, <1>2, <1>3, <1>4, <1>5, <1>6, <1>7

LEMMA RetryRead ==
    ASSUME NEW s \in ParseStates, NEW i \in Nat
    PROVE  LET u == S!Retried(s, i) IN
           /\ u \in ParseStates
           /\ u.turn.from = s.turn.from /\ u.turn.last = s.turn.last
           /\ u.turn.asked = s.turn.asked /\ u.turn.answered = s.turn.answered
           /\ u.out = s.out /\ u.cursor = s.cursor /\ u.halted = s.halted
           /\ u.pendingAt = s.pendingAt /\ (u.pending = 0 \/ u.pending = s.pending)
           /\ s.turn.from # 0 /\ lines[i].kind \in S!Content => u.pending = 0
<1> DEFINE t == [s.turn EXCEPT !.started = TRUE, !.id = s.pending, !.finished = FALSE,
                               !.aborted = FALSE, !.failed = FALSE]
           u == [s EXCEPT !.turn = t, !.pending = 0]
<1>1. s.turn \in OpenTurns /\ s.pending \in Nat
  BY DEF ParseStates
<1>2. S!Retried(s, i) = IF s.pending # 0 /\ s.turn.from # 0 /\ lines[i].kind \in S!Content
                        THEN u ELSE s
  BY DEF S!Retried
<1>3. /\ t \in OpenTurns /\ t.from = s.turn.from /\ t.last = s.turn.last
      /\ t.asked = s.turn.asked /\ t.answered = s.turn.answered
  BY <1>1 DEF OpenTurns
<1> HIDE DEF t
<1>4. /\ u \in ParseStates /\ u.turn = t /\ u.pending = 0
      /\ u.pendingAt = s.pendingAt
      /\ u.out = s.out /\ u.cursor = s.cursor /\ u.halted = s.halted
  BY <1>3 DEF ParseStates
<1> HIDE DEF u
<1> QED  BY <1>2, <1>3, <1>4

LEMMA CallsObserved ==
    ASSUME NEW s \in ParseStates, NEW i \in Nat
    PROVE  LET u == S!Observed(s, i) IN
           /\ u \in ParseStates
           /\ u.turn.from = s.turn.from /\ u.turn.last = s.turn.last
           /\ u.out = s.out /\ u.cursor = s.cursor /\ u.halted = s.halted
           /\ u.pendingAt = s.pendingAt /\ u.pending = s.pending
           /\ s.turn.from # 0 /\ (s.turn.asked > 0 \/ s.turn.answered \/ lines[i].kind = "ask")
                => u.turn.asked > 0 \/ u.turn.answered
<1> DEFINE k     == lines[i].kind
           tools == IF k \in {"call", "ask"} THEN s.turn.tools + 1 ELSE s.turn.tools
           asked == IF k = "ask" THEN s.turn.asked + 1 ELSE s.turn.asked
           left  == IF k \in {"output", "answer"} /\ tools > 0 THEN tools - 1 ELSE tools
           open  == IF k = "answer" /\ asked > 0 THEN asked - 1 ELSE asked
           known  == s.turn.answered \/ (k = "answer" /\ asked > 0)
           t == [s.turn EXCEPT !.tools = tools, !.asked = asked]
           r == [t EXCEPT !.tools = left, !.asked = open, !.answered = known]
<1>1. s.turn \in OpenTurns /\ s.turn.tools \in Nat /\ s.turn.asked \in Nat
  BY DEF ParseStates, OpenTurns
<1>2. tools \in Nat /\ asked \in Nat /\ left \in Nat /\ open \in Nat /\ known \in BOOLEAN
  BY <1>1 DEF OpenTurns
<1>3. s.turn.asked > 0 \/ s.turn.answered \/ k = "ask" => open > 0 \/ known
  BY <1>1
<1>4. S!Observed(s, i) = IF s.turn.from = 0 THEN s ELSE [s EXCEPT !.turn = r]
  <2>1. S!Registers(s.turn, k) = t
    BY DEF S!Registers
  <2>2. t.tools = tools /\ t.asked = asked /\ t.answered = s.turn.answered
    <3> HIDE DEF tools, asked
    <3> QED  BY <1>1 DEF OpenTurns
  <2>3. S!Records(t, k) = r
    <3> HIDE DEF tools, asked, t
    <3> QED  BY <2>2 DEF S!Records
  <2> QED  BY <2>1, <2>3 DEF S!Observed
<1> HIDE DEF tools, asked, left, open, known, k
<1>5. /\ r \in OpenTurns /\ r.from = s.turn.from /\ r.last = s.turn.last
      /\ r.asked = open /\ r.answered = known
  BY <1>1, <1>2 DEF OpenTurns
<1> HIDE DEF r
<1> QED  BY <1>3, <1>4, <1>5 DEF ParseStates, k

LEMMA ContextNoted ==
    ASSUME NEW s \in ParseStates, NEW end \in Nat
    PROVE  LET u == S!ContextAt(s, end) IN
           /\ u \in ParseStates
           /\ u.turn = s.turn /\ u.pending = s.pending /\ u.pendingAt = s.pendingAt
           /\ u.out = s.out /\ u.cursor = s.cursor /\ u.halted = s.halted
<1> DEFINE behind == {h \in s.noted : h <= end}
           last   == IF behind = {} THEN s.committed ELSE S!LastIn(behind)
           rest   == s.noted \ behind
<1>1. behind \in SUBSET Nat /\ IsFiniteSet(behind) /\ rest \in SUBSET Nat /\ IsFiniteSet(rest)
  BY FS_Subset DEF ParseStates
<1>2. last \in Nat
  <2> HIDE DEF behind
  <2> QED  BY <1>1, LastInSet DEF ParseStates
<1>3. S!ContextAt(s, end) = [s EXCEPT !.committed = last, !.noted = rest]
  BY DEF S!ContextAt
<1> HIDE DEF last, rest
<1> QED  BY <1>1, <1>2, <1>3 DEF ParseStates

\* A turn that can be cut at the end, and what is left of the state when it was.
Cuttable(s, c, end) ==
    /\ c.at <= s.cursor.at /\ s.cursor.at < s.turn.from /\ s.turn.from <= s.turn.last
    /\ s.turn.last <= end /\ end <= Len(lines)
    /\ Asked(s.turn.from, s.turn.last) => s.turn.asked > 0 \/ s.turn.answered
    /\ \A k \in DOMAIN s.out : IsCut(s.out[k], c.at, s.cursor.at)

CutOff(y, s, c, end) ==
    /\ y \in ParseStates /\ y.turn = s.turn
    /\ y.pending = s.pending /\ y.pendingAt = s.pendingAt
    /\ s.turn.asked > 0 => y.halted /\ y.out = s.out /\ y.cursor = s.cursor
    /\ s.turn.asked = 0 =>
          /\ y.out # <<>> /\ y.cursor.at = end /\ y.cursor.mark = lines[end].file
          /\ \A k \in DOMAIN y.out : IsCut(y.out[k], c.at, end)

LEMMA TurnCut ==
    ASSUME lines \in Seq(Entries), NEW s \in ParseStates, NEW c \in Cursors, NEW end \in Nat,
           NEW idle \in BOOLEAN, Cuttable(s, c, end)
    PROVE  CutOff(S!Yields(s, end, idle), s, c, end)
<1>0. /\ c.at <= s.cursor.at /\ s.cursor.at < s.turn.from /\ s.turn.from <= s.turn.last
      /\ s.turn.last <= end /\ end <= Len(lines)
      /\ Asked(s.turn.from, s.turn.last) => s.turn.asked > 0 \/ s.turn.answered
      /\ \A k \in DOMAIN s.out : IsCut(s.out[k], c.at, s.cursor.at)
  BY DEF Cuttable
<1>1. s.turn \in OpenTurns /\ s.turn.asked \in Nat /\ s.out \in Seq(CutTurns)
  BY StateTypes
<1>2. CASE s.turn.asked > 0
  <2> DEFINE u == [s EXCEPT !.halted = TRUE]
  <2>1. S!Yields(s, end, idle) = u
    BY <1>2 DEF S!Yields
  <2>2. /\ u \in ParseStates /\ u.turn = s.turn /\ u.pending = s.pending
        /\ u.pendingAt = s.pendingAt /\ u.halted /\ u.out = s.out /\ u.cursor = s.cursor
    BY DEF ParseStates
  <2> HIDE DEF u
  <2> QED  BY <1>1, <1>2, <2>1, <2>2 DEF CutOff
<1>3. CASE s.turn.asked = 0
  <2> DEFINE u == S!ContextAt(s, end)
             t == [from |-> s.turn.from, last |-> s.turn.last, header |-> s.turn.header,
                   index |-> s.cursor.next, file |-> lines[s.turn.from].file,
                   dropped |-> s.turn.answered, swallowed |-> idle /\ s.pending # 0]
             next == [at |-> end, next |-> s.cursor.next + 1, mark |-> lines[end].file,
                      context |-> u.committed]
  <2>1. /\ u \in ParseStates /\ u.turn = s.turn /\ u.pending = s.pending
        /\ u.pendingAt = s.pendingAt /\ u.out = s.out /\ u.halted = s.halted
    BY ContextNoted
  <2>2. /\ s.turn.from \in 1..Len(lines) /\ end \in 1..Len(lines)
        /\ s.cursor.next \in Nat /\ c.at \in Nat /\ s.cursor.at \in Nat
        /\ s.turn.from \in Nat /\ s.turn.last \in Nat /\ s.turn.header \in Nat
        /\ s.turn.answered \in BOOLEAN
    <3>1. /\ s.cursor.next \in Nat /\ c.at \in Nat /\ s.cursor.at \in Nat
          /\ s.turn.from \in Nat /\ s.turn.last \in Nat /\ s.turn.header \in Nat
          /\ s.turn.answered \in BOOLEAN /\ Len(lines) \in Nat
      BY StateTypes, CursorTypes
    <3> HIDE DEF u, t, next
    <3> QED  BY SMTT(30), <1>0, <3>1
  <2>3. t \in CutTurns
    <3>1. lines[s.turn.from].file \in BOOLEAN
      BY <2>2, LineRead
    <3>2. (idle /\ s.pending # 0) \in BOOLEAN
      OBVIOUS
    <3> QED  BY <2>2, <3>1, <3>2 DEF CutTurns
  <2>4. next \in Cursors
    <3>1. lines[end].file \in BOOLEAN /\ u.committed \in Nat
      <4> HIDE DEF u
      <4> QED  BY <2>1, <2>2, LineRead DEF ParseStates
    <3> HIDE DEF u
    <3> QED  BY SMTT(30), <2>2, <3>1 DEF Cursors
  <2>5. S!Yields(s, end, idle) = [u EXCEPT !.out = Append(u.out, t), !.cursor = next]
    BY <1>3 DEF S!Yields
  <2>6. IsCut(t, c.at, end)
    <3>1. /\ t.from = s.turn.from /\ t.last = s.turn.last /\ t.dropped = s.turn.answered
          /\ t.file = lines[s.turn.from].file
      OBVIOUS
    <3>2. Asked(s.turn.from, s.turn.last) => s.turn.answered
      BY <1>0, <1>3
    <3> HIDE DEF t, u, next
    <3> QED  BY <1>0, <2>2, <3>1, <3>2 DEF IsCut
  <2> HIDE DEF u, t, next
  <2>7. /\ Append(s.out, t) \in Seq(CutTurns) /\ Append(s.out, t) # <<>>
        /\ \A k \in DOMAIN Append(s.out, t) : IsCut(Append(s.out, t)[k], c.at, end)
    <3>1. \A k \in DOMAIN s.out : IsCut(s.out[k], c.at, end)
      <4> SUFFICES ASSUME NEW k \in DOMAIN s.out PROVE IsCut(s.out[k], c.at, end)
        OBVIOUS
      <4>1. s.out[k] \in CutTurns
        BY <1>1
      <4>2. s.out[k].last \in Nat
        BY <4>1 DEF CutTurns
      <4>3. IsCut(s.out[k], c.at, s.cursor.at)
        BY <1>0
      <4>4. s.cursor.at <= end
        BY SMTT(30), <1>0, <2>2
      <4> QED  BY <2>2, <4>2, <4>3, <4>4 DEF IsCut
    <3>2. Append(s.out, t) \in Seq(CutTurns) /\ Append(s.out, t) # <<>>
      BY <1>1, <2>3
    <3>3. ASSUME NEW k \in DOMAIN Append(s.out, t)
          PROVE  IsCut(Append(s.out, t)[k], c.at, end)
      BY <1>1, <2>3, <2>6, <3>1, <3>3
    <3> QED  BY <3>2, <3>3
  <2> DEFINE y == [u EXCEPT !.out = Append(u.out, t), !.cursor = next]
  <2>8. /\ y.turn = s.turn /\ y.pending = s.pending /\ y.pendingAt = s.pendingAt
        /\ y.out = Append(s.out, t) /\ y.cursor = next /\ y \in ParseStates
    BY <2>1, <2>4, <2>7 DEF ParseStates
  <2>9. next.at = end /\ next.mark = lines[end].file
    BY DEF next
  <2> HIDE DEF y
  <2> QED  BY <1>3, <2>5, <2>7, <2>8, <2>9 DEF y, CutOff
<1> QED  BY <1>1, <1>2, <1>3

\* Where an open turn is cut when the next prompt is record i + 1.
PromptBehind(i, top, after, at, from, last, marker, markerAt, end) ==
    /\ {i, top, after, at, from, last, markerAt} \subseteq Nat /\ i + 1 <= top
    /\ after <= at /\ at < from /\ from <= last /\ last <= i
    /\ marker # 0 => last < markerAt /\ markerAt <= i + 1
    /\ end = IF marker # 0 THEN markerAt - 1 ELSE (i + 1) - 1

LEMMA EndPlaced ==
    ASSUME NEW i, NEW top, NEW after, NEW at, NEW from, NEW last, NEW marker, NEW markerAt,
           NEW end, PromptBehind(i, top, after, at, from, last, marker, markerAt, end)
    PROVE  end \in Nat /\ last <= end /\ end <= top /\ after < end /\ end <= i
<1>1. CASE marker = 0
  BY <1>1 DEF PromptBehind
<1>2. CASE marker # 0
  BY <1>2 DEF PromptBehind
<1> QED  BY <1>1, <1>2

LEMMA PromptOpened ==
    ASSUME lines \in Seq(Entries), NEW s \in ParseStates, NEW c \in Cursors, NEW i \in Nat,
           i + 1 <= Len(lines), c.at <= i, c.at <= s.cursor.at, s.cursor.at <= i,
           s.turn.from # 0 =>
              /\ s.cursor.at < s.turn.from /\ s.turn.from <= s.turn.last /\ s.turn.last <= i
              /\ s.pending # 0 => s.turn.last < s.pendingAt
              /\ Asked(s.turn.from, s.turn.last) => s.turn.asked > 0 \/ s.turn.answered,
           s.pending # 0 => s.pendingAt <= i + 1,
           IF s.out = <<>> THEN s.cursor = c
           ELSE s.cursor.at > c.at /\ s.cursor.mark = lines[s.cursor.at].file,
           \A k \in DOMAIN s.out : IsCut(s.out[k], c.at, s.cursor.at),
           NEW s2, s2 = S!Opened(s, i + 1)
    PROVE  /\ s2 \in ParseStates
           /\ c.at <= s2.cursor.at /\ s2.cursor.at <= i
           /\ IF s2.out = <<>> THEN s2.cursor = c
              ELSE s2.cursor.at > c.at /\ s2.cursor.mark = lines[s2.cursor.at].file
           /\ \A k \in DOMAIN s2.out : IsCut(s2.out[k], c.at, s2.cursor.at)
           /\ IF lines[i + 1].kind = "user"
              THEN s2.turn.from = i + 1 /\ s2.pending = 0
              ELSE s2 = s
<1>1. CASE lines[i + 1].kind # "user"
  BY <1>1 DEF S!Opened
<1>2. CASE lines[i + 1].kind = "user"
  <2> DEFINE end    == IF s.pending # 0 THEN s.pendingAt - 1 ELSE (i + 1) - 1
             ended == IF s.turn.from = 0 THEN s ELSE S!Yields(s, end, FALSE)
             turn   == [S!NoTurn EXCEPT !.from = i + 1, !.started = (s.pending # 0),
                                        !.id = s.pending]
  <2>1. s2 = [ended EXCEPT !.turn = turn, !.pending = 0]
    BY <1>2 DEF S!Opened
  <2>2. turn \in OpenTurns /\ turn.from = i + 1
    <3> DEFINE started == s.pending # 0
    <3>1. s.pending \in Nat /\ started \in BOOLEAN /\ i + 1 \in Nat
      BY DEF ParseStates
    <3>2. S!NoTurn \in OpenTurns
      BY DEF OpenTurns, S!NoTurn
    <3>3. turn = [S!NoTurn EXCEPT !.from = i + 1, !.started = started, !.id = s.pending]
      OBVIOUS
    <3> HIDE DEF started, turn
    <3> QED  BY <3>1, <3>2, <3>3 DEF OpenTurns
  <2>3. /\ ended \in ParseStates
        /\ c.at <= ended.cursor.at /\ ended.cursor.at <= i
        /\ IF ended.out = <<>> THEN ended.cursor = c
           ELSE ended.cursor.at > c.at /\ ended.cursor.mark = lines[ended.cursor.at].file
        /\ \A k \in DOMAIN ended.out : IsCut(ended.out[k], c.at, ended.cursor.at)
    <3>1. CASE s.turn.from = 0
      BY <3>1
    <3>2. CASE s.turn.from # 0
      <4>1. /\ s.turn.last \in Nat /\ s.turn.asked \in Nat /\ s.pendingAt \in Nat
            /\ c.at \in Nat /\ s.turn.from \in Nat /\ s.cursor.at \in Nat
        BY StateTypes, CursorTypes
      <4>2. CASE s.turn.asked > 0
        <5>1. ended = [s EXCEPT !.halted = TRUE]
          BY <3>2, <4>2 DEF S!Yields
        <5> HIDE DEF ended
        <5> QED  BY <5>1 DEF ParseStates
      <4>3. CASE s.turn.asked = 0
        <5>1. /\ end \in Nat /\ s.turn.last <= end /\ end <= Len(lines) /\ c.at < end
              /\ end <= i
          <6>1. end = IF s.pending # 0 THEN s.pendingAt - 1 ELSE (i + 1) - 1
            OBVIOUS
          <6>2. Len(lines) \in Nat
            OBVIOUS
          <6> HIDE DEF end, ended
          <6>3. PromptBehind(i, Len(lines), c.at, s.cursor.at, s.turn.from, s.turn.last,
                             s.pending, s.pendingAt, end)
            BY <3>2, <4>1, <6>1, <6>2 DEF PromptBehind
          <6> QED  BY <6>3, EndPlaced
        <5>2. ended = S!Yields(s, end, FALSE)
          BY <3>2
        <5> HIDE DEF end, ended
        <5>0. /\ s.cursor.at < s.turn.from /\ s.turn.from <= s.turn.last
              /\ Asked(s.turn.from, s.turn.last) => s.turn.asked > 0 \/ s.turn.answered
          BY <3>2
        <5>3. /\ ended \in ParseStates /\ ended.out # <<>> /\ ended.cursor.at = end
              /\ ended.cursor.mark = lines[end].file
              /\ \A k \in DOMAIN ended.out : IsCut(ended.out[k], c.at, end)
          <6> DEFINE y == S!Yields(s, end, FALSE)
          <6>1. CutOff(y, s, c, end)
            <7>1. Cuttable(s, c, end) /\ FALSE \in BOOLEAN
              BY <5>0, <5>1 DEF Cuttable
            <7> QED  BY <5>1, <7>1, TurnCut
          <6> HIDE DEF y
          <6>2. ended = y
            BY <5>2 DEF y
          <6> QED  BY <4>3, <6>1, <6>2 DEF CutOff
        <5> QED  BY <4>1, <5>1, <5>3
      <4> HIDE DEF ended, end
      <4> QED  BY <4>1, <4>2, <4>3
    <3> HIDE DEF ended, end
    <3> QED  BY <3>1, <3>2
  <2> HIDE DEF ended, turn
  <2>4. /\ s2 \in ParseStates /\ s2.turn = turn /\ s2.pending = 0
        /\ s2.out = ended.out /\ s2.cursor = ended.cursor
    <3>1. ended \in ParseStates /\ turn \in OpenTurns
      BY <2>2, <2>3
    <3>2. \A e \in ParseStates : \A t \in OpenTurns :
             LET u == [e EXCEPT !.turn = t, !.pending = 0] IN
             /\ u \in ParseStates /\ u.turn = t /\ u.pending = 0
             /\ u.out = e.out /\ u.cursor = e.cursor
      BY DEF ParseStates
    <3> HIDE DEF ParseStates
    <3> DEFINE u == [ended EXCEPT !.turn = turn, !.pending = 0]
    <3>3. /\ u \in ParseStates /\ u.turn = turn /\ u.pending = 0
          /\ u.out = ended.out /\ u.cursor = ended.cursor
      BY <3>1, <3>2
    <3>4. s2 = u
      BY <2>1
    <3> HIDE DEF u
    <3> QED  BY <3>3, <3>4
  <2> QED  BY <1>2, <2>2, <2>3, <2>4
<1> QED  BY <1>1, <1>2

LEMMA TurnFolded ==
    ASSUME NEW s \in ParseStates, NEW i \in Nat
    PROVE  LET u == S!Folded(s, i) IN
           /\ u \in ParseStates
           /\ u.turn.from = s.turn.from
           /\ u.turn.asked = s.turn.asked /\ u.turn.answered = s.turn.answered
           /\ u.out = s.out /\ u.cursor = s.cursor /\ u.halted = s.halted
           /\ u.pendingAt = s.pendingAt /\ u.pending = s.pending
           /\ u.turn.last = IF s.turn.from # 0 /\ lines[i].kind \in S!Content \union {"user"}
                            THEN i ELSE s.turn.last
<1> DEFINE said == s.turn.text \/ lines[i].kind = "reply"
           t == [s.turn EXCEPT !.last = i, !.header = s.header, !.text = said]
<1>1. s.turn \in OpenTurns /\ s.header \in Nat
  BY DEF ParseStates
<1>2. said \in BOOLEAN
  BY <1>1 DEF OpenTurns
<1>3. S!Folded(s, i) = IF s.turn.from = 0 \/ lines[i].kind \notin S!Content \union {"user"}
                       THEN s ELSE [s EXCEPT !.turn = t]
  BY DEF S!Folded
<1> HIDE DEF said
<1>4. /\ t \in OpenTurns /\ t.from = s.turn.from /\ t.asked = s.turn.asked
      /\ t.answered = s.turn.answered /\ t.last = i
  BY <1>1, <1>2 DEF OpenTurns
<1> HIDE DEF t
<1> QED  BY <1>3, <1>4 DEF ParseStates

LEMMA RecordRead ==
    ASSUME lines \in Seq(Entries), NEW c \in Cursors, NEW i \in Nat, c.at <= i,
           i + 1 <= Len(lines), NEW s, ParsedInv(s, c, i)
    PROVE  ParsedInv(S!Read(s, i + 1), c, i + 1)
<1>1. /\ s \in ParseStates /\ c.at \in Nat /\ s.turn.from \in Nat /\ s.turn.last \in Nat
      /\ s.cursor.at \in Nat /\ s.pendingAt \in Nat /\ TurnAhead(s, i) /\ OutInv(s, c, i)
  BY StateTypes, CursorTypes DEF ParsedInv
<1>2. CASE s.halted
  <2>1. S!Read(s, i + 1) = s
    BY <1>2 DEF S!Read
  <2>2. TurnAhead(s, i + 1)
    BY <1>1, <1>2 DEF TurnAhead
  <2>3. OutInv(s, c, i + 1)
    BY <1>1 DEF OutInv
  <2> QED  BY <1>1, <2>1, <2>2, <2>3 DEF ParsedInv
<1>3. CASE ~s.halted
  <2> DEFINE s1 == S!NotesHeader(s, i + 1)
             s2 == S!Signalled(s1, i + 1)
             s3 == S!Retried(s2, i + 1)
             s4 == S!Observed(s3, i + 1)
             s5 == S!Opened(s4, i + 1)
             s6 == S!Folded(s5, i + 1)
  <2>1. S!Read(s, i + 1) = s6 /\ i + 1 \in Nat /\ lines[i + 1] \in Entries
    BY <1>3, LineRead DEF S!Read
  <2>2. /\ s1 \in ParseStates /\ s1.turn = s.turn
        /\ s1.pending = s.pending /\ s1.pendingAt = s.pendingAt
        /\ s1.out = s.out /\ s1.cursor = s.cursor
    BY <1>1, <2>1, HeaderNoted
  <2> HIDE DEF s1
  <2>3. /\ s2 \in ParseStates
        /\ s2.turn.from = s.turn.from /\ s2.turn.last = s.turn.last
        /\ s2.turn.asked = s.turn.asked /\ s2.turn.answered = s.turn.answered
        /\ s2.out = s.out /\ s2.cursor = s.cursor
        /\ \/ s2.pending = 0
           \/ s2.pending = s.pending /\ s2.pendingAt = s.pendingAt
           \/ s2.pendingAt = i + 1 /\ lines[i + 1].kind = "start"
    BY <2>1, <2>2, SignalRead
  <2> HIDE DEF s2
  <2>4. /\ s3 \in ParseStates
        /\ s3.turn.from = s.turn.from /\ s3.turn.last = s.turn.last
        /\ s3.turn.asked = s.turn.asked /\ s3.turn.answered = s.turn.answered
        /\ s3.out = s.out /\ s3.cursor = s.cursor
        /\ s3.pendingAt = s2.pendingAt /\ (s3.pending = 0 \/ s3.pending = s2.pending)
        /\ s.turn.from # 0 /\ lines[i + 1].kind \in S!Content => s3.pending = 0
    BY <2>1, <2>3, RetryRead
  <2> HIDE DEF s3
  <2>5. /\ s4 \in ParseStates
        /\ s4.turn.from = s.turn.from /\ s4.turn.last = s.turn.last
        /\ s4.out = s.out /\ s4.cursor = s.cursor
        /\ s4.pendingAt = s3.pendingAt /\ s4.pending = s3.pending
        /\ s.turn.from # 0 /\ (s.turn.asked > 0 \/ s.turn.answered \/ lines[i + 1].kind = "ask")
             => s4.turn.asked > 0 \/ s4.turn.answered
    BY <2>1, <2>4, CallsObserved
  <2> HIDE DEF s4
  <2>6. Asked(s.turn.from, i + 1) => Asked(s.turn.from, i) \/ lines[i + 1].kind = "ask"
    BY <1>1 DEF Asked
  <2>7. /\ s.turn.from # 0 =>
              /\ s.cursor.at < s.turn.from /\ s.turn.from <= s.turn.last /\ s.turn.last <= i
              /\ s4.pending # 0 => s.turn.last < s4.pendingAt
              /\ Asked(s.turn.from, i + 1) => s4.turn.asked > 0 \/ s4.turn.answered
        /\ s4.pending # 0 => s4.pendingAt <= i + 1
    <3>1. /\ s.turn.from # 0 =>
                /\ s.cursor.at < s.turn.from /\ s.turn.from <= s.turn.last /\ s.turn.last <= i
                /\ s.pending # 0 => s.turn.last < s.pendingAt
                /\ Asked(s.turn.from, i) => s.turn.asked > 0 \/ s.turn.answered
          /\ s.pending # 0 => s.pendingAt <= i
      BY <1>1, <1>3 DEF TurnAhead
    <3> QED  BY <1>1, <2>3, <2>4, <2>5, <2>6, <3>1
  <2>8. /\ s5 \in ParseStates /\ OutInv(s5, c, i)
        /\ IF lines[i + 1].kind = "user" THEN s5.turn.from = i + 1 /\ s5.pending = 0
           ELSE s5 = s4
    <3>1. Asked(s.turn.from, s.turn.last) /\ s.turn.last <= i => Asked(s.turn.from, i + 1)
      BY <1>1 DEF Asked
    <3>2. /\ s4.turn.from # 0 =>
                /\ s4.cursor.at < s4.turn.from /\ s4.turn.from <= s4.turn.last
                /\ s4.turn.last <= i
                /\ s4.pending # 0 => s4.turn.last < s4.pendingAt
                /\ Asked(s4.turn.from, s4.turn.last) => s4.turn.asked > 0 \/ s4.turn.answered
          /\ s4.pending # 0 => s4.pendingAt <= i + 1
          /\ c.at <= s4.cursor.at /\ s4.cursor.at <= i
          /\ IF s4.out = <<>> THEN s4.cursor = c
             ELSE s4.cursor.at > c.at /\ s4.cursor.mark = lines[s4.cursor.at].file
          /\ \A k \in DOMAIN s4.out : IsCut(s4.out[k], c.at, s4.cursor.at)
      BY <1>1, <2>5, <2>7, <3>1 DEF OutInv
    <3> QED  BY <2>5, <3>2, PromptOpened DEF OutInv
  <2> HIDE DEF s5
  <2>9. /\ s6 \in ParseStates /\ s6.turn.from = s5.turn.from
        /\ s6.turn.asked = s5.turn.asked /\ s6.turn.answered = s5.turn.answered
        /\ s6.out = s5.out /\ s6.cursor = s5.cursor /\ s6.halted = s5.halted
        /\ s6.pendingAt = s5.pendingAt /\ s6.pending = s5.pending
        /\ s6.turn.last = IF s5.turn.from # 0 /\ lines[i + 1].kind \in S!Content \union {"user"}
                          THEN i + 1 ELSE s5.turn.last
    BY <2>1, <2>8, TurnFolded
  <2> HIDE DEF s6
  <2>10. OutInv(s6, c, i + 1)
    <3>1. s6.cursor.at \in Nat
      BY <2>9, StateTypes
    <3> QED  BY <2>8, <2>9, <3>1 DEF OutInv
  <2>11. CASE lines[i + 1].kind = "user"
    <3>1. ~Asked(i + 1, i + 1)
      BY <2>11 DEF Asked
    <3>2. s6.turn.from = i + 1 /\ s6.turn.last = i + 1 /\ s6.pending = 0
      BY <2>8, <2>9, <2>11
    <3>3. s6.cursor.at < i + 1
      <4>1. s6.cursor.at \in Nat /\ s6.cursor.at <= i
        BY <2>8, <2>9, StateTypes DEF OutInv
      <4> QED  BY <4>1
    <3>4. TurnAhead(s6, i + 1)
      BY <3>1, <3>2, <3>3 DEF TurnAhead
    <3> QED  BY <2>1, <2>9, <2>10, <3>4 DEF ParsedInv
  <2>12. CASE lines[i + 1].kind # "user"
    <3>1. /\ s6.turn.from = s.turn.from
          /\ s6.turn.asked = s4.turn.asked /\ s6.turn.answered = s4.turn.answered
          /\ s6.pendingAt = s4.pendingAt /\ s6.pending = s4.pending
          /\ s6.cursor = s.cursor
          /\ s6.turn.last = IF s.turn.from # 0 /\ lines[i + 1].kind \in S!Content
                            THEN i + 1 ELSE s.turn.last
      BY <2>5, <2>8, <2>9, <2>12
    <3>2. s.turn.from # 0 /\ lines[i + 1].kind \in S!Content => s4.pending = 0
      BY <2>4, <2>5
    <3>3. TurnAhead(s6, i + 1)
      BY <1>1, <2>7, <3>1, <3>2 DEF TurnAhead
    <3> QED  BY <2>1, <2>9, <2>10, <3>3 DEF ParsedInv
  <2> QED  BY <2>11, <2>12
<1> QED  BY <1>2, <1>3

LEMMA ParsedKeeps ==
    ASSUME lines \in Seq(Entries), NEW c \in Cursors, NEW end \in Nat, c.at <= end,
           end <= Len(lines)
    PROVE  ParsedInv(S!Parsed(c, end), c, end)
<1> DEFINE Good == {k \in Nat : c.at + k <= Len(lines) =>
                                  ParsedInv(S!Parsed(c, c.at + k), c, c.at + k)}
<1>1. c.at \in Nat
  BY DEF Cursors
<1>2. 0 \in Good
  <2>1. ParsedInv(S!Resumed(c), c, c.at)
    <3>1. S!Resumed(c) \in ParseStates
      <4>1. S!NoTurn \in OpenTurns /\ <<>> \in Seq(CutTurns) /\ c.context \in Nat
            /\ {} \in {X \in SUBSET Nat : IsFiniteSet(X)}
        BY FS_EmptySet DEF OpenTurns, S!NoTurn, Cursors
      <4> QED  BY <4>1 DEF ParseStates, S!Resumed
    <3>2. TurnAhead(S!Resumed(c), c.at) /\ OutInv(S!Resumed(c), c, c.at)
      BY <1>1 DEF TurnAhead, OutInv, S!Resumed, S!NoTurn
    <3> QED  BY <3>1, <3>2 DEF ParsedInv
  <2>2. c.at + 0 = c.at
    BY <1>1
  <2> QED  BY <1>1, <2>1, <2>2, ParsedSteps
<1>3. ASSUME NEW k \in Nat, k \in Good
      PROVE  k + 1 \in Good
  <2> SUFFICES ASSUME c.at + (k + 1) <= Len(lines)
               PROVE  ParsedInv(S!Parsed(c, c.at + (k + 1)), c, c.at + (k + 1))
    OBVIOUS
  <2> DEFINE n == c.at + k
  <2>1. /\ n \in Nat /\ c.at <= n /\ n + 1 <= Len(lines) /\ n <= Len(lines)
        /\ c.at + (k + 1) = n + 1
    BY <1>1
  <2>2. ParsedInv(S!Parsed(c, n), c, n)
    BY <1>3, <2>1
  <2> HIDE DEF n
  <2>3. S!Parsed(c, n + 1) = S!Read(S!Parsed(c, n), n + 1)
    BY <1>1, <2>1, ParsedSteps
  <2>4. ParsedInv(S!Read(S!Parsed(c, n), n + 1), c, n + 1)
    BY <2>1, <2>2, RecordRead
  <2> QED  BY <2>1, <2>3, <2>4
<1>4. \A k \in Nat : k \in Good
  <2> HIDE DEF Good
  <2> QED  BY <1>2, <1>3, UpwardInduction
<1>5. end - c.at \in Nat /\ c.at + (end - c.at) = end
  BY <1>1
<1> QED  BY <1>4, <1>5


------------------------------------------------------------------------------
\* The reader behind a file.  What it handed on lies behind its cursor while the file is the
\* first one; the cursor of a file that was replaced is never trusted again.
SourceShape ==
    /\ lines \in Seq(Entries) /\ \A i \in DOMAIN lines : lines[i].file = replaced
    /\ sourceCursor \in Cursors /\ turns \in Seq(CutTurns)
    /\ replaced \in BOOLEAN /\ running \in Nat /\ attempts \in Nat

Behind(t, end) ==
    /\ 0 < t.from /\ t.from <= t.last /\ t.last <= end
    /\ Asked(t.from, t.last) => t.dropped

SourceInv ==
    /\ SourceShape
    /\ sourceCursor.mark = FALSE
    /\ replaced => sourceCursor.at > 0
    /\ ~replaced => sourceCursor.at <= Len(lines)
    /\ \A k \in DOMAIN turns :
          /\ turns[k].file = FALSE
          /\ ~replaced => Behind(turns[k], Len(lines))

LEMMA SourceStarts == S!SourceInit => SourceInv
<1> SUFFICES ASSUME S!SourceInit PROVE SourceInv
  OBVIOUS
<1>1. S!Start \in Cursors
  BY DEF S!Start, Cursors
<1>2. /\ lines = <<>> /\ replaced = FALSE /\ running = 0 /\ attempts = 0
      /\ sourceCursor = S!Start /\ turns = <<>>
  BY DEF S!SourceInit
<1>3. lines \in Seq(Entries) /\ turns \in Seq(CutTurns) /\ DOMAIN lines = {} /\ DOMAIN turns = {}
  BY <1>2
<1>4. sourceCursor.at = 0 /\ sourceCursor.mark = FALSE
  BY <1>2 DEF S!Start
<1>5. SourceShape
  BY <1>1, <1>2, <1>3 DEF SourceShape
<1> QED  BY <1>2, <1>3, <1>4, <1>5 DEF SourceInv

\* A record that the provider writes changes nothing of what is there.
LEMMA RecordAppended ==
    ASSUME SourceInv, NEW e \in Entries, e.file = replaced, lines' = Append(lines, e),
           UNCHANGED <<replaced, sourceCursor, turns>>, running' \in Nat, attempts' \in Nat
    PROVE  SourceInv'
<1>1. /\ lines' \in Seq(Entries) /\ Len(lines') = Len(lines) + 1 /\ Len(lines) \in Nat
      /\ \A i \in 1..Len(lines) : lines'[i] = lines[i]
      /\ lines'[Len(lines) + 1] = e
  BY DEF SourceInv, SourceShape
<1>2. \A i \in DOMAIN lines' : lines'[i].file = replaced'
  BY <1>1 DEF SourceInv, SourceShape
<1>3. ASSUME NEW k \in DOMAIN turns, ~replaced
      PROVE  Behind(turns[k], Len(lines))'
  <2>1. turns[k] \in CutTurns /\ Behind(turns[k], Len(lines))
    BY <1>3 DEF SourceInv, SourceShape
  <2>2. turns[k].from \in Nat /\ turns[k].last \in Nat
    BY <2>1 DEF CutTurns
  <2>3. Asked(turns[k].from, turns[k].last)' => Asked(turns[k].from, turns[k].last)
    BY <1>1, <2>1, <2>2 DEF Asked, Behind
  <2> QED  BY <1>1, <2>1, <2>2, <2>3 DEF Behind
<1>4. sourceCursor.at \in Nat
  BY DEF SourceInv, SourceShape, Cursors
<1> QED  BY <1>1, <1>2, <1>3, <1>4 DEF SourceInv, SourceShape

LEMMA ProviderAppends ==
    ASSUME SourceInv,
           NEW kind \in {"header", "start", "user", "output", "answer", "finish", "abort", "fail"}
                          \union S!Content,
           NEW id \in Nat, S!Appends(kind, id), running' \in Nat, attempts' \in Nat
    PROVE  SourceInv'
<1> DEFINE e == [kind |-> kind, id |-> id, file |-> replaced]
<1>1. e \in Entries /\ e.file = replaced
  BY DEF Entries, SourceInv, SourceShape
<1>2. lines' = Append(lines, e) /\ UNCHANGED <<replaced, sourceCursor, turns>>
  BY DEF S!Appends
<1> HIDE DEF e
<1> QED  BY <1>1, <1>2, RecordAppended

LEMMA ProviderWrites ==
    ASSUME SourceInv,
           \/ S!WritesHeader \/ S!StartsAttempt \/ S!Prompts \/ S!Returns
           \/ \E kind \in S!Content : S!Contributes(kind)
           \/ \E how \in {"finish", "abort", "fail"} : S!EndsAttempt(how)
    PROVE  SourceInv'
<1>1. running \in Nat /\ attempts \in Nat /\ attempts + 1 \in Nat
  BY DEF SourceInv, SourceShape
<1>2. CASE S!WritesHeader
  BY <1>1, <1>2, ProviderAppends DEF S!WritesHeader
<1>3. CASE S!StartsAttempt
  BY <1>1, <1>3, ProviderAppends DEF S!StartsAttempt
<1>4. CASE S!Prompts
  BY <1>1, <1>4, ProviderAppends DEF S!Prompts
<1>5. CASE S!Returns
  BY <1>1, <1>5, ProviderAppends DEF S!Returns
<1>6. ASSUME NEW kind \in S!Content, S!Contributes(kind)
      PROVE  SourceInv'
  BY <1>1, <1>6, ProviderAppends DEF S!Contributes
<1>7. ASSUME NEW how \in {"finish", "abort", "fail"}, S!EndsAttempt(how)
      PROVE  SourceInv'
  BY <1>1, <1>7, ProviderAppends DEF S!EndsAttempt
<1> QED  BY <1>2, <1>3, <1>4, <1>5, <1>6, <1>7

\* Another file: nothing is claimed of it, and the cursor is of the first.
LEMMA FileReplaced ==
    ASSUME MaxAttempts \in Nat, SourceInv, S!IsReplaced
    PROVE  SourceInv'
<1>1. sourceCursor.at \in Nat /\ sourceCursor.at > 0
  BY DEF SourceInv, SourceShape, Cursors, S!IsReplaced
<1>2. PICK n \in {sourceCursor.at - 1, sourceCursor.at} :
         lines' = [i \in 1..n |-> [kind |-> "header", id |-> 0, file |-> TRUE]]
  BY DEF S!IsReplaced
<1>3. n \in Nat
  BY <1>1
<1>4. [kind |-> "header", id |-> 0, file |-> TRUE] \in Entries
  BY DEF Entries
<1>5. /\ lines' \in Seq(Entries)
      /\ \A i \in DOMAIN lines' : lines'[i].file = TRUE
  BY <1>2, <1>3, <1>4
<1>6. /\ replaced' = TRUE /\ running' = 0 /\ attempts' = MaxAttempts
      /\ UNCHANGED <<sourceCursor, turns>>
  BY DEF S!IsReplaced
<1> QED  BY <1>1, <1>5, <1>6 DEF SourceInv, SourceShape

\* A trusted cursor is one of the file that is there.
LEMMA TrustedIsFirst ==
    ASSUME SourceInv, S!Trusted
    PROVE  ~replaced
<1> SUFFICES ASSUME replaced PROVE FALSE
  BY DEF SourceInv, SourceShape
<1>1. /\ sourceCursor.at \in 1..Len(lines) /\ sourceCursor.mark = FALSE
      /\ lines[sourceCursor.at].file = sourceCursor.mark
  BY DEF SourceInv, SourceShape, Cursors, S!Trusted
<1>2. replaced = TRUE
  BY DEF SourceInv, SourceShape
<1>3. lines[sourceCursor.at].file = replaced
  <2>1. lines \in Seq(Entries) /\ \A i \in DOMAIN lines : lines[i].file = replaced
    BY DEF SourceInv, SourceShape
  <2>2. sourceCursor.at \in DOMAIN lines
    BY <1>1, <2>1
  <2> QED  BY <2>1, <2>2
<1> QED  BY <1>1, <1>2, <1>3

\* What a scan hands on, whatever state it ended in.
LEMMA TurnsHandedOn ==
    ASSUME SourceInv, ~replaced, NEW s \in ParseStates, s.out # <<>>,
           sourceCursor.at < s.cursor.at, s.cursor.at <= Len(lines),
           s.cursor.mark = lines[s.cursor.at].file,
           \A k \in DOMAIN s.out : IsCut(s.out[k], sourceCursor.at, s.cursor.at),
           turns' = turns \o s.out, sourceCursor' = s.cursor,
           UNCHANGED <<lines, replaced, running, attempts>>
    PROVE  SourceInv'
<1>1. /\ s.out \in Seq(CutTurns) /\ turns \in Seq(CutTurns) /\ s.cursor \in Cursors
      /\ sourceCursor.at \in Nat /\ s.cursor.at \in Nat
  BY DEF ParseStates, SourceInv, SourceShape, Cursors
<1>2. /\ s.cursor.at \in 1..Len(lines) /\ s.cursor.mark = FALSE
  BY <1>1 DEF SourceInv, SourceShape
<1>3. ASSUME NEW k \in DOMAIN s.out
      PROVE  s.out[k].file = FALSE /\ Behind(s.out[k], Len(lines))
  <2>1. /\ s.out[k] \in CutTurns /\ IsCut(s.out[k], sourceCursor.at, s.cursor.at)
    BY <1>1
  <2>2. s.out[k].from \in Nat /\ s.out[k].last \in Nat
    BY <2>1 DEF CutTurns
  <2>3. s.out[k].from \in DOMAIN lines
    BY SMTT(30), <1>1, <2>1, <2>2 DEF IsCut, SourceInv, SourceShape
  <2>4. lines[s.out[k].from].file = FALSE
    BY <2>3 DEF SourceInv, SourceShape
  <2> QED  BY <1>1, <2>1, <2>2, <2>4 DEF IsCut, Behind
<1>4. turns' \in Seq(CutTurns)
  BY <1>1
<1>5. ASSUME NEW k \in DOMAIN turns'
      PROVE  turns'[k].file = FALSE /\ Behind(turns'[k], Len(lines))
  <2>1. CASE k \in DOMAIN turns
    <3>1. turns'[k] = turns[k]
      BY <1>1, <2>1
    <3> QED  BY <2>1, <3>1 DEF SourceInv
  <2>2. CASE k \notin DOMAIN turns
    <3>1. k - Len(turns) \in DOMAIN s.out /\ turns'[k] = s.out[k - Len(turns)]
      BY <1>1, <2>2
    <3> QED  BY <1>3, <3>1
  <2> QED  BY <2>1, <2>2
<1>6. \A k \in DOMAIN turns' : Behind(turns'[k], Len(lines)) => Behind(turns[k], Len(lines))'
  BY DEF Behind, Asked
<1> QED  BY <1>1, <1>2, <1>4, <1>5, <1>6 DEF SourceInv, SourceShape

LEMMA SourceScans ==
    ASSUME SourceInv, NEW end \in 1..MaxRecords, S!Scans(end)
    PROVE  SourceInv'
<1> DEFINE s == S!Parsed(sourceCursor, end)
<1>1. ~replaced
  BY TrustedIsFirst DEF S!Scans
<1>2. /\ sourceCursor \in Cursors /\ sourceCursor.at \in Nat /\ lines \in Seq(Entries)
      /\ sourceCursor.at < end /\ end <= Len(lines) /\ end \in Nat
  BY DEF SourceInv, SourceShape, Cursors, S!Scans
<1>3. ParsedInv(s, sourceCursor, end)
  BY <1>2, ParsedKeeps
<1>4. /\ s.out # <<>> /\ turns' = turns \o s.out /\ sourceCursor' = s.cursor
      /\ UNCHANGED <<lines, replaced, running, attempts>>
  BY DEF S!Scans, S!providerVars
<1> HIDE DEF s
<1>5. /\ s \in ParseStates /\ s.cursor.at \in Nat
      /\ sourceCursor.at < s.cursor.at /\ s.cursor.at <= end
      /\ s.cursor.mark = lines[s.cursor.at].file
      /\ \A k \in DOMAIN s.out : IsCut(s.out[k], sourceCursor.at, s.cursor.at)
  BY <1>2, <1>3, <1>4 DEF ParsedInv, OutInv, ParseStates, Cursors
<1>6. s.cursor.at <= Len(lines)
  BY <1>2, <1>5
<1> QED  BY <1>1, <1>4, <1>5, <1>6, TurnsHandedOn

LEMMA SourceScansIdle ==
    ASSUME SourceInv, S!ScansIdle
    PROVE  SourceInv'
<1> DEFINE s == S!Parsed(sourceCursor, Len(lines))
           t == IF ~s.halted /\ S!Closable(s.turn) THEN S!Yields(s, Len(lines), TRUE) ELSE s
<1>1. ~replaced
  BY TrustedIsFirst DEF S!ScansIdle
<1>2. /\ sourceCursor \in Cursors /\ sourceCursor.at \in Nat /\ lines \in Seq(Entries)
      /\ sourceCursor.at < Len(lines) /\ Len(lines) \in Nat /\ Len(lines) <= Len(lines)
  BY DEF SourceInv, SourceShape, Cursors, S!ScansIdle
<1>3. ParsedInv(s, sourceCursor, Len(lines))
  BY <1>2, ParsedKeeps
<1>4. /\ t.out # <<>> /\ turns' = turns \o t.out /\ sourceCursor' = t.cursor
      /\ UNCHANGED <<lines, replaced, running, attempts>>
  BY DEF S!ScansIdle, S!providerVars
<1> HIDE DEF s
<1>5. /\ s \in ParseStates /\ s.cursor.at \in Nat /\ s.turn.asked \in Nat
      /\ s.turn.from \in Nat /\ s.turn.last \in Nat
      /\ sourceCursor.at <= s.cursor.at /\ s.cursor.at <= Len(lines)
      /\ s.out # <<>> => /\ sourceCursor.at < s.cursor.at
                         /\ s.cursor.mark = lines[s.cursor.at].file
      /\ \A k \in DOMAIN s.out : IsCut(s.out[k], sourceCursor.at, s.cursor.at)
  BY <1>2, <1>3 DEF ParsedInv, OutInv, ParseStates, Cursors, OpenTurns
<1>6. CASE ~(~s.halted /\ S!Closable(s.turn))
  <2>1. t = s
    BY <1>6
  <2> HIDE DEF t
  <2> QED  BY <1>1, <1>4, <1>5, <2>1, TurnsHandedOn
<1>7. CASE ~s.halted /\ S!Closable(s.turn)
  <2>1. t = S!Yields(s, Len(lines), TRUE)
    BY <1>7
  <2> HIDE DEF t
  <2>2. s.turn.from # 0
    BY <1>7 DEF S!Closable
  <2>3. Asked(s.turn.from, s.turn.last) => Asked(s.turn.from, Len(lines))
    BY <1>2, <1>3, <1>5, <2>2 DEF Asked, ParsedInv, TurnAhead
  <2>4. Cuttable(s, sourceCursor, Len(lines))
    BY <1>2, <1>3, <1>5, <1>7, <2>2, <2>3 DEF Cuttable, ParsedInv, TurnAhead, OutInv
  <2>5. CutOff(t, s, sourceCursor, Len(lines))
    <3>1. TRUE \in BOOLEAN
      OBVIOUS
    <3> QED  BY <1>2, <1>5, <2>1, <2>4, <3>1, TurnCut
  <2>6. CASE s.turn.asked > 0
    <3>1. t \in ParseStates /\ t.out = s.out /\ t.cursor = s.cursor
      BY <2>5, <2>6 DEF CutOff
    <3> QED  BY <1>1, <1>4, <1>5, <3>1, TurnsHandedOn
  <2>7. CASE s.turn.asked = 0
    <3>1. /\ t \in ParseStates /\ t.cursor.at = Len(lines)
          /\ t.cursor.mark = lines[Len(lines)].file
          /\ \A k \in DOMAIN t.out : IsCut(t.out[k], sourceCursor.at, Len(lines))
      BY <2>5, <2>7 DEF CutOff
    <3> QED  BY <1>1, <1>2, <1>4, <3>1, TurnsHandedOn
  <2> QED  BY <1>5, <2>6, <2>7
<1> QED  BY <1>6, <1>7

LEMMA SourceStep ==
    ASSUME MaxAttempts \in Nat
    PROVE  SourceInv /\ [S!SourceNext]_(S!sourceVars) => SourceInv'
<1> SUFFICES ASSUME SourceInv, [S!SourceNext]_(S!sourceVars)
             PROVE  SourceInv'
  OBVIOUS
<1>1. CASE UNCHANGED S!sourceVars
  BY <1>1 DEF S!sourceVars, S!providerVars, SourceInv, SourceShape, Behind, Asked
<1>2. CASE S!SourceNext
  BY <1>2, ProviderWrites, FileReplaced, SourceScans, SourceScansIdle DEF S!SourceNext
<1> QED  BY <1>1, <1>2

------------------------------------------------------------------------------
\* However many scans read a transcript, they cut what one parse of the whole cuts.  After a
\* cursor was issued, the whole still has its turn open; both agree from the next prompt on.
WholeAt(i)    == S!Parsed(S!Start, i)
LastHeader(i) == S!LastIn({h \in 1..i : lines[h].kind = "header"})

\* The turn that is cut from a state, and the turns of a parse, the open one included.
CutTurn(s, lost) ==
    [from |-> s.turn.from, last |-> s.turn.last, header |-> s.turn.header,
     index |-> s.cursor.next, file |-> lines[s.turn.from].file, dropped |-> s.turn.answered,
     swallowed |-> lost]
Cut(s)   == CutTurn(s, FALSE)
Given(s) == IF s.turn.from = 0 THEN s.out ELSE Append(s.out, Cut(s))

AllMatch(x, y) == Len(x) = Len(y) /\ \A n \in DOMAIN x : S!Matches(x[n], y[n])

SameMarker(w, r) ==
    /\ w.pending = r.pending /\ w.header = r.header
    /\ w.pending # 0 => w.pendingAt = r.pendingAt
Alike(w, r) ==
    /\ SameMarker(w, r) /\ w.turn = r.turn /\ w.halted = r.halted
    /\ w.cursor.next = r.cursor.next

\* A start marker that waits for its prompt has only headers behind it.
MarkerIs(s, i) ==
    s.halted \/ s.pending = 0 \/
       /\ s.pendingAt \in 1..i /\ lines[s.pendingAt].kind = "start"
       /\ lines[s.pendingAt].id = s.pending
       /\ \A j \in (s.pendingAt + 1)..i : lines[j].kind = "header"

FileInv ==
    /\ \A i \in 0..Len(lines) : MarkerIs(WholeAt(i), i)
    /\ \A i \in 1..Len(lines) :
          lines[i].kind = "user" => WholeAt(i - 1).halted \/ WholeAt(i - 1).pending # 0

EndsWith(kinds) == lines # <<>> /\ lines[Len(lines)].kind \in kinds

\* The attempt in progress, as the parse of the whole sees it.
AttemptIs(w) ==
    /\ running = 0 => w.pending = 0
    /\ w.turn.from # 0 => w.turn.started
    /\ running # 0 /\ ~prompted => w.pending = running
    /\ running # 0 /\ prompted => /\ w.turn.from # 0
                                  /\ IF w.pending = 0
                                     THEN w.turn.id = running /\ ~w.turn.finished
                                     ELSE w.pending = running
    /\ EndsWith({"fail"}) => w.turn.from # 0 /\ ~w.turn.finished

ProviderInv ==
    /\ prompted \in BOOLEAN /\ (running = 0 => ~prompted)
    /\ ~prompted => ~EndsWith({"call", "ask"})
    /\ WholeAt(Len(lines)).halted \/ AttemptIs(WholeAt(Len(lines)))

\* A scan that starts at a cursor has cut nothing and has no turn open.
Quiet(c, e) ==
    LET r == S!Parsed(c, e)
    IN r.turn = S!NoTurn /\ r.out = <<>> /\ ~r.halted /\ r.cursor = c

\* No prompt lies behind the cursor yet: what was handed on is all there is.
AtRest(c) ==
    LET w == WholeAt(Len(lines)) IN
    /\ \A e \in c.at..Len(lines) : Quiet(c, e)
    /\ ~w.halted /\ w.turn.asked = 0 /\ SameMarker(w, S!Parsed(c, Len(lines)))
    /\ c.next = w.cursor.next + (IF w.turn.from = 0 THEN 0 ELSE 1)
    /\ AllMatch(turns, Given(w))
    /\ running # 0 => ~prompted
    /\ running = 0 => ~EndsWith({"fail"})

\* The first prompt behind the cursor is record k.
GoesOnAt(c, k) ==
    /\ \A e \in c.at..(k - 1) : Quiet(c, e)
    /\ Alike(WholeAt(k), S!Parsed(c, k)) /\ ~WholeAt(k).halted
    /\ S!Parsed(c, k).out = <<>> /\ S!Parsed(c, k).cursor = c
    /\ AllMatch(turns, WholeAt(k).out)

CursorInv(c) ==
    /\ c.at <= Len(lines) /\ c.context = LastHeader(c.at)
    /\ AtRest(c) \/ \E k \in (c.at + 1)..Len(lines) : GoesOnAt(c, k)

ResumeInv ==
    explicit /\ ~replaced =>
       /\ FileInv /\ ProviderInv
       /\ \A c \in Cursors :
             c = sourceCursor /\ (\A k \in DOMAIN turns : ~turns[k].swallowed) => CursorInv(c)

------------------------------------------------------------------------------
\* The header in force, and the one in force at a cursor that is still to be issued.
LEMMA LastInIs ==
    ASSUME NEW X \in SUBSET Nat, NEW x \in X, \A y \in X : y <= x
    PROVE  S!LastIn(X) = x
<1>1. X # {} /\ x \in Nat
  OBVIOUS
<1>2. \A z \in X : (\A y \in X : y <= z) => z = x
  OBVIOUS
<1>3. (CHOOSE z \in X : \A y \in X : y <= z) \in X
      /\ \A y \in X : y <= (CHOOSE z \in X : \A y2 \in X : y2 <= z)
  OBVIOUS
<1> QED  BY <1>1, <1>2, <1>3 DEF S!LastIn

LEMMA LastInHas ==
    ASSUME NEW X \in SUBSET Nat, IsFiniteSet(X), X # {}
    PROVE  S!LastIn(X) \in X /\ \A y \in X : y <= S!LastIn(X)
<1>1. X \in SUBSET Int
  OBVIOUS
<1>2. Max(X) \in X /\ \A y \in X : y <= Max(X)
  BY <1>1, MaxOfFinite
<1>3. S!LastIn(X) = Max(X)
  BY <1>2, LastInIs
<1> QED  BY <1>2, <1>3

LEMMA LastHeaderIs ==
    ASSUME NEW i \in Nat
    PROVE  /\ LastHeader(i + 1) = IF lines[i + 1].kind = "header" THEN i + 1 ELSE LastHeader(i)
           /\ LastHeader(0) = 0
<1> DEFINE X(n) == {h \in 1..n : lines[h].kind = "header"}
<1>0. LastHeader(i) = S!LastIn(X(i)) /\ LastHeader(i + 1) = S!LastIn(X(i + 1))
  BY DEF LastHeader
<1>1. ASSUME lines[i + 1].kind = "header"
      PROVE  LastHeader(i + 1) = i + 1
  <2>1. i + 1 \in X(i + 1) /\ X(i + 1) \in SUBSET Nat /\ \A y \in X(i + 1) : y <= i + 1
    BY <1>1
  <2> HIDE DEF X
  <2>2. S!LastIn(X(i + 1)) = i + 1
    BY <2>1, LastInIs
  <2> QED  BY <1>0, <2>2
<1>2. ASSUME lines[i + 1].kind # "header"
      PROVE  LastHeader(i + 1) = LastHeader(i)
  <2>1. ASSUME NEW h
        PROVE  h \in X(i + 1) <=> h \in X(i)
    BY <1>2
  <2>2. X(i + 1) = X(i)
    <3> HIDE DEF X
    <3> QED  BY <2>1
  <2> HIDE DEF X
  <2> QED  BY <1>0, <2>2
<1>3. X(0) = {}
  OBVIOUS
<1>4. LastHeader(0) = 0
  BY <1>3 DEF LastHeader, S!LastIn
<1> QED  BY <1>1, <1>2, <1>4

\* Of the headers noted, the last up to where a cursor may still be cut.
NotedAt(s, end) ==
    LET behind == {h \in s.noted : h <= end}
    IN LastHeader(end) = IF behind = {} THEN s.committed ELSE S!LastIn(behind)

HeadersNoted(s, i) ==
    /\ s.cursor.context = LastHeader(s.cursor.at)
    /\ ~s.halted =>
          /\ s.noted \subseteq 1..i /\ s.header = LastHeader(i) /\ NotedAt(s, i)
          /\ s.pending # 0 => s.pendingAt \in 1..i /\ NotedAt(s, s.pendingAt - 1)

\* The next record is no header.
LEMMA NotedStays ==
    ASSUME NEW i \in Nat, lines[i + 1].kind # "header",
           NEW X \in SUBSET (1..i), NEW m,
           LastHeader(i) = IF {h \in X : h <= i} = {} THEN m ELSE S!LastIn({h \in X : h <= i})
    PROVE  LastHeader(i + 1) = IF {h \in X : h <= i + 1} = {} THEN m
                               ELSE S!LastIn({h \in X : h <= i + 1})
<1>1. {h \in X : h <= i + 1} = {h \in X : h <= i}
  <2>1. \A h \in X : h \in 1..i
    OBVIOUS
  <2>2. \A h \in X : h <= i + 1 <=> h <= i
    BY <2>1
  <2> QED  BY <2>2
<1> QED  BY <1>1, LastHeaderIs

LEMMA NoCallObserved ==
    ASSUME NEW s \in ParseStates, NEW i, lines[i].kind \notin {"call", "ask", "output", "answer"}
    PROVE  S!Observed(s, i) = s
<1> DEFINE k == lines[i].kind
           t == S!Registers(s.turn, k)
<1>1. s.turn \in OpenTurns
  BY StateTypes
<1>2. t = s.turn
  BY <1>1 DEF S!Registers, OpenTurns
<1>3. S!Records(t, k) = s.turn
  BY <1>1, <1>2 DEF S!Records, OpenTurns
<1> HIDE DEF t
<1>4. [s EXCEPT !.turn = s.turn] = s
  BY DEF ParseStates
<1> QED  BY <1>3, <1>4 DEF S!Observed, t

\* What is left of a record that opens no turn and is no header.
LEMMA HeadersStay ==
    ASSUME NEW s \in ParseStates, NEW i,
           NEW u \in {S!Signalled(s, i), S!Retried(s, i), S!Observed(s, i), S!Folded(s, i)}
    PROVE  u.noted = s.noted /\ u.header = s.header /\ u.committed = s.committed
<1>1. CASE u = S!Signalled(s, i)
  BY <1>1 DEF S!Signalled, ParseStates
<1>2. CASE u = S!Retried(s, i)
  BY <1>2 DEF S!Retried, ParseStates
<1>3. CASE u = S!Observed(s, i)
  BY <1>3 DEF S!Observed, ParseStates
<1>4. CASE u = S!Folded(s, i)
  BY <1>4 DEF S!Folded, ParseStates
<1> QED  BY <1>1, <1>2, <1>3, <1>4

\* After the headers of record i + 1 are noted.
HeadersRead(s, i) ==
    /\ s.noted \subseteq 1..(i + 1) /\ s.header = LastHeader(i + 1) /\ NotedAt(s, i + 1)
    /\ lines[i + 1].kind # "header" => NotedAt(s, i)
    /\ s.pending # 0 => s.pendingAt \in 1..(i + 1) /\ NotedAt(s, s.pendingAt - 1)

LEMMA HeaderIsNoted ==
    ASSUME NEW s \in ParseStates, NEW i \in Nat, ~s.halted, HeadersNoted(s, i)
    PROVE  HeadersRead(S!NotesHeader(s, i + 1), i)
<1> DEFINE u == S!NotesHeader(s, i + 1)
<1>0. s.noted \in SUBSET Nat /\ IsFiniteSet(s.noted) /\ s.pendingAt \in Nat /\ i + 1 \in Nat
  BY DEF ParseStates
<1>1. /\ s.noted \subseteq 1..i /\ s.header = LastHeader(i) /\ NotedAt(s, i)
      /\ s.pending # 0 => s.pendingAt \in 1..i /\ NotedAt(s, s.pendingAt - 1)
  BY DEF HeadersNoted
<1>2. CASE lines[i + 1].kind # "header"
  <2>1. u = s
    BY <1>2 DEF S!NotesHeader
  <2>2. NotedAt(s, i + 1)
    BY <1>1, <1>2, NotedStays DEF NotedAt
  <2>3. LastHeader(i + 1) = LastHeader(i) /\ s.noted \subseteq 1..(i + 1)
    BY <1>1, <1>2, LastHeaderIs
  <2>4. s.pending # 0 => s.pendingAt \in 1..(i + 1)
    BY <1>1
  <2> QED  BY <1>1, <1>2, <2>1, <2>2, <2>3, <2>4 DEF HeadersRead
<1>3. CASE lines[i + 1].kind = "header"
  <2> DEFINE cutoff == IF s.pending # 0 THEN s.pendingAt ELSE i + 1
             before == {h \in s.noted : h < cutoff}
             noted  == {i + 1} \union (IF before = {} THEN {} ELSE {S!LastIn(before)})
  <2>1. /\ u.header = i + 1 /\ u.noted = noted /\ u.committed = s.committed
        /\ u.pending = s.pending /\ u.pendingAt = s.pendingAt
    BY <1>3 DEF S!NotesHeader, ParseStates
  <2>2. cutoff \in Nat /\ cutoff <= i + 1
    BY <1>0, <1>1
  <2>3. before \in SUBSET Nat /\ IsFiniteSet(before) /\ before \subseteq 1..i
    <3>1. before \subseteq s.noted
      OBVIOUS
    <3> HIDE DEF before
    <3> QED  BY <1>0, <1>1, <3>1, FS_Subset
  <2>4. before # {} => S!LastIn(before) \in before
    <3> HIDE DEF before
    <3> QED  BY <2>3, LastInHas
  <2>5. noted \subseteq 1..(i + 1) /\ i + 1 \in noted
    <3>1. before # {} => S!LastIn(before) \in 1..i
      <4> HIDE DEF before
      <4> QED  BY <2>3, <2>4
    <3>2. \A h \in 1..i : h \in 1..(i + 1)
      OBVIOUS
    <3>3. i + 1 \in 1..(i + 1)
      OBVIOUS
    <3> HIDE DEF before
    <3> QED  BY <3>1, <3>2, <3>3
  <2>6. \A h \in noted : h # i + 1 => h = S!LastIn(before) /\ before # {}
    OBVIOUS
  <2>7. before # {} => S!LastIn(before) \in noted
    OBVIOUS
  <2>8. LastHeader(i + 1) = i + 1
    BY <1>3, LastHeaderIs
  <2>9. \A h \in before : h < cutoff
    OBVIOUS
  <2> HIDE DEF noted, u
  <2>10. NotedAt(u, i + 1)
    <3> DEFINE X == {h \in noted : h <= i + 1}
    <3>0. \A h \in noted : h \in Nat /\ h <= i + 1
      BY <2>5
    <3>1. i + 1 \in X /\ X \in SUBSET Nat /\ \A y \in X : y <= i + 1
      BY <1>0, <2>5, <3>0
    <3> HIDE DEF X
    <3>2. S!LastIn(X) = i + 1 /\ X # {}
      BY <3>1, LastInIs
    <3> QED  BY <2>1, <2>8, <3>2 DEF NotedAt, X
  <2>11. ASSUME s.pending # 0
         PROVE  NotedAt(u, u.pendingAt - 1)
    <3> DEFINE X == {h \in noted : h <= s.pendingAt - 1}
               Y == {h \in s.noted : h <= s.pendingAt - 1}
    <3>0. s.pendingAt \in 1..i /\ NotedAt(s, s.pendingAt - 1) /\ cutoff = s.pendingAt
      BY <1>1, <2>11
    <3>1. Y = before
      <4>1. \A h \in s.noted : h <= s.pendingAt - 1 <=> h < s.pendingAt
        BY <1>0
      <4> QED  BY <3>0, <4>1
    <3> HIDE DEF before, cutoff
    <3>2. \A h \in X : h # i + 1
      BY <3>0
    <3>3. CASE before = {}
      <4>1. X = {}
        BY <2>6, <3>2, <3>3
      <4> HIDE DEF X, Y
      <4> QED  BY <2>1, <3>0, <3>1, <3>3, <4>1 DEF NotedAt, X, Y
    <3>4. CASE before # {}
      <4>1. S!LastIn(before) \in X
        <5>1. S!LastIn(before) \in noted /\ S!LastIn(before) < s.pendingAt
              /\ S!LastIn(before) \in Nat
          BY <2>3, <2>4, <2>7, <2>9, <3>0, <3>4
        <5> QED  BY <3>0, <5>1
      <4>2. \A h \in X : h = S!LastIn(before)
        BY <2>6, <3>2
      <4>3. X # {} /\ X \in SUBSET Nat
        BY <2>3, <2>4, <3>4, <4>1, <4>2
      <4>4. S!LastIn(X) = S!LastIn(before)
        <5>1. S!LastIn(before) \in Nat
          BY <2>3, <2>4, <3>4
        <5>2. \A h \in X : h <= S!LastIn(before)
          BY <4>2, <5>1
        <5> HIDE DEF X
        <5> QED  BY <4>1, <4>3, <5>2, LastInIs
      <4> HIDE DEF X, Y
      <4> QED  BY <2>1, <3>0, <3>1, <3>4, <4>3, <4>4 DEF NotedAt, X, Y
    <3> QED  BY <3>3, <3>4
  <2>12. u.pending # 0 => u.pendingAt \in 1..(i + 1)
    BY <1>0, <1>1, <2>1
  <2> QED  BY <1>3, <2>1, <2>5, <2>8, <2>10, <2>11, <2>12 DEF HeadersRead, u
<1> QED  BY <1>2, <1>3

LEMMA MarkerRead ==
    ASSUME NEW s, NEW i \in Nat, HeadersRead(s, i), NEW u,
           u.noted = s.noted, u.header = s.header, u.committed = s.committed,
           \/ u.pending = 0
           \/ u.pending = s.pending /\ u.pendingAt = s.pendingAt
           \/ u.pendingAt = i + 1 /\ lines[i + 1].kind = "start"
    PROVE  HeadersRead(u, i)
<1>1. /\ u.noted \subseteq 1..(i + 1) /\ u.header = LastHeader(i + 1) /\ NotedAt(u, i + 1)
      /\ lines[i + 1].kind # "header" => NotedAt(u, i)
  BY DEF HeadersRead, NotedAt
<1>2. ASSUME u.pending # 0
      PROVE  u.pendingAt \in 1..(i + 1) /\ NotedAt(u, u.pendingAt - 1)
  <2>1. CASE u.pending = s.pending /\ u.pendingAt = s.pendingAt
    BY <1>2, <2>1 DEF HeadersRead, NotedAt
  <2>2. CASE u.pendingAt = i + 1 /\ lines[i + 1].kind = "start"
    <3>1. u.pendingAt - 1 = i /\ u.pendingAt \in 1..(i + 1)
      BY <2>2
    <3> QED  BY <1>1, <2>2, <3>1
  <2> QED  BY <1>2, <2>1, <2>2
<1> QED  BY <1>1, <1>2 DEF HeadersRead

\* A cursor is issued with the header in force where the turn was cut.
LEMMA ContextIsNoted ==
    ASSUME NEW s \in ParseStates, NEW i \in Nat, s.noted \subseteq 1..(i + 1),
           NotedAt(s, i + 1), NEW end \in Nat, end <= i + 1, NotedAt(s, end)
    PROVE  LET u == S!ContextAt(s, end) IN
           /\ u.committed = LastHeader(end) /\ u.noted \subseteq 1..(i + 1)
           /\ NotedAt(u, i + 1) /\ u.header = s.header
<1> DEFINE X == s.noted
           A == {h \in X : h <= end}
           B == X \ A
           u == S!ContextAt(s, end)
<1>1. /\ u.committed = (IF A = {} THEN s.committed ELSE S!LastIn(A)) /\ u.noted = B
      /\ u.header = s.header
  BY DEF S!ContextAt, ParseStates
<1>2. u.committed = LastHeader(end)
  BY <1>1 DEF NotedAt
<1>3. X \in SUBSET Nat /\ IsFiniteSet(X) /\ B \in SUBSET X /\ IsFiniteSet(B)
  <2>1. X \in SUBSET Nat /\ IsFiniteSet(X)
    BY DEF ParseStates
  <2>2. B \subseteq X
    OBVIOUS
  <2> HIDE DEF B, X
  <2> QED  BY <2>1, <2>2, FS_Subset
<1>4. \A h \in X : h \in 1..(i + 1)
  OBVIOUS
<1>5. {h \in X : h <= i + 1} = X /\ {h \in B : h <= i + 1} = B
  BY <1>4
<1>6. LastHeader(i + 1) = IF X = {} THEN s.committed ELSE S!LastIn(X)
  BY <1>5 DEF NotedAt
<1>7. CASE B = {}
  <2>1. A = X
    BY <1>7
  <2>2. LastHeader(i + 1) = u.committed
    BY <1>1, <1>6, <2>1
  <2> HIDE DEF u, B
  <2> QED  BY <1>1, <1>2, <1>3, <1>5, <1>7, <2>2 DEF NotedAt, u
<1>8. CASE B # {}
  <2>0. X # {}
    BY <1>8
  <2>1. S!LastIn(B) \in B /\ \A y \in B : y <= S!LastIn(B)
    <3>1. B \in SUBSET Nat
      BY <1>3
    <3> HIDE DEF B
    <3> QED  BY <1>3, <1>8, <3>1, LastInHas
  <2>2. \A y \in X : y \notin B => y <= end
    OBVIOUS
  <2>3. \A y \in B : y > end /\ y \in Nat
    BY <1>3
  <2>4. \A y \in X : y <= S!LastIn(B)
    <3> HIDE DEF B
    <3> QED  BY <1>3, <2>1, <2>2, <2>3
  <2>5. S!LastIn(X) = S!LastIn(B)
    <3>1. S!LastIn(B) \in X
      BY <1>3, <2>1
    <3> HIDE DEF B
    <3> QED  BY <1>3, <2>4, <3>1, LastInIs
  <2> HIDE DEF u, B, X
  <2>6. NotedAt(u, i + 1)
    BY <1>1, <1>5, <1>6, <1>8, <2>0, <2>5 DEF NotedAt
  <2>7. B \subseteq 1..(i + 1)
    BY <1>3, <1>4
  <2> QED  BY <1>1, <1>2, <2>6, <2>7 DEF u
<1> QED  BY <1>7, <1>8

LEMMA PromptNoted ==
    ASSUME NEW s \in ParseStates, NEW i \in Nat, HeadersRead(s, i),
           s.cursor.context = LastHeader(s.cursor.at), lines[i + 1].kind = "user"
    PROVE  HeadersNoted(S!Opened(s, i + 1), i + 1)
<1> DEFINE end    == IF s.pending # 0 THEN s.pendingAt - 1 ELSE (i + 1) - 1
           closed == IF s.turn.from = 0 THEN s ELSE S!Yields(s, end, FALSE)
           turn   == [S!NoTurn EXCEPT !.from = i + 1, !.started = (s.pending # 0),
                                      !.id = s.pending]
           u      == [closed EXCEPT !.turn = turn, !.pending = 0]
<1>1. S!Opened(s, i + 1) = u
  BY DEF S!Opened
<1>2. end \in Nat /\ end <= i + 1 /\ NotedAt(s, end)
  <2>1. CASE s.pending # 0
    <3>1. s.pendingAt \in 1..(i + 1) /\ NotedAt(s, s.pendingAt - 1)
      BY <2>1 DEF HeadersRead
    <3> QED  BY <2>1, <3>1
  <2>2. CASE s.pending = 0
    <3>1. (i + 1) - 1 = i
      OBVIOUS
    <3> QED  BY <2>2, <3>1 DEF HeadersRead
  <2> QED  BY <2>1, <2>2
<1>3. /\ s.noted \subseteq 1..(i + 1) /\ s.header = LastHeader(i + 1) /\ NotedAt(s, i + 1)
  BY DEF HeadersRead
<1> HIDE DEF end, turn
<1>4. /\ closed.cursor.context = LastHeader(closed.cursor.at)
      /\ ~closed.halted => /\ closed.noted \subseteq 1..(i + 1)
                           /\ closed.header = LastHeader(i + 1) /\ NotedAt(closed, i + 1)
  <2>1. CASE s.turn.from = 0
    BY <1>3, <2>1
  <2>2. CASE s.turn.from # 0 /\ s.turn.asked > 0
    <3>1. closed = [s EXCEPT !.halted = TRUE]
      BY <2>2 DEF S!Yields
    <3> QED  BY <3>1 DEF ParseStates
  <2>3. CASE s.turn.from # 0 /\ ~(s.turn.asked > 0)
    <3> DEFINE x == S!ContextAt(s, end)
    <3>1. /\ x \in ParseStates /\ x.committed = LastHeader(end)
          /\ x.noted \subseteq 1..(i + 1) /\ NotedAt(x, i + 1) /\ x.header = s.header
      BY <1>2, <1>3, ContextIsNoted, ContextNoted
    <3> HIDE DEF x
    <3>2. PICK t, m : closed = [x EXCEPT !.out = t,
                                    !.cursor = [at |-> end, next |-> s.cursor.next + 1,
                                                mark |-> m, context |-> x.committed]]
      BY <2>3 DEF S!Yields, x
    <3>3. /\ closed.noted = x.noted /\ closed.header = x.header
          /\ closed.committed = x.committed
          /\ closed.cursor.at = end /\ closed.cursor.context = x.committed
      <4> HIDE DEF closed
      <4> QED  BY <3>1, <3>2 DEF ParseStates
    <3> HIDE DEF closed
    <3> QED  BY <1>3, <3>1, <3>3 DEF NotedAt
  <2> QED  BY <2>1, <2>2, <2>3
<1>5. /\ u.noted = closed.noted /\ u.header = closed.header /\ u.committed = closed.committed
      /\ u.cursor = closed.cursor /\ u.halted = closed.halted /\ u.pending = 0
  <2>1. DOMAIN closed = DOMAIN s
    BY DEF S!Yields, S!ContextAt
  <2>2. DOMAIN s = {"turn", "pending", "pendingAt", "header", "committed", "noted", "out",
                    "cursor", "halted"}
    BY DEF ParseStates
  <2> HIDE DEF closed
  <2> QED  BY <2>1, <2>2
<1> HIDE DEF u, closed
<1> QED  BY <1>1, <1>4, <1>5 DEF HeadersNoted, NotedAt

\* So the cursors of a parse that starts at such a cursor carry the header before them.
LEMMA HeadersKept ==
    ASSUME lines \in Seq(Entries), NEW c \in Cursors, NEW i \in Nat, c.at <= i,
           i + 1 <= Len(lines), NEW s, ParsedInv(s, c, i), HeadersNoted(s, i)
    PROVE  HeadersNoted(S!Read(s, i + 1), i + 1)
<1>0. s \in ParseStates /\ i + 1 \in Nat /\ i + 1 \in 1..Len(lines)
  BY DEF ParsedInv
<1>1. CASE s.halted
  BY <1>1 DEF S!Read, HeadersNoted
<1>2. CASE ~s.halted
  <2> DEFINE s1 == S!NotesHeader(s, i + 1)
             s2 == S!Signalled(s1, i + 1)
             s3 == S!Retried(s2, i + 1)
             s4 == S!Observed(s3, i + 1)
             s5 == S!Opened(s4, i + 1)
             s6 == S!Folded(s5, i + 1)
  <2>1. S!Read(s, i + 1) = s6
    BY <1>2 DEF S!Read
  <2>2. s1 \in ParseStates /\ s1.cursor = s.cursor /\ HeadersRead(s1, i)
    BY <1>0, <1>2, HeaderNoted, HeaderIsNoted
  <2> HIDE DEF s1
  <2>3. s2 \in ParseStates /\ s2.cursor = s.cursor /\ HeadersRead(s2, i)
    <3>1. lines[i + 1] \in Entries
      BY <1>0
    <3>2. /\ s2 \in ParseStates /\ s2.cursor = s.cursor
          /\ \/ s2.pending = 0
             \/ s2.pending = s1.pending /\ s2.pendingAt = s1.pendingAt
             \/ s2.pendingAt = i + 1 /\ lines[i + 1].kind = "start"
      BY <1>0, <2>2, <3>1, SignalRead
    <3>3. s2.noted = s1.noted /\ s2.header = s1.header /\ s2.committed = s1.committed
      BY <2>2, HeadersStay
    <3> HIDE DEF s2
    <3> QED  BY <2>2, <3>2, <3>3, MarkerRead
  <2> HIDE DEF s2
  <2>4. s3 \in ParseStates /\ s3.cursor = s.cursor /\ HeadersRead(s3, i)
    <3>2. /\ s3 \in ParseStates /\ s3.cursor = s.cursor
          /\ s3.pendingAt = s2.pendingAt /\ (s3.pending = 0 \/ s3.pending = s2.pending)
      BY <1>0, <2>3, RetryRead
    <3>3. s3.noted = s2.noted /\ s3.header = s2.header /\ s3.committed = s2.committed
      BY <2>3, HeadersStay
    <3> HIDE DEF s3
    <3> QED  BY <2>3, <3>2, <3>3, MarkerRead
  <2> HIDE DEF s3
  <2>5. s4 \in ParseStates /\ s4.cursor = s.cursor /\ HeadersRead(s4, i)
    <3>2. /\ s4 \in ParseStates /\ s4.cursor = s.cursor
          /\ s4.pendingAt = s3.pendingAt /\ s4.pending = s3.pending
      BY <1>0, <2>4, CallsObserved
    <3>3. s4.noted = s3.noted /\ s4.header = s3.header /\ s4.committed = s3.committed
      BY <2>4, HeadersStay
    <3> HIDE DEF s4
    <3> QED  BY <2>4, <3>2, <3>3, MarkerRead
  <2> HIDE DEF s4
  <2>6. HeadersNoted(s5, i + 1)
    <3>1. CASE lines[i + 1].kind = "user"
      BY <2>5, <3>1, PromptNoted DEF HeadersNoted
    <3>2. CASE lines[i + 1].kind # "user"
      <4>1. s5 = s4
        BY <3>2 DEF S!Opened
      <4> QED  BY <2>5, <4>1 DEF HeadersNoted, HeadersRead
    <3> QED  BY <3>1, <3>2
  <2>7. s6.noted = s5.noted /\ s6.header = s5.header /\ s6.committed = s5.committed
        /\ s6.cursor = s5.cursor /\ s6.halted = s5.halted
        /\ s6.pending = s5.pending /\ s6.pendingAt = s5.pendingAt
    <3>1. DOMAIN s5 = DOMAIN s4
      BY DEF S!Opened, S!Yields, S!ContextAt
    <3>2. DOMAIN s4 = {"turn", "pending", "pendingAt", "header", "committed", "noted", "out",
                       "cursor", "halted"}
      BY <2>5 DEF ParseStates
    <3> HIDE DEF s5
    <3> QED  BY <3>1, <3>2 DEF S!Folded
  <2> HIDE DEF s5, s6
  <2> QED  BY <2>1, <2>6, <2>7 DEF HeadersNoted, NotedAt
<1> QED  BY <1>1, <1>2

LEMMA CursorsCarryHeaders ==
    ASSUME lines \in Seq(Entries), NEW c \in Cursors, c.context = LastHeader(c.at),
           NEW end \in Nat, c.at <= end, end <= Len(lines)
    PROVE  HeadersNoted(S!Parsed(c, end), end)
<1> DEFINE Good == {k \in Nat : c.at + k <= Len(lines) =>
                                  HeadersNoted(S!Parsed(c, c.at + k), c.at + k)}
<1>1. c.at \in Nat
  BY DEF Cursors
<1>2. 0 \in Good
  <2>1. S!Parsed(c, c.at) = S!Resumed(c)
    BY <1>1, ParsedSteps
  <2>2. HeadersNoted(S!Resumed(c), c.at)
    BY DEF HeadersNoted, NotedAt, S!Resumed
  <2>3. c.at + 0 = c.at
    BY <1>1
  <2> QED  BY <2>1, <2>2, <2>3
<1>3. ASSUME NEW k \in Nat, k \in Good
      PROVE  k + 1 \in Good
  <2> SUFFICES ASSUME c.at + (k + 1) <= Len(lines)
               PROVE  HeadersNoted(S!Parsed(c, c.at + (k + 1)), c.at + (k + 1))
    OBVIOUS
  <2> DEFINE i == c.at + k
  <2>1. i \in Nat /\ i >= c.at /\ c.at <= i /\ i + 1 = c.at + (k + 1) /\ i + 1 <= Len(lines)
        /\ i <= Len(lines)
    BY <1>1
  <2>2. HeadersNoted(S!Parsed(c, i), i)
    BY <1>3, <2>1
  <2> HIDE DEF i
  <2>3. ParsedInv(S!Parsed(c, i), c, i)
    BY <2>1, ParsedKeeps
  <2>4. S!Parsed(c, i + 1) = S!Read(S!Parsed(c, i), i + 1)
    BY <1>1, <2>1, ParsedSteps
  <2>5. HeadersNoted(S!Parsed(c, i + 1), i + 1)
    BY <2>1, <2>2, <2>3, <2>4, HeadersKept
  <2> QED  BY <2>1, <2>5
<1>4. \A k \in Nat : k \in Good
  <2> HIDE DEF Good
  <2> QED  BY <1>2, <1>3, UpwardInduction
<1>5. end - c.at \in Nat /\ c.at + (end - c.at) = end
  BY <1>1
<1> QED  BY <1>4, <1>5

------------------------------------------------------------------------------
\* Two parses that are alike read the next record alike.
Follows(w, r, pre) == Alike(w, r) /\ w.out = pre \o r.out

LEMMA HeadersFollow ==
    ASSUME NEW w \in ParseStates, NEW r \in ParseStates, NEW pre, Follows(w, r, pre), NEW i
    PROVE  Follows(S!NotesHeader(w, i), S!NotesHeader(r, i), pre)
BY DEF Follows, Alike, SameMarker, S!NotesHeader, ParseStates

LEMMA MarkersFollow ==
    ASSUME NEW w \in ParseStates, NEW r \in ParseStates, NEW pre, Follows(w, r, pre), NEW i
    PROVE  Follows(S!Signalled(w, i), S!Signalled(r, i), pre)
BY DEF Follows, Alike, SameMarker, S!Signalled, ParseStates

LEMMA RetriesFollow ==
    ASSUME NEW w \in ParseStates, NEW r \in ParseStates, NEW pre, Follows(w, r, pre), NEW i
    PROVE  Follows(S!Retried(w, i), S!Retried(r, i), pre)
BY DEF Follows, Alike, SameMarker, S!Retried, ParseStates

LEMMA CallsFollow ==
    ASSUME NEW w \in ParseStates, NEW r \in ParseStates, NEW pre, Follows(w, r, pre), NEW i
    PROVE  Follows(S!Observed(w, i), S!Observed(r, i), pre)
BY DEF Follows, Alike, SameMarker, S!Observed, ParseStates

LEMMA FoldsFollow ==
    ASSUME NEW w \in ParseStates, NEW r \in ParseStates, NEW pre, Follows(w, r, pre), NEW i
    PROVE  Follows(S!Folded(w, i), S!Folded(r, i), pre)
BY DEF Follows, Alike, SameMarker, S!Folded, ParseStates

\* What cutting a turn does to the rest of the state.
Yielded(y, s, end, lost) ==
    /\ DOMAIN y = DOMAIN s /\ y.turn = s.turn /\ y.header = s.header
    /\ y.pending = s.pending /\ y.pendingAt = s.pendingAt
    /\ s.turn.asked > 0 => y.halted = TRUE /\ y.out = s.out /\ y.cursor = s.cursor
    /\ ~(s.turn.asked > 0) =>
          /\ y.halted = s.halted
          /\ y.cursor.at = end /\ y.cursor.next = s.cursor.next + 1
          /\ y.cursor.context = S!ContextAt(s, end).committed
          /\ y.out = Append(s.out, CutTurn(s, lost))

YieldOf(y, s, end, lost) == \/ y = S!Yields(s, end, FALSE) /\ lost = FALSE
                            \/ y = S!Yields(s, end, TRUE) /\ lost = (s.pending # 0)

LEMMA YieldIs ==
    ASSUME NEW s \in ParseStates, NEW end, NEW lost \in BOOLEAN, NEW y, YieldOf(y, s, end, lost)
    PROVE  Yielded(y, s, end, lost)
<1> DEFINE t == CutTurn(s, lost)
           x == S!ContextAt(s, end)
           next == [at |-> end, next |-> s.cursor.next + 1, mark |-> lines[end].file,
                    context |-> x.committed]
<1>1. CASE s.turn.asked > 0
  <2>1. y = [s EXCEPT !.halted = TRUE]
    BY <1>1 DEF S!Yields, YieldOf
  <2> QED  BY <1>1, <2>1 DEF ParseStates, Yielded
<1>2. CASE ~(s.turn.asked > 0)
  <2>1. y = [x EXCEPT !.out = Append(x.out, t), !.cursor = next]
    <3>1. CASE y = S!Yields(s, end, FALSE) /\ lost = FALSE
      <4>1. lost = (FALSE /\ s.pending # 0)
        BY <3>1
      <4>2. S!Yields(s, end, FALSE) =
               [x EXCEPT !.out = Append(@, CutTurn(s, FALSE /\ s.pending # 0)),
                         !.cursor = next]
        BY <1>2 DEF S!Yields, CutTurn
      <4> QED  BY <3>1, <4>1, <4>2
    <3>2. CASE y = S!Yields(s, end, TRUE) /\ lost = (s.pending # 0)
      <4>1. lost = (TRUE /\ s.pending # 0)
        BY <3>2
      <4>2. S!Yields(s, end, TRUE) =
               [x EXCEPT !.out = Append(@, CutTurn(s, TRUE /\ s.pending # 0)),
                         !.cursor = next]
        BY <1>2 DEF S!Yields, CutTurn
      <4> QED  BY <3>2, <4>1, <4>2
    <3> QED  BY <3>1, <3>2 DEF YieldOf
  <2>2. /\ x.turn = s.turn /\ x.pending = s.pending /\ x.pendingAt = s.pendingAt
        /\ x.header = s.header /\ x.halted = s.halted /\ x.out = s.out /\ DOMAIN x = DOMAIN s
    BY DEF S!ContextAt, ParseStates
  <2>3. next.at = end /\ next.next = s.cursor.next + 1 /\ next.context = x.committed
    OBVIOUS
  <2>4. DOMAIN s = {"turn", "pending", "pendingAt", "header", "committed", "noted", "out",
                    "cursor", "halted"}
    BY DEF ParseStates
  <2> HIDE DEF x, next, t
  <2>5. /\ DOMAIN y = DOMAIN s /\ y.turn = s.turn /\ y.header = s.header
        /\ y.pending = s.pending /\ y.pendingAt = s.pendingAt
        /\ y.halted = s.halted /\ y.cursor = next /\ y.out = Append(s.out, t)
    BY <2>1, <2>2, <2>4
  <2> QED  BY <1>2, <2>3, <2>5 DEF t, x, Yielded
<1> QED  BY <1>1, <1>2

LEMMA AppendedBehind ==
    ASSUME NEW x \in Seq(CutTurns), NEW y \in Seq(CutTurns), NEW e \in CutTurns
    PROVE  Append(x \o y, e) = x \o Append(y, e)
<1> DEFINE X == CutTurns
           a == Append(x \o y, e)
           b == x \o Append(y, e)
           n == Len(x) + Len(y) + 1
<1>1. a \in Seq(X) /\ b \in Seq(X) /\ Len(a) = n /\ Len(b) = n
      /\ Len(x) \in Nat /\ Len(y) \in Nat
  OBVIOUS
<1>2. ASSUME NEW k \in 1..n
      PROVE  a[k] = b[k]
  OBVIOUS
<1> HIDE DEF a, b
<1>3. a \in [1..n -> X] /\ b \in [1..n -> X]
  <2>1. \A q \in Seq(X) : q \in [1..Len(q) -> X]
    OBVIOUS
  <2> QED  BY <1>1, <2>1
<1> HIDE DEF n
<1>4. DOMAIN a = 1..n /\ DOMAIN b = 1..n
  BY <1>3
<1>5. a = [k \in 1..n |-> a[k]] /\ b = [k \in 1..n |-> b[k]]
  BY <1>3
<1>6. [k \in 1..n |-> a[k]] = [k \in 1..n |-> b[k]]
  BY <1>2
<1>7. a = b
  BY <1>5, <1>6
<1> QED  BY <1>7 DEF a, b

LEMMA CutTurnTypes ==
    ASSUME NEW s \in ParseStates, s.turn.from \in 1..Len(lines), lines \in Seq(Entries),
           NEW lost \in BOOLEAN
    PROVE  CutTurn(s, lost) \in CutTurns
<1>1. lines[s.turn.from].file \in BOOLEAN
  BY LineRead
<1>2. /\ s.turn.from \in Nat /\ s.turn.last \in Nat /\ s.turn.header \in Nat
      /\ s.turn.answered \in BOOLEAN /\ s.cursor.next \in Nat
  BY StateTypes
<1> QED  BY <1>1, <1>2 DEF CutTurns, CutTurn

\* The turn that a prompt opens, and what reading the prompt makes of the state.
Started(s, i) == [S!NoTurn EXCEPT !.from = i, !.started = (s.pending # 0), !.id = s.pending]
TurnOf(s, i)  == [Started(s, i) EXCEPT !.last = i, !.header = s.header,
                                       !.text = @ \/ lines[i].kind = "reply"]
EndAt(s, i)  == IF s.pending # 0 THEN s.pendingAt - 1 ELSE i - 1

PromptRead(u, s, i) ==
    /\ u.turn = TurnOf(s, i) /\ u.pending = 0 /\ u.header = s.header
    /\ s.turn.from = 0 => u.out = s.out /\ u.cursor = s.cursor /\ u.halted = s.halted
    /\ s.turn.from # 0 /\ s.turn.asked > 0 =>
          u.out = s.out /\ u.cursor = s.cursor /\ u.halted = TRUE
    /\ s.turn.from # 0 /\ ~(s.turn.asked > 0) =>
          /\ u.out = Append(s.out, Cut(s)) /\ u.halted = s.halted
          /\ u.cursor.at = EndAt(s, i) /\ u.cursor.next = s.cursor.next + 1

LEMMA PromptIsRead ==
    ASSUME NEW s \in ParseStates, NEW i \in Nat, i # 0, lines[i].kind = "user", ~s.halted
    PROVE  PromptRead(S!Read(s, i), s, i)
<1> DEFINE y      == S!Yields(s, EndAt(s, i), FALSE)
           closed == IF s.turn.from = 0 THEN s ELSE y
           t1     == Started(s, i)
           o      == [closed EXCEPT !.turn = t1, !.pending = 0]
           u      == S!Folded(o, i)
           lost   == FALSE
<1>1. S!NotesHeader(s, i) = s /\ S!Signalled(s, i) = s
  BY DEF S!NotesHeader, S!Signalled
<1>2. S!Retried(s, i) = s
  BY DEF S!Retried, S!Content
<1>3. S!Observed(s, i) = s
  BY NoCallObserved
<1>4. S!Opened(s, i) = o
  BY DEF S!Opened, EndAt, Started
<1>5. S!Read(s, i) = u
  BY <1>1, <1>2, <1>3, <1>4 DEF S!Read
<1>6. YieldOf(y, s, EndAt(s, i), lost) /\ lost \in BOOLEAN
  BY DEF YieldOf
<1> HIDE DEF lost, y
<1>7. Yielded(y, s, EndAt(s, i), lost)
  BY <1>6, YieldIs
<1>8. DOMAIN s = {"turn", "pending", "pendingAt", "header", "committed", "noted", "out",
                  "cursor", "halted"}
  BY DEF ParseStates
<1>9. DOMAIN closed = DOMAIN s /\ closed.header = s.header
  BY <1>7 DEF Yielded
<1>10. /\ s.turn.from = 0 => closed.out = s.out /\ closed.cursor = s.cursor
                             /\ closed.halted = s.halted
       /\ s.turn.from # 0 => closed.out = y.out /\ closed.cursor = y.cursor
                             /\ closed.halted = y.halted
  OBVIOUS
<1>11. t1.from = i
  BY DEF Started, S!NoTurn
<1> HIDE DEF closed, t1
<1>13. /\ DOMAIN o = DOMAIN s /\ o.turn = t1 /\ o.pending = 0 /\ o.header = s.header
       /\ o.out = closed.out /\ o.cursor = closed.cursor /\ o.halted = closed.halted
  BY <1>8, <1>9
<1> HIDE DEF o
<1>14. u = [o EXCEPT !.turn = [[[o.turn EXCEPT !.last = i] EXCEPT !.header = o.header]
                                  EXCEPT !.text = o.turn.text \/ lines[i].kind = "reply"]]
  <2>1. o.turn.from # 0 /\ lines[i].kind \in S!Content \union {"user"}
    BY <1>11, <1>13
  <2> QED  BY <1>8, <1>11, <1>13, <2>1 DEF S!Folded
<1>15. [[[t1 EXCEPT !.last = i] EXCEPT !.header = s.header]
            EXCEPT !.text = t1.text \/ lines[i].kind = "reply"] = TurnOf(s, i)
  BY DEF TurnOf, t1
<1>16. /\ u.turn = TurnOf(s, i) /\ u.pending = 0 /\ u.header = s.header
       /\ u.out = closed.out /\ u.cursor = closed.cursor /\ u.halted = closed.halted
  BY <1>8, <1>13, <1>14, <1>15
<1> HIDE DEF u
<1>17. Cut(s) = CutTurn(s, lost)
  BY DEF lost, Cut
<1>18. PromptRead(u, s, i)
  BY <1>7, <1>10, <1>16, <1>17 DEF PromptRead, Yielded
<1> QED  BY <1>5, <1>18

LEMMA TurnOfIs ==
    ASSUME NEW s, NEW i, lines[i].kind = "user"
    PROVE  LET t == TurnOf(s, i) IN
           /\ t.from = i /\ t.asked = 0 /\ t.id = s.pending /\ t.finished = FALSE
           /\ s.pending # 0 => t.started
BY DEF TurnOf, Started, S!NoTurn

\* A record that is no prompt.
PlainRead(s, i) ==
    S!Folded(S!Observed(S!Retried(S!Signalled(S!NotesHeader(s, i), i), i), i), i)

LEMMA PlainIsRead ==
    ASSUME NEW s, NEW i, lines[i].kind # "user", ~s.halted
    PROVE  S!Read(s, i) = PlainRead(s, i)
BY DEF S!Read, S!Opened, PlainRead

LEMMA ReadsFollow ==
    ASSUME NEW w \in ParseStates, NEW r \in ParseStates, NEW pre \in Seq(CutTurns),
           Follows(w, r, pre), NEW i \in Nat, i # 0, i \in 1..Len(lines),
           lines \in Seq(Entries), w.turn.from # 0 => w.turn.from \in 1..Len(lines)
    PROVE  Follows(S!Read(w, i), S!Read(r, i), pre)
<1>0. /\ w.pending = r.pending /\ w.header = r.header /\ w.turn = r.turn /\ w.halted = r.halted
      /\ w.pending # 0 => w.pendingAt = r.pendingAt
      /\ w.cursor.next = r.cursor.next /\ w.out = pre \o r.out
  BY DEF Follows, Alike, SameMarker
<1>1. CASE w.halted
  BY <1>0, <1>1 DEF S!Read
<1>2. CASE ~w.halted /\ lines[i].kind # "user"
  <2> DEFINE w1 == S!NotesHeader(w, i)
             w2 == S!Signalled(w1, i)
             w3 == S!Retried(w2, i)
             w4 == S!Observed(w3, i)
             r1 == S!NotesHeader(r, i)
             r2 == S!Signalled(r1, i)
             r3 == S!Retried(r2, i)
             r4 == S!Observed(r3, i)
  <2>0. lines[i] \in Entries
    BY LineRead
  <2>1. Follows(w1, r1, pre) /\ w1 \in ParseStates /\ r1 \in ParseStates
    BY HeadersFollow, HeaderNoted
  <2> HIDE DEF w1, r1
  <2>2. Follows(w2, r2, pre) /\ w2 \in ParseStates /\ r2 \in ParseStates
    BY <2>0, <2>1, MarkersFollow, SignalRead
  <2> HIDE DEF w2, r2
  <2>3. Follows(w3, r3, pre) /\ w3 \in ParseStates /\ r3 \in ParseStates
    BY <2>2, RetriesFollow, RetryRead
  <2> HIDE DEF w3, r3
  <2>4. Follows(w4, r4, pre) /\ w4 \in ParseStates /\ r4 \in ParseStates
    BY <2>3, CallsFollow, CallsObserved
  <2> HIDE DEF w4, r4
  <2>5. Follows(S!Folded(w4, i), S!Folded(r4, i), pre)
    BY <2>4, FoldsFollow
  <2>6. S!Read(w, i) = S!Folded(w4, i) /\ S!Read(r, i) = S!Folded(r4, i)
    BY <1>0, <1>2, PlainIsRead DEF PlainRead, w1, w2, w3, w4, r1, r2, r3, r4
  <2> QED  BY <2>5, <2>6
<1>3. CASE ~w.halted /\ lines[i].kind = "user"
  <2> DEFINE y == S!Read(w, i)
             z == S!Read(r, i)
             t == Cut(w)
  <2>1. PromptRead(y, w, i) /\ PromptRead(z, r, i)
    BY <1>0, <1>3, PromptIsRead
  <2>2. Cut(r) = t /\ TurnOf(r, i) = TurnOf(w, i)
    BY <1>0 DEF Cut, CutTurn, TurnOf, Started
  <2> SUFFICES Follows(y, z, pre)
    OBVIOUS
  <2> HIDE DEF y, z
  <2>a. /\ y.turn = z.turn /\ y.pending = 0 /\ z.pending = 0 /\ y.header = z.header
    BY <1>0, <2>1, <2>2 DEF PromptRead
  <2>3. CASE w.turn.from = 0
    BY <1>0, <2>1, <2>a, <2>3 DEF PromptRead, Follows, Alike, SameMarker
  <2>4. CASE w.turn.from # 0 /\ w.turn.asked > 0
    BY <1>0, <2>1, <2>a, <2>4 DEF PromptRead, Follows, Alike, SameMarker
  <2>5. CASE w.turn.from # 0 /\ ~(w.turn.asked > 0)
    <3>1. t \in CutTurns
      <4> DEFINE lost == FALSE
      <4>1. lost \in BOOLEAN
        OBVIOUS
      <4> HIDE DEF lost
      <4>2. CutTurn(w, lost) \in CutTurns
        BY <2>5, <4>1, CutTurnTypes
      <4> QED  BY <4>2 DEF lost, Cut
    <3> HIDE DEF t
    <3>2. Append(w.out, t) = pre \o Append(r.out, t)
      <4>1. r.out \in Seq(CutTurns)
        BY StateTypes
      <4>2. Append(pre \o r.out, t) = pre \o Append(r.out, t)
        BY <3>1, <4>1, AppendedBehind
      <4> QED  BY <1>0, <4>2
    <3>3. y.out = Append(w.out, t) /\ z.out = Append(r.out, t)
      BY <1>0, <2>1, <2>2, <2>5 DEF PromptRead, t
    <3> QED  BY <1>0, <2>1, <2>a, <2>5, <3>2, <3>3 DEF PromptRead, Follows, Alike, SameMarker
  <2> QED  BY <2>3, <2>4, <2>5
<1> QED  BY <1>1, <1>2, <1>3

LEMMA PlainKeeps ==
    ASSUME NEW s \in ParseStates, NEW i \in Nat, lines[i] \in Entries, lines[i].kind # "user"
    PROVE  LET u == S!Read(s, i) IN
           /\ u.out = s.out /\ u.cursor = s.cursor /\ u.halted = s.halted
           /\ u.turn.from = s.turn.from
<1>1. CASE s.halted
  BY <1>1 DEF S!Read
<1>2. CASE ~s.halted
  <2> DEFINE s1 == S!NotesHeader(s, i)
             s2 == S!Signalled(s1, i)
             s3 == S!Retried(s2, i)
             s4 == S!Observed(s3, i)
             s5 == S!Folded(s4, i)
  <2>1. /\ s1 \in ParseStates /\ s1.turn.from = s.turn.from
        /\ s1.out = s.out /\ s1.cursor = s.cursor /\ s1.halted = s.halted
    BY HeaderNoted
  <2> HIDE DEF s1
  <2>2. /\ s2 \in ParseStates /\ s2.turn.from = s.turn.from
        /\ s2.out = s.out /\ s2.cursor = s.cursor /\ s2.halted = s.halted
    BY <2>1, SignalRead
  <2> HIDE DEF s2
  <2>3. /\ s3 \in ParseStates /\ s3.turn.from = s.turn.from
        /\ s3.out = s.out /\ s3.cursor = s.cursor /\ s3.halted = s.halted
    BY <2>2, RetryRead
  <2> HIDE DEF s3
  <2>4. /\ s4 \in ParseStates /\ s4.turn.from = s.turn.from
        /\ s4.out = s.out /\ s4.cursor = s.cursor /\ s4.halted = s.halted
    BY <2>3, CallsObserved
  <2> HIDE DEF s4
  <2>5. /\ s5.turn.from = s.turn.from
        /\ s5.out = s.out /\ s5.cursor = s.cursor /\ s5.halted = s.halted
    BY <2>4, TurnFolded
  <2>6. S!Read(s, i) = s5
    BY <1>2, PlainIsRead DEF PlainRead, s1, s2, s3, s4
  <2> HIDE DEF s5
  <2> QED  BY <2>5, <2>6
<1> QED  BY <1>1, <1>2

\* The parse of the whole, record by record.
LEMMA WholeIs ==
    ASSUME lines \in Seq(Entries)
    PROVE  /\ S!Start \in Cursors /\ S!Start.at = 0 /\ WholeAt(0) = S!Resumed(S!Start)
           /\ \A i \in Nat : WholeAt(i + 1) = S!Read(WholeAt(i), i + 1)
           /\ \A i \in 0..Len(lines) :
                 ParsedInv(WholeAt(i), S!Start, i) /\ HeadersNoted(WholeAt(i), i)
<1>1. S!Start \in Cursors /\ S!Start.at = 0 /\ S!Start.context = 0
  BY DEF S!Start, Cursors
<1>2. WholeAt(0) = S!Resumed(S!Start)
      /\ \A i \in Nat : WholeAt(i + 1) = S!Read(WholeAt(i), i + 1)
  BY <1>1, ParsedSteps DEF WholeAt
<1>3. S!Start.context = LastHeader(S!Start.at)
  BY <1>1, LastHeaderIs
<1>4. ASSUME NEW i \in 0..Len(lines)
      PROVE  ParsedInv(WholeAt(i), S!Start, i) /\ HeadersNoted(WholeAt(i), i)
  BY <1>1, <1>3, ParsedKeeps, CursorsCarryHeaders DEF WholeAt
<1> QED  BY <1>1, <1>2, <1>4

LEMMA OpenTurnPlaced ==
    ASSUME NEW s, NEW c \in Cursors, NEW i \in 0..Len(lines), ParsedInv(s, c, i), s.turn.from # 0
    PROVE  s.turn.from \in 1..Len(lines)
<1>1. s \in ParseStates /\ s.cursor.at < s.turn.from /\ s.turn.from <= s.turn.last
      /\ s.turn.last <= i
  BY DEF ParsedInv, TurnAhead
<1>2. s.turn.from \in Nat /\ s.turn.last \in Nat /\ s.cursor.at \in Nat
  BY <1>1, StateTypes
<1> QED  BY <1>1, <1>2

LEMMA FollowsOn ==
    ASSUME lines \in Seq(Entries), NEW c \in Cursors, NEW k \in Nat, c.at < k, GoesOnAt(c, k)
    PROVE  \A e \in Nat : k <= e /\ e <= Len(lines) =>
              Follows(WholeAt(e), S!Parsed(c, e), WholeAt(k).out)
<1> DEFINE pre == WholeAt(k).out
           Good == {n \in Nat : k + n <= Len(lines) =>
                                   Follows(WholeAt(k + n), S!Parsed(c, k + n), pre)}
<1>0. c.at \in Nat /\ Len(lines) \in Nat
  BY CursorTypes
<1>1. k <= Len(lines) => pre \in Seq(CutTurns)
  <2> HAVE k <= Len(lines)
  <2>1. WholeAt(k) \in ParseStates
    BY <1>0, WholeIs DEF ParsedInv
  <2> QED  BY <2>1, StateTypes
<1>2. 0 \in Good
  <2>1. CASE k <= Len(lines)
    <3>1. Alike(WholeAt(k), S!Parsed(c, k)) /\ S!Parsed(c, k).out = <<>>
      BY DEF GoesOnAt
    <3>2. pre = pre \o <<>>
      BY <1>1, <2>1
    <3>3. k + 0 = k
      OBVIOUS
    <3> HIDE DEF pre
    <3>4. Follows(WholeAt(k), S!Parsed(c, k), pre)
      BY <3>1, <3>2 DEF Follows, pre
    <3> QED  BY <3>3, <3>4
  <2> QED  BY <2>1
<1>3. ASSUME NEW n \in Nat, n \in Good
      PROVE  n + 1 \in Good
  <2> SUFFICES ASSUME k + (n + 1) <= Len(lines)
               PROVE  Follows(WholeAt(k + (n + 1)), S!Parsed(c, k + (n + 1)), pre)
    OBVIOUS
  <2> DEFINE i == k + n
  <2>1. i \in Nat /\ i + 1 = k + (n + 1) /\ i >= c.at /\ i \in 0..Len(lines) /\ i + 1 \in Nat
        /\ i + 1 # 0 /\ i + 1 \in 1..Len(lines) /\ k <= Len(lines) /\ i <= Len(lines)
        /\ c.at <= i
    BY <1>0
  <2>2. Follows(WholeAt(i), S!Parsed(c, i), pre)
    BY <1>3, <2>1
  <2>3. WholeAt(i + 1) = S!Read(WholeAt(i), i + 1) /\ ParsedInv(WholeAt(i), S!Start, i)
        /\ S!Start \in Cursors
    BY <2>1, WholeIs
  <2>4. S!Parsed(c, i + 1) = S!Read(S!Parsed(c, i), i + 1)
    BY <1>0, <2>1, ParsedSteps
  <2>5. ParsedInv(S!Parsed(c, i), c, i)
    BY <2>1, ParsedKeeps
  <2>6. WholeAt(i).turn.from # 0 => WholeAt(i).turn.from \in 1..Len(lines)
    BY <2>1, <2>3, OpenTurnPlaced
  <2> DEFINE w == WholeAt(i)
             r == S!Parsed(c, i)
  <2>7. w \in ParseStates /\ r \in ParseStates /\ pre \in Seq(CutTurns)
    BY <1>1, <2>1, <2>3, <2>5 DEF ParsedInv
  <2> HIDE DEF w, r, i, pre
  <2>8. Follows(S!Read(w, i + 1), S!Read(r, i + 1), pre)
    BY <2>1, <2>2, <2>6, <2>7, ReadsFollow DEF w, r
  <2> QED  BY <2>1, <2>3, <2>4, <2>8 DEF w, r
<1> HIDE DEF Good
<1>4. \A n \in Nat : n \in Good
  BY <1>2, <1>3, UpwardInduction
<1>5. ASSUME NEW e \in Nat, k <= e, e <= Len(lines)
      PROVE  Follows(WholeAt(e), S!Parsed(c, e), pre)
  <2>1. e - k \in Nat /\ k + (e - k) = e
    BY <1>5
  <2> QED  BY <1>4, <1>5, <2>1 DEF Good
<1> QED  BY <1>5

------------------------------------------------------------------------------
\* A scan hands turns on where it reads a prompt, and its cursor is the one of the last.
CutAt(c, i) ==
    LET s == S!Parsed(c, i - 1)
    IN lines[i].kind = "user" /\ ~s.halted /\ s.turn.from # 0 /\ ~(s.turn.asked > 0)

CutAtPrompt(c, k, e) ==
    \E i \in (k + 1)..e : /\ CutAt(c, i) /\ S!Parsed(c, e).out = S!Parsed(c, i).out
                          /\ S!Parsed(c, e).cursor = S!Parsed(c, i).cursor

LEMMA CutsAreAtPrompts ==
    ASSUME lines \in Seq(Entries), NEW c \in Cursors, NEW k \in Nat, c.at <= k,
           k <= Len(lines)
    PROVE  \A e \in Nat : k <= e /\ e <= Len(lines) =>
              \/ /\ S!Parsed(c, e).out = S!Parsed(c, k).out
                 /\ S!Parsed(c, e).cursor = S!Parsed(c, k).cursor
              \/ CutAtPrompt(c, k, e)
<1> DEFINE R(e) == S!Parsed(c, e)
           Uncut(e) == R(e).out = R(k).out /\ R(e).cursor = R(k).cursor
           Good == {n \in Nat : k + n <= Len(lines) => Uncut(k + n) \/ CutAtPrompt(c, k, k + n)}
<1>0. c.at \in Nat /\ Len(lines) \in Nat
  BY CursorTypes
<1>1. 0 \in Good
  <2>1. k + 0 = k
    OBVIOUS
  <2> QED  BY <2>1
<1>2. ASSUME NEW n \in Nat, n \in Good
      PROVE  n + 1 \in Good
  <2> SUFFICES ASSUME k + (n + 1) <= Len(lines)
               PROVE  Uncut(k + (n + 1)) \/ CutAtPrompt(c, k, k + (n + 1))
    OBVIOUS
  <2> DEFINE i == k + n
  <2>1. /\ i \in Nat /\ i + 1 = k + (n + 1) /\ i >= c.at /\ i + 1 \in Nat /\ (i + 1) - 1 = i
        /\ i + 1 # 0 /\ i + 1 \in 1..Len(lines) /\ i <= Len(lines) /\ c.at <= i
        /\ i + 1 \in (k + 1)..(i + 1)
        /\ \A j \in (k + 1)..i : j \in (k + 1)..(i + 1)
    BY <1>0
  <2>2. Uncut(i) \/ CutAtPrompt(c, k, i)
    BY <1>2, <2>1
  <2>3. R(i + 1) = S!Read(R(i), i + 1)
    BY <1>0, <2>1, ParsedSteps
  <2>4. R(i) \in ParseStates
    BY <2>1, ParsedKeeps DEF ParsedInv
  <2>5. lines[i + 1] \in Entries
    BY <2>1, LineRead
  <2>6. i + 1 = k + (n + 1)
    BY <2>1
  <2> HIDE DEF i, R
  <2>7. CASE R(i + 1).out = R(i).out /\ R(i + 1).cursor = R(i).cursor
    <3>1. Uncut(i) => Uncut(i + 1)
      BY <2>7
    <3>2. CutAtPrompt(c, k, i) => CutAtPrompt(c, k, i + 1)
      BY <2>1, <2>7 DEF CutAtPrompt, R
    <3> QED  BY <2>2, <2>6, <3>1, <3>2
  <2>8. CASE lines[i + 1].kind # "user" \/ R(i).halted
    <3>1. R(i).halted => R(i + 1) = R(i)
      BY <2>3 DEF S!Read
    <3>2. R(i + 1).out = R(i).out /\ R(i + 1).cursor = R(i).cursor
      BY <2>1, <2>3, <2>4, <2>5, <2>8, <3>1, PlainKeeps
    <3> QED  BY <2>7, <3>2
  <2>9. CASE lines[i + 1].kind = "user" /\ ~R(i).halted
    <3>1. PromptRead(R(i + 1), R(i), i + 1)
      BY <2>1, <2>3, <2>4, <2>9, PromptIsRead
    <3>2. CASE R(i).turn.from = 0 \/ R(i).turn.asked > 0
      BY <2>7, <3>1, <3>2 DEF PromptRead
    <3>3. CASE R(i).turn.from # 0 /\ ~(R(i).turn.asked > 0)
      <4>1. CutAt(c, i + 1)
        BY <2>1, <2>9, <3>3 DEF CutAt, R
      <4> QED  BY <2>1, <2>6, <4>1 DEF CutAtPrompt
    <3> QED  BY <3>2, <3>3
  <2> QED  BY <2>8, <2>9
<1> HIDE DEF Good
<1>3. \A n \in Nat : n \in Good
  BY <1>1, <1>2, UpwardInduction
<1>4. ASSUME NEW e \in Nat, k <= e, e <= Len(lines)
      PROVE  Uncut(e) \/ CutAtPrompt(c, k, e)
  <2>1. e - k \in Nat /\ k + (e - k) = e
    BY <1>4
  <2> QED  BY <1>3, <1>4, <2>1 DEF Good
<1> QED  BY <1>4

LEMMA HeaderIsRead ==
    ASSUME NEW s \in ParseStates, NEW i \in Nat, lines[i].kind = "header", ~s.halted
    PROVE  S!Read(s, i) = S!NotesHeader(s, i)
<1> DEFINE u == S!NotesHeader(s, i)
<1>1. u \in ParseStates
  BY HeaderNoted
<1> HIDE DEF u
<1>2. S!Signalled(u, i) = u
  BY DEF S!Signalled
<1>3. S!Retried(u, i) = u /\ S!Opened(u, i) = u /\ S!Folded(u, i) = u
  BY DEF S!Retried, S!Opened, S!Folded, S!Content
<1>4. S!Observed(u, i) = u
  BY <1>1, NoCallObserved
<1> QED  BY <1>2, <1>3, <1>4 DEF S!Read, u

LEMMA StartIsRead ==
    ASSUME NEW s \in ParseStates, NEW i \in Nat, lines[i].kind = "start", ~s.halted,
           lines[i].id \in Nat
    PROVE  S!Read(s, i) = [s EXCEPT !.pending = lines[i].id, !.pendingAt = i]
<1> DEFINE u == [s EXCEPT !.pending = lines[i].id, !.pendingAt = i]
<1>1. S!NotesHeader(s, i) = s /\ S!Signalled(s, i) = u
  BY DEF S!NotesHeader, S!Signalled
<1>2. u \in ParseStates
  BY DEF ParseStates
<1> HIDE DEF u
<1>3. S!Retried(u, i) = u /\ S!Opened(u, i) = u /\ S!Folded(u, i) = u
  BY DEF S!Retried, S!Opened, S!Folded, S!Content
<1>4. S!Observed(u, i) = u
  BY <1>2, NoCallObserved
<1> QED  BY <1>1, <1>3, <1>4 DEF S!Read, u

\* A scan that resumes in front of a start marker waits for the prompt behind it.
Waits(r, c, m) ==
    /\ r.turn = S!NoTurn /\ r.out = <<>> /\ ~r.halted /\ r.cursor = c
    /\ r.pending = lines[m].id /\ r.pendingAt = m

LEMMA NextPlaced ==
    ASSUME NEW at \in Nat, NEW last \in Nat, NEW top \in Nat, last <= top, NEW n \in Nat,
           NEW m, m = at + 1, m + (n + 1) <= last
    PROVE  LET i == m + n IN
           /\ i \in Nat /\ i + 1 = m + (n + 1) /\ i >= at /\ i + 1 \in Nat
           /\ i + 1 \in (m + 1)..last /\ i <= last /\ at <= i /\ i <= top
  OBVIOUS

LEMMA WaitsForThePrompt ==
    ASSUME lines \in Seq(Entries), NEW c \in Cursors, NEW m \in Nat, m = c.at + 1,
           lines[m].kind = "start", NEW last \in Nat, m <= last, last <= Len(lines),
           \A j \in (m + 1)..last : lines[j].kind = "header"
    PROVE  /\ \A e \in c.at..last : Quiet(c, e)
           /\ \A e \in m..last : Waits(S!Parsed(c, e), c, m)
<1> DEFINE R(e) == S!Parsed(c, e)
           Good == {n \in Nat : m + n <= last => Waits(R(m + n), c, m)}
<1>0. c.at \in Nat /\ Len(lines) \in Nat /\ m \in 1..Len(lines) /\ lines[m] \in Entries
      /\ lines[m].id \in Nat
  <2>1. c.at \in Nat /\ Len(lines) \in Nat /\ m \in 1..Len(lines)
    BY CursorTypes
  <2>2. lines[m] \in Entries
    BY <2>1, LineRead
  <2> QED  BY <2>1, <2>2 DEF Entries
<1>a. c.at \in Nat /\ Len(lines) \in Nat
  BY <1>0
<1>1. R(c.at) = S!Resumed(c) /\ R(m) = S!Read(R(c.at), m)
  BY <1>0, ParsedSteps
<1>2. Quiet(c, c.at)
  BY <1>1 DEF Quiet, S!Resumed
<1>3. Waits(R(m), c, m)
  <2>1. R(c.at) \in ParseStates
    BY <1>0, ParsedKeeps DEF ParsedInv
  <2>2. R(c.at).turn = S!NoTurn /\ R(c.at).out = <<>> /\ ~R(c.at).halted /\ R(c.at).cursor = c
    BY <1>1 DEF S!Resumed
  <2> HIDE DEF R
  <2>3. R(m) = [R(c.at) EXCEPT !.pending = lines[m].id, !.pendingAt = m]
    BY <1>0, <1>1, <2>1, <2>2, StartIsRead
  <2> QED  BY <2>1, <2>2, <2>3 DEF Waits, ParseStates
<1>4. 0 \in Good
  <2>1. m + 0 = m
    OBVIOUS
  <2> QED  BY <1>3, <2>1
<1>5. ASSUME NEW n \in Nat, n \in Good
      PROVE  n + 1 \in Good
  <2> SUFFICES ASSUME m + (n + 1) <= last
               PROVE  Waits(R(m + (n + 1)), c, m)
    OBVIOUS
  <2> DEFINE i == m + n
  <2>1. /\ i \in Nat /\ i + 1 = m + (n + 1) /\ i >= c.at /\ i + 1 \in Nat
        /\ i + 1 \in (m + 1)..last /\ i <= last /\ c.at <= i /\ i <= Len(lines)
    <3> DEFINE at == c.at
               top == Len(lines)
    <3>1. at \in Nat /\ top \in Nat /\ last <= top /\ m = at + 1
      BY <1>a
    <3> HIDE DEF at, top
    <3>2. /\ i \in Nat /\ i + 1 = m + (n + 1) /\ i >= at /\ i + 1 \in Nat
          /\ i + 1 \in (m + 1)..last /\ i <= last /\ at <= i /\ i <= top
      BY <3>1, NextPlaced
    <3> QED  BY <3>2 DEF at, top
  <2>2. Waits(R(i), c, m)
    BY <1>5, <2>1
  <2>3. R(i + 1) = S!Read(R(i), i + 1)
    BY <1>0, <2>1, ParsedSteps
  <2>4. R(i) \in ParseStates
    BY <2>1, ParsedKeeps DEF ParsedInv
  <2>5. lines[i + 1].kind = "header"
    BY <2>1
  <2>6. i + 1 = m + (n + 1)
    BY <2>1
  <2> HIDE DEF i, R
  <2>7. R(i + 1) = S!NotesHeader(R(i), i + 1)
    BY <2>1, <2>2, <2>3, <2>4, <2>5, HeaderIsRead DEF Waits
  <2>8. /\ R(i + 1).turn = R(i).turn /\ R(i + 1).out = R(i).out
        /\ R(i + 1).halted = R(i).halted /\ R(i + 1).cursor = R(i).cursor
        /\ R(i + 1).pending = R(i).pending /\ R(i + 1).pendingAt = R(i).pendingAt
    <3> DEFINE s == R(i)
               j == i + 1
               u == S!NotesHeader(s, j)
    <3>1. s \in ParseStates /\ j \in Nat
      BY <2>1, <2>4
    <3> HIDE DEF s, j
    <3>2. /\ u.turn = s.turn /\ u.pending = s.pending /\ u.pendingAt = s.pendingAt
          /\ u.out = s.out /\ u.cursor = s.cursor /\ u.halted = s.halted
      BY <3>1, HeaderNoted
    <3> QED  BY <2>7, <3>2 DEF s, j
  <2>9. Waits(R(i + 1), c, m)
    BY <2>2, <2>8 DEF Waits
  <2> QED  BY <2>6, <2>9
<1> HIDE DEF Good
<1>6. \A n \in Nat : n \in Good
  BY <1>4, <1>5, UpwardInduction
<1>7. ASSUME NEW e \in m..last
      PROVE  Waits(R(e), c, m)
  <2>1. e - m \in Nat /\ m + (e - m) = e /\ e <= last
    OBVIOUS
  <2> QED  BY <1>6, <2>1 DEF Good
<1>8. ASSUME NEW e \in c.at..last
      PROVE  Quiet(c, e)
  <2>1. e = c.at \/ e \in m..last
    BY <1>0
  <2> QED  BY <1>2, <1>7, <2>1 DEF Waits, Quiet
<1> QED  BY <1>7, <1>8

\* The cursor that was issued where a prompt cut a turn: a scan that resumes there reads
\* that prompt as the parse of the whole did.
Resumes(c, i) ==
    /\ c \in Cursors /\ c.at < i /\ c.context = LastHeader(c.at)
    /\ \A e \in c.at..(i - 1) : Quiet(c, e)
    /\ Alike(WholeAt(i), S!Parsed(c, i)) /\ ~WholeAt(i).halted
    /\ S!Parsed(c, i).out = <<>> /\ S!Parsed(c, i).cursor = c

LEMMA CutResumes ==
    ASSUME lines \in Seq(Entries), FileInv, NEW c \in Cursors, c.context = LastHeader(c.at),
           NEW k \in Nat, c.at < k, GoesOnAt(c, k), NEW i \in (k + 1)..Len(lines), CutAt(c, i)
    PROVE  Resumes(S!Parsed(c, i).cursor, i)
<1> DEFINE w == WholeAt(i - 1)
           r == S!Parsed(c, i - 1)
           d == S!Parsed(c, i).cursor
           m == w.pendingAt
           q == S!Parsed(d, i - 1)
           y == WholeAt(i)
           z == S!Parsed(d, i)
<1>0. /\ c.at \in Nat /\ Len(lines) \in Nat /\ i \in Nat /\ i - 1 \in Nat /\ (i - 1) + 1 = i
      /\ i # 0 /\ k <= i - 1 /\ i - 1 <= Len(lines) /\ i <= Len(lines) /\ i \in 0..Len(lines)
      /\ i - 1 \in 0..Len(lines) /\ i \in 1..Len(lines) /\ c.at <= i - 1 /\ c.at <= i
      /\ i - 1 >= c.at
  BY CursorTypes
<1>1. Follows(w, r, WholeAt(k).out)
  BY <1>0, FollowsOn
<1>2. /\ w.pending = r.pending /\ w.header = r.header /\ w.turn = r.turn /\ w.halted = r.halted
      /\ w.pending # 0 => w.pendingAt = r.pendingAt
      /\ w.cursor.next = r.cursor.next
  BY <1>1 DEF Follows, Alike, SameMarker
<1>3. lines[i].kind = "user" /\ ~r.halted /\ r.turn.from # 0 /\ ~(r.turn.asked > 0)
  BY DEF CutAt
<1>4. w \in ParseStates /\ HeadersNoted(w, i - 1) /\ y = S!Read(w, i)
  BY <1>0, WholeIs DEF ParsedInv
<1>5. r \in ParseStates /\ S!Parsed(c, i) = S!Read(r, i)
  BY <1>0, ParsedKeeps, ParsedSteps DEF ParsedInv
<1>6. ~w.halted /\ w.pending # 0
  BY <1>0, <1>2, <1>3 DEF FileInv
<1>7. /\ m \in 1..(i - 1) /\ lines[m].kind = "start" /\ lines[m].id = w.pending
      /\ \A j \in (m + 1)..(i - 1) : lines[j].kind = "header"
  BY <1>0, <1>6 DEF FileInv, MarkerIs
<1> HIDE DEF w, r, y
<1>8. PromptRead(S!Parsed(c, i), r, i) /\ PromptRead(y, w, i)
  BY <1>0, <1>2, <1>3, <1>4, <1>5, PromptIsRead
<1>9. d.at = m - 1 /\ d.next = w.cursor.next + 1 /\ ~S!Parsed(c, i).halted
  BY <1>2, <1>3, <1>6, <1>8 DEF PromptRead, EndAt
<1>10. d \in Cursors /\ d.context = LastHeader(d.at)
  <2>1. S!Parsed(c, i) \in ParseStates
    BY <1>0, ParsedKeeps DEF ParsedInv
  <2>2. HeadersNoted(S!Parsed(c, i), i)
    BY <1>0, CursorsCarryHeaders
  <2> QED  BY <2>1, <2>2, StateTypes DEF HeadersNoted
<1> HIDE DEF d, m
<1>11. /\ m \in Nat /\ m = d.at + 1 /\ m <= i - 1 /\ d.at < i /\ d.at <= i - 1 /\ d.at \in Nat
       /\ i - 1 \in m..(i - 1) /\ d.at <= i /\ i - 1 >= d.at
  BY <1>0, <1>7, <1>9, <1>10, CursorTypes
<1>12. /\ \A e \in d.at..(i - 1) : Quiet(d, e)
       /\ \A e \in m..(i - 1) : Waits(S!Parsed(d, e), d, m)
  BY <1>0, <1>7, <1>10, <1>11, WaitsForThePrompt
<1>13. Waits(q, d, m) /\ q \in ParseStates /\ HeadersNoted(q, i - 1) /\ z = S!Read(q, i)
  <2>1. q \in ParseStates
    BY <1>0, <1>10, <1>11, ParsedKeeps DEF ParsedInv
  <2>2. HeadersNoted(q, i - 1)
    BY <1>0, <1>10, <1>11, CursorsCarryHeaders
  <2>3. z = S!Read(q, i)
    BY <1>0, <1>11, ParsedSteps
  <2> QED  BY <1>11, <1>12, <2>1, <2>2, <2>3
<1> HIDE DEF q
<1>14. /\ q.turn.from = 0 /\ q.pending = w.pending /\ q.header = w.header /\ q.out = <<>>
       /\ ~q.halted /\ q.cursor = d
  <2>1. q.turn.from = 0
    BY <1>13 DEF Waits, S!NoTurn
  <2>2. q.header = w.header
    BY <1>4, <1>6, <1>13 DEF Waits, HeadersNoted
  <2> QED  BY <1>7, <1>13, <2>1, <2>2 DEF Waits
<1>15. PromptRead(z, q, i)
  BY <1>0, <1>3, <1>13, <1>14, PromptIsRead
<1> HIDE DEF z
<1>16. TurnOf(q, i) = TurnOf(w, i)
  BY <1>14 DEF TurnOf, Started
<1>17. /\ y.halted = w.halted /\ y.cursor.next = w.cursor.next + 1 /\ y.pending = 0
       /\ y.turn = TurnOf(w, i) /\ y.header = w.header
  BY <1>2, <1>3, <1>8 DEF PromptRead
<1>18. /\ z.halted = q.halted /\ z.cursor = d /\ z.pending = 0 /\ z.out = <<>>
       /\ z.turn = TurnOf(q, i) /\ z.header = q.header
  BY <1>14, <1>15 DEF PromptRead
<1>19. y.halted = FALSE /\ z.halted = FALSE
  <2>1. w.halted \in BOOLEAN /\ q.halted \in BOOLEAN
    BY <1>4, <1>13 DEF ParseStates
  <2> QED  BY <1>6, <1>14, <1>17, <1>18, <2>1
<1>20. Alike(y, z)
  BY <1>9, <1>14, <1>16, <1>17, <1>18, <1>19 DEF Alike, SameMarker
<1>21. Resumes(d, i)
  BY <1>10, <1>11, <1>12, <1>18, <1>19, <1>20 DEF Resumes, y, z
<1> QED  BY <1>21 DEF d

LEMMA MatchedBehind ==
    ASSUME NEW x \in Seq(CutTurns), NEW y \in Seq(CutTurns), NEW z \in Seq(CutTurns),
           AllMatch(x, y)
    PROVE  AllMatch(x \o z, y \o z)
<1> DEFINE a == x \o z
           b == y \o z
<1>1. Len(x) = Len(y) /\ \A n \in DOMAIN x : S!Matches(x[n], y[n])
  BY DEF AllMatch
<1>2. Len(a) = Len(b) /\ DOMAIN a = 1..Len(a) /\ DOMAIN x = 1..Len(x)
      /\ Len(a) = Len(x) + Len(z) /\ Len(x) \in Nat /\ Len(z) \in Nat
  BY <1>1
<1>3. ASSUME NEW n \in 1..Len(a)
      PROVE  S!Matches(a[n], b[n])
  <2>1. CASE n <= Len(x)
    <3>1. a[n] = x[n] /\ b[n] = y[n] /\ n \in DOMAIN x
      BY <1>1, <1>2, <2>1
    <3> QED  BY <1>1, <3>1
  <2>2. CASE ~(n <= Len(x))
    <3>1. a[n] = z[n - Len(x)] /\ b[n] = z[n - Len(x)]
      BY <1>1, <1>2, <2>2
    <3> QED  BY <3>1 DEF S!Matches
  <2> QED  BY <2>1, <2>2
<1> HIDE DEF a, b
<1>4. AllMatch(a, b)
  BY <1>2, <1>3 DEF AllMatch
<1> QED  BY <1>4 DEF a, b

LEMMA MatchedToo ==
    ASSUME NEW x \in Seq(CutTurns), NEW y \in Seq(CutTurns), NEW t \in CutTurns,
           NEW u \in CutTurns, AllMatch(x, y), S!Matches(t, u)
    PROVE  AllMatch(Append(x, t), Append(y, u))
<1> DEFINE a == Append(x, t)
           b == Append(y, u)
<1>1. Len(x) = Len(y) /\ \A n \in DOMAIN x : S!Matches(x[n], y[n])
  BY DEF AllMatch
<1>2. Len(a) = Len(b) /\ DOMAIN a = 1..Len(a) /\ DOMAIN x = 1..Len(x)
      /\ Len(a) = Len(x) + 1 /\ Len(x) \in Nat
  BY <1>1
<1>3. ASSUME NEW n \in 1..Len(a)
      PROVE  S!Matches(a[n], b[n])
  <2>1. CASE n <= Len(x)
    <3>1. a[n] = x[n] /\ b[n] = y[n] /\ n \in DOMAIN x
      BY <1>1, <1>2, <2>1
    <3> QED  BY <1>1, <3>1
  <2>2. CASE ~(n <= Len(x))
    <3>1. a[n] = t /\ b[n] = u
      BY <1>1, <1>2, <2>2
    <3> QED  BY <3>1
  <2> QED  BY <2>1, <2>2
<1> HIDE DEF a, b
<1>4. AllMatch(a, b)
  BY <1>2, <1>3 DEF AllMatch
<1> QED  BY <1>4 DEF a, b

\* So a scan whose cursor goes on hands on what the whole has cut.
LEMMA ScanGoesOn ==
    ASSUME lines \in Seq(Entries), turns \in Seq(CutTurns), FileInv, NEW c \in Cursors,
           c.context = LastHeader(c.at), NEW k \in Nat, c.at < k, GoesOnAt(c, k),
           NEW e \in Nat, k <= e, e <= Len(lines)
    PROVE  LET s == S!Parsed(c, e) IN
           /\ AllMatch(turns \o s.out, WholeAt(e).out)
           /\ s.out = <<>> \/ \E i \in (k + 1)..Len(lines) :
                 Resumes(s.cursor, i) /\ AllMatch(turns \o s.out, WholeAt(i).out)
<1> DEFINE s == S!Parsed(c, e)
           pre == WholeAt(k).out
<1>0. Len(lines) \in Nat /\ k \in 0..Len(lines) /\ c.at \in Nat /\ c.at <= k /\ k <= Len(lines)
      /\ c.at <= e
  BY CursorTypes
<1>1. AllMatch(turns, pre) /\ pre \in Seq(CutTurns)
  <2>1. WholeAt(k) \in ParseStates
    BY <1>0, WholeIs DEF ParsedInv
  <2> QED  BY <2>1, StateTypes DEF GoesOnAt
<1>2. ASSUME NEW j \in Nat, k <= j, j <= Len(lines)
      PROVE  AllMatch(turns \o S!Parsed(c, j).out, WholeAt(j).out)
  <2>1. WholeAt(j).out = pre \o S!Parsed(c, j).out
    BY <1>2, FollowsOn DEF Follows
  <2>2. S!Parsed(c, j) \in ParseStates
    BY <1>0, <1>2, ParsedKeeps DEF ParsedInv
  <2>3. S!Parsed(c, j).out \in Seq(CutTurns)
    BY <2>2, StateTypes
  <2> HIDE DEF pre
  <2>4. AllMatch(turns \o S!Parsed(c, j).out, pre \o S!Parsed(c, j).out)
    BY <1>1, <2>3, MatchedBehind
  <2> QED  BY <2>1, <2>4
<1>3. ASSUME s.out # <<>>
      PROVE  \E i \in (k + 1)..Len(lines) :
                 Resumes(s.cursor, i) /\ AllMatch(turns \o s.out, WholeAt(i).out)
  <2>1. S!Parsed(c, k).out = <<>>
    BY DEF GoesOnAt
  <2>2. CutAtPrompt(c, k, e)
    BY <1>0, <1>3, <2>1, CutsAreAtPrompts
  <2>3. PICK i \in (k + 1)..e : /\ CutAt(c, i) /\ s.out = S!Parsed(c, i).out
                                /\ s.cursor = S!Parsed(c, i).cursor
    BY <2>2 DEF CutAtPrompt
  <2>4. i \in (k + 1)..Len(lines) /\ i \in Nat /\ k <= i /\ i <= Len(lines)
    BY <1>0
  <2>5. Resumes(s.cursor, i)
    BY <2>3, <2>4, CutResumes
  <2>6. AllMatch(turns \o s.out, WholeAt(i).out)
    BY <1>2, <2>3, <2>4
  <2> QED  BY <2>4, <2>5, <2>6
<1> QED  BY <1>2, <1>3

------------------------------------------------------------------------------
\* A record that is appended changes nothing of how those before it are read.
LEMMA MarksAsBefore ==
    ASSUME NEW CONSTANT s, NEW CONSTANT i, lines'[i] = lines[i]
    PROVE  /\ S!NotesHeader(s, i)' = S!NotesHeader(s, i)
           /\ S!Signalled(s, i)' = S!Signalled(s, i)
           /\ S!Retried(s, i)' = S!Retried(s, i)
           /\ S!Observed(s, i)' = S!Observed(s, i)
           /\ S!Folded(s, i)' = S!Folded(s, i)
<1>1. S!NotesHeader(s, i)' = S!NotesHeader(s, i)
  BY DEF S!NotesHeader
<1>2. S!Signalled(s, i)' = S!Signalled(s, i)
  BY DEF S!Signalled
<1>3. S!Retried(s, i)' = S!Retried(s, i)
  BY DEF S!Retried
<1>4. S!Observed(s, i)' = S!Observed(s, i)
  BY DEF S!Observed
<1>5. S!Folded(s, i)' = S!Folded(s, i)
  BY DEF S!Folded
<1> QED  BY <1>1, <1>2, <1>3, <1>4, <1>5

LEMMA YieldsAsBefore ==
    ASSUME NEW CONSTANT s, NEW CONSTANT end, lines'[end] = lines[end],
           lines'[s.turn.from] = lines[s.turn.from]
    PROVE  S!Yields(s, end, FALSE)' = S!Yields(s, end, FALSE)
BY DEF S!Yields

LEMMA OpensAsBefore ==
    ASSUME NEW CONSTANT s, NEW CONSTANT i, lines'[i] = lines[i],
           s.turn.from # 0 => /\ lines'[EndAt(s, i)] = lines[EndAt(s, i)]
                              /\ lines'[s.turn.from] = lines[s.turn.from]
    PROVE  S!Opened(s, i)' = S!Opened(s, i)
<1> DEFINE end == EndAt(s, i)
<1>1. CASE lines[i].kind # "user"
  BY <1>1 DEF S!Opened
<1>2. CASE lines[i].kind = "user" /\ s.turn.from = 0
  BY <1>2 DEF S!Opened
<1>3. CASE lines[i].kind = "user" /\ s.turn.from # 0
  <2>1. S!Yields(s, end, FALSE)' = S!Yields(s, end, FALSE)
    BY <1>3 DEF S!Yields
  <2> QED  BY <1>3, <2>1 DEF S!Opened, EndAt
<1> QED  BY <1>1, <1>2, <1>3

ReadSteps ==
    \A s, i, s1, s2, s3, s4, s5 :
        (/\ s1 = S!NotesHeader(s, i) /\ s2 = S!Signalled(s1, i) /\ s3 = S!Retried(s2, i)
         /\ s4 = S!Observed(s3, i) /\ s5 = S!Opened(s4, i))
        => S!Read(s, i) = IF s.halted THEN s ELSE S!Folded(s5, i)

ParseSteps ==
    \A c : c.at \in Nat =>
        /\ S!Parsed(c, c.at) = S!Resumed(c)
        /\ \A n \in Nat : \A s : n >= c.at /\ s = S!Parsed(c, n) =>
                                S!Parsed(c, n + 1) = S!Read(s, n + 1)

LEMMA ReadStepsHold == ReadSteps
BY DEF ReadSteps, S!Read

LEMMA ParseStepsHold == ParseSteps
BY ParsedSteps DEF ParseSteps

LEMMA ReadsAsBefore ==
    ASSUME NEW CONSTANT s \in ParseStates, NEW CONSTANT c \in Cursors, NEW CONSTANT i \in Nat,
           NEW CONSTANT top \in Nat, i + 1 <= top, top <= Len(lines), lines \in Seq(Entries),
           \A j \in 1..top : lines'[j] = lines[j], ParsedInv(s, c, i)
    PROVE  S!Read(s, i + 1)' = S!Read(s, i + 1)
<1> DEFINE j == i + 1
<1>1. ReadSteps'
  BY ReadStepsHold, PTL
<1>2. lines'[j] = lines[j] /\ j \in Nat /\ j \in 1..Len(lines) /\ lines[j] \in Entries
  <2>1. j \in 1..top /\ j \in 1..Len(lines)
    OBVIOUS
  <2> QED  BY <2>1, LineRead
<1> HIDE DEF j
<1>3. PICK s1 : s1 = S!NotesHeader(s, j)
  OBVIOUS
<1>4. PICK s2 : s2 = S!Signalled(s1, j)
  OBVIOUS
<1>5. PICK s3 : s3 = S!Retried(s2, j)
  OBVIOUS
<1>6. PICK s4 : s4 = S!Observed(s3, j)
  OBVIOUS
<1>7. PICK s5 : s5 = S!Opened(s4, j)
  OBVIOUS
<1>8. /\ s4 \in ParseStates /\ s4.turn.from = s.turn.from /\ s4.turn.last = s.turn.last
      /\ \/ s4.pending = 0
         \/ s4.pending = s.pending /\ s4.pendingAt = s.pendingAt
         \/ s4.pendingAt = j
  <2>1. /\ s1 \in ParseStates /\ s1.turn = s.turn
        /\ s1.pending = s.pending /\ s1.pendingAt = s.pendingAt
    BY <1>2, <1>3, HeaderNoted
  <2>2. /\ s2 \in ParseStates /\ s2.turn.from = s1.turn.from /\ s2.turn.last = s1.turn.last
        /\ \/ s2.pending = 0
           \/ s2.pending = s1.pending /\ s2.pendingAt = s1.pendingAt
           \/ s2.pendingAt = j
    BY <1>2, <1>4, <2>1, SignalRead
  <2>3. /\ s3 \in ParseStates /\ s3.turn.from = s2.turn.from /\ s3.turn.last = s2.turn.last
        /\ s3.pendingAt = s2.pendingAt /\ (s3.pending = 0 \/ s3.pending = s2.pending)
    BY <1>2, <1>5, <2>2, RetryRead
  <2>4. /\ s4 \in ParseStates /\ s4.turn.from = s3.turn.from /\ s4.turn.last = s3.turn.last
        /\ s4.pendingAt = s3.pendingAt /\ s4.pending = s3.pending
    BY <1>2, <1>6, <2>3, CallsObserved
  <2> QED  BY <2>1, <2>2, <2>3, <2>4
<1>9. s4.turn.from # 0 => EndAt(s4, j) \in 1..top /\ s4.turn.from \in 1..top
  <2> HAVE s4.turn.from # 0
  <2>1. /\ s.cursor.at < s.turn.from /\ s.turn.from <= s.turn.last /\ s.turn.last <= i
        /\ s.pending # 0 => s.turn.last < s.pendingAt
        /\ s.pending # 0 => s.pendingAt <= i
    BY <1>8 DEF ParsedInv, TurnAhead
  <2>2. /\ s.turn.from \in Nat /\ s.turn.last \in Nat /\ s.cursor.at \in Nat
        /\ s.pendingAt \in Nat
    BY StateTypes
  <2>3. s4.turn.from \in 1..top
    BY <1>8, <2>1, <2>2
  <2>a. s.turn.last >= 1 /\ s.turn.last <= i
    BY <2>1, <2>2
  <2>4. CASE s4.pending = 0
    <3>1. EndAt(s4, j) = i
      BY <2>4 DEF EndAt, j
    <3> QED  BY <2>a, <2>2, <2>3, <3>1
  <2>5. CASE s4.pending # 0 /\ s4.pendingAt = j
    <3>1. EndAt(s4, j) = i
      BY <2>5 DEF EndAt, j
    <3> QED  BY <2>a, <2>2, <2>3, <3>1
  <2>6. CASE s4.pending # 0 /\ s4.pending = s.pending /\ s4.pendingAt = s.pendingAt
    <3>1. EndAt(s4, j) = s.pendingAt - 1 /\ s.pending # 0
      BY <2>6 DEF EndAt
    <3>2. s.pendingAt - 1 \in 1..top
      BY <2>a, <2>1, <2>2, <3>1
    <3> QED  BY <2>3, <3>1, <3>2
  <2> QED  BY <1>8, <2>3, <2>4, <2>5, <2>6
<1>10. /\ s1 = S!NotesHeader(s, j)' /\ s2 = S!Signalled(s1, j)' /\ s3 = S!Retried(s2, j)'
       /\ s4 = S!Observed(s3, j)' /\ S!Folded(s5, j)' = S!Folded(s5, j)
  BY <1>2, <1>3, <1>4, <1>5, <1>6, MarksAsBefore
<1>11. s5 = S!Opened(s4, j)'
  BY <1>2, <1>7, <1>9, OpensAsBefore
<1>12. S!Read(s, j) = IF s.halted THEN s ELSE S!Folded(s5, j)
  BY <1>3, <1>4, <1>5, <1>6, <1>7, ReadStepsHold DEF ReadSteps
<1>13. S!Read(s, j)' = IF s.halted THEN s ELSE S!Folded(s5, j)'
  BY <1>1, <1>10, <1>11 DEF ReadSteps
<1> QED  BY <1>10, <1>12, <1>13 DEF j

LEMMA ParsesAsBefore ==
    ASSUME lines \in Seq(Entries), NEW CONSTANT top \in Nat, top <= Len(lines),
           \A j \in 1..top : lines'[j] = lines[j]
    PROVE  \A c \in Cursors : \A e \in Nat :
              c.at <= e /\ e <= top => S!Parsed(c, e)' = S!Parsed(c, e)
<1> SUFFICES ASSUME NEW CONSTANT c \in Cursors
             PROVE  \A e \in Nat :
                       c.at <= e /\ e <= top => S!Parsed(c, e)' = S!Parsed(c, e)
  OBVIOUS
<1> DEFINE Good == {n \in Nat : c.at + n <= top =>
                                   S!Parsed(c, c.at + n)' = S!Parsed(c, c.at + n)}
<1>0. c.at \in Nat /\ Len(lines) \in Nat
  BY CursorTypes
<1>1. ParseSteps'
  BY ParseStepsHold, PTL
<1>2. 0 \in Good
  <2>1. c.at + 0 = c.at
    BY <1>0
  <2>2. S!Parsed(c, c.at)' = S!Resumed(c)
    BY <1>0, <1>1 DEF ParseSteps
  <2>3. S!Parsed(c, c.at) = S!Resumed(c)
    BY <1>0, ParsedSteps
  <2> QED  BY <2>1, <2>2, <2>3
<1>3. ASSUME NEW CONSTANT n \in Nat, n \in Good
      PROVE  n + 1 \in Good
  <2> SUFFICES ASSUME c.at + (n + 1) <= top
               PROVE  S!Parsed(c, c.at + (n + 1))' = S!Parsed(c, c.at + (n + 1))
    OBVIOUS
  <2>1. PICK i \in Nat : i = c.at + n
    BY <1>0
  <2>2. /\ i + 1 = c.at + (n + 1) /\ i >= c.at /\ i + 1 <= top /\ i <= Len(lines)
        /\ c.at <= i /\ c.at + n <= top
    BY <1>0, <2>1
  <2>3. PICK s : s = S!Parsed(c, i)
    OBVIOUS
  <2>4. s = S!Parsed(c, i)'
    BY <1>3, <2>1, <2>2, <2>3
  <2>5. ParsedInv(s, c, i) /\ s \in ParseStates
    BY <2>2, <2>3, ParsedKeeps DEF ParsedInv
  <2>6. S!Read(s, i + 1)' = S!Read(s, i + 1)
    BY <2>2, <2>5, ReadsAsBefore
  <2>7. S!Parsed(c, i + 1) = S!Read(s, i + 1)
    BY <1>0, <2>2, <2>3, ParsedSteps
  <2>8. S!Parsed(c, i + 1)' = S!Read(s, i + 1)'
    BY <1>0, <1>1, <2>2, <2>4 DEF ParseSteps
  <2> QED  BY <2>2, <2>6, <2>7, <2>8
<1> HIDE DEF Good
<1>4. \A n \in Nat : n \in Good
  BY <1>2, <1>3, UpwardInduction
<1>5. ASSUME NEW CONSTANT e \in Nat, c.at <= e, e <= top
      PROVE  S!Parsed(c, e)' = S!Parsed(c, e)
  <2>1. e - c.at \in Nat /\ c.at + (e - c.at) = e
    BY <1>0, <1>5
  <2> QED  BY <1>4, <1>5, <2>1 DEF Good
<1> QED  BY <1>5

\* The transcript goes on, or stays as it is.
Extended ==
    /\ lines \in Seq(Entries) /\ Len(lines) <= Len(lines')
    /\ \A j \in 1..Len(lines) : lines'[j] = lines[j]

LEMMA WholeAsBefore ==
    ASSUME Extended
    PROVE  /\ \A i \in 0..Len(lines) : WholeAt(i)' = WholeAt(i) /\ LastHeader(i)' = LastHeader(i)
           /\ \A c \in Cursors : \A e \in Nat :
                 c.at <= e /\ e <= Len(lines) => S!Parsed(c, e)' = S!Parsed(c, e)
<1>1. PICK top \in Nat : top = Len(lines)
  BY DEF Extended
<1>2. \A c \in Cursors : \A e \in Nat :
         c.at <= e /\ e <= top => S!Parsed(c, e)' = S!Parsed(c, e)
  BY <1>1, ParsesAsBefore DEF Extended
<1>3. ASSUME NEW CONSTANT i \in 0..top
      PROVE  WholeAt(i)' = WholeAt(i) /\ LastHeader(i)' = LastHeader(i)
  <2>1. S!Start \in Cursors /\ S!Start.at = 0
    BY DEF S!Start, Cursors
  <2>2. WholeAt(i)' = WholeAt(i)
    BY <1>2, <2>1 DEF WholeAt
  <2>3. {h \in 1..i : lines'[h].kind = "header"} = {h \in 1..i : lines[h].kind = "header"}
    BY <1>1 DEF Extended
  <2> QED  BY <2>2, <2>3 DEF LastHeader
<1> QED  BY <1>1, <1>2, <1>3

LEMMA GoesOnAsBefore ==
    ASSUME Extended, NEW CONSTANT c \in Cursors, NEW CONSTANT k \in Nat, c.at < k,
           k <= Len(lines),
           \A e \in c.at..(k - 1) : Quiet(c, e),
           Alike(WholeAt(k), S!Parsed(c, k)), ~WholeAt(k).halted,
           S!Parsed(c, k).out = <<>>, S!Parsed(c, k).cursor = c,
           AllMatch(turns', WholeAt(k).out)
    PROVE  GoesOnAt(c, k)'
<1>0. c.at \in Nat /\ k \in 0..Len(lines) /\ c.at <= k
  BY CursorTypes DEF Extended
<1>1. WholeAt(k)' = WholeAt(k) /\ S!Parsed(c, k)' = S!Parsed(c, k)
  BY <1>0, WholeAsBefore
<1>2. \A e \in c.at..(k - 1) : Quiet(c, e)'
  <2> TAKE e \in c.at..(k - 1)
  <2>1. e \in Nat /\ c.at <= e /\ e <= Len(lines)
    BY <1>0 DEF Extended
  <2>2. S!Parsed(c, e)' = S!Parsed(c, e)
    BY <2>1, WholeAsBefore
  <2>3. Quiet(c, e)
    OBVIOUS
  <2> QED  BY <2>2, <2>3 DEF Quiet
<1>3. Alike(WholeAt(k), S!Parsed(c, k))'
  BY <1>1 DEF Alike, SameMarker
<1>4. AllMatch(turns, WholeAt(k).out)'
  BY <1>1 DEF AllMatch
<1> QED  BY <1>1, <1>2, <1>3, <1>4 DEF GoesOnAt

LEMMA FileAsBefore ==
    ASSUME Extended, FileInv
    PROVE  /\ \A i \in 0..Len(lines) : MarkerIs(WholeAt(i), i)'
           /\ \A i \in 1..Len(lines) : lines'[i].kind = "user" =>
                 WholeAt(i - 1)'.halted \/ WholeAt(i - 1)'.pending # 0
<1>1. ASSUME NEW CONSTANT i \in 0..Len(lines)
      PROVE  MarkerIs(WholeAt(i), i)'
  <2>1. WholeAt(i)' = WholeAt(i)
    BY WholeAsBefore
  <2>2. MarkerIs(WholeAt(i), i)
    BY DEF FileInv
  <2>3. \A j \in 1..i : lines'[j] = lines[j]
    BY DEF Extended
  <2>4. WholeAt(i).pendingAt \in 1..i =>
           \A j \in (WholeAt(i).pendingAt + 1)..i : j \in 1..i
    BY DEF Extended
  <2> QED  BY <2>1, <2>2, <2>3, <2>4 DEF MarkerIs
<1>2. ASSUME NEW CONSTANT i \in 1..Len(lines), lines'[i].kind = "user"
      PROVE  WholeAt(i - 1)'.halted \/ WholeAt(i - 1)'.pending # 0
  <2>1. i - 1 \in 0..Len(lines)
    BY DEF Extended
  <2>2. WholeAt(i - 1)' = WholeAt(i - 1)
    BY <2>1, WholeAsBefore
  <2>3. lines[i].kind = "user"
    BY <1>2 DEF Extended
  <2> QED  BY <2>2, <2>3 DEF FileInv
<1> QED  BY <1>1, <1>2

------------------------------------------------------------------------------
\* A scan writes nothing.
LEMMA FileStays ==
    ASSUME lines \in Seq(Entries), UNCHANGED <<lines, running, prompted>>, FileInv, ProviderInv
    PROVE  Extended /\ FileInv' /\ ProviderInv'
<1>1. Extended /\ lines' = lines /\ Len(lines) \in Nat
  BY DEF Extended
<1>2. FileInv'
  BY <1>1, FileAsBefore DEF FileInv
<1>3. PICK n \in 0..Len(lines) : n = Len(lines)
  BY <1>1
<1>4. WholeAt(n)' = WholeAt(n)
  BY <1>1, WholeAsBefore
<1>5. WholeAt(Len(lines))' = WholeAt(Len(lines))
  <2>1. WholeAt(Len(lines)) = WholeAt(n) /\ Len(lines)' = n
    BY <1>1, <1>3
  <2>2. WholeAt(Len(lines))' = WholeAt(n)'
    BY <2>1
  <2> QED  BY <1>4, <2>1, <2>2
<1>6. ProviderInv'
  BY <1>1, <1>5 DEF ProviderInv, AttemptIs, EndsWith
<1> QED  BY <1>1, <1>2, <1>6

LEMMA CursorGoesOn ==
    ASSUME Extended, NEW CONSTANT d \in Cursors, NEW CONSTANT i \in 1..Len(lines),
           Resumes(d, i), AllMatch(turns', WholeAt(i).out)
    PROVE  CursorInv(d)'
<1>0. d.at \in Nat /\ i \in Nat /\ i <= Len(lines) /\ Len(lines) \in Nat
  BY CursorTypes DEF Extended
<1>1. d.at < i /\ d.context = LastHeader(d.at)
  BY DEF Resumes
<1>2. GoesOnAt(d, i)'
  BY <1>0, <1>1, GoesOnAsBefore DEF Resumes
<1>3. d.context = LastHeader(d.at)'
  BY <1>0, <1>1, WholeAsBefore
<1>4. d.at <= Len(lines') /\ i \in (d.at + 1)..Len(lines')
  BY <1>0, <1>1 DEF Extended
<1> QED  BY <1>2, <1>3, <1>4 DEF CursorInv

\* What a scan relies on.
LEMMA ScanStarts ==
    ASSUME SourceInv, ResumeInv, explicit, ~replaced,
           \A k \in DOMAIN turns : ~turns[k].swallowed
    PROVE  /\ FileInv /\ ProviderInv /\ CursorInv(sourceCursor) /\ sourceCursor \in Cursors
           /\ lines \in Seq(Entries) /\ turns \in Seq(CutTurns)
BY DEF ResumeInv, SourceInv, SourceShape

LEMMA SwallowedStay ==
    ASSUME NEW x \in Seq(CutTurns), NEW y \in Seq(CutTurns),
           \A k \in DOMAIN (x \o y) : ~(x \o y)[k].swallowed
    PROVE  /\ \A k \in DOMAIN x : ~x[k].swallowed
           /\ \A k \in DOMAIN y : ~y[k].swallowed
<1> DEFINE z == x \o y
<1>1. /\ DOMAIN x = 1..Len(x) /\ DOMAIN y = 1..Len(y) /\ DOMAIN z = 1..(Len(x) + Len(y))
      /\ Len(x) \in Nat /\ Len(y) \in Nat
  OBVIOUS
<1>2. ASSUME NEW k \in DOMAIN x
      PROVE  ~x[k].swallowed
  <2>1. k \in DOMAIN z /\ z[k] = x[k]
    BY <1>1
  <2> QED  BY <2>1
<1>3. ASSUME NEW k \in DOMAIN y
      PROVE  ~y[k].swallowed
  <2>1. Len(x) + k \in DOMAIN z /\ z[Len(x) + k] = y[k]
    BY <1>1
  <2> QED  BY <2>1
<1> QED  BY <1>2, <1>3

LEMMA ScanKeepsResuming ==
    ASSUME SourceInv, ResumeInv, NEW CONSTANT end \in 1..MaxRecords, S!Scans(end)
    PROVE  ResumeInv'
<1>1. /\ UNCHANGED <<lines, explicit, running, prompted, replaced>>
      /\ sourceCursor.at < end /\ end <= Len(lines) /\ end \in Nat
      /\ turns' = turns \o S!Parsed(sourceCursor, end).out
      /\ sourceCursor' = S!Parsed(sourceCursor, end).cursor
      /\ S!Parsed(sourceCursor, end).out # <<>>
  BY DEF S!Scans, S!providerVars
<1>2. SUFFICES ASSUME explicit, ~replaced
               PROVE  /\ FileInv' /\ ProviderInv'
                      /\ \A d \in Cursors :
                           d = sourceCursor' /\ (\A k \in DOMAIN turns' : ~turns'[k].swallowed)
                             => CursorInv(d)'
  BY <1>1 DEF ResumeInv
<1>3. lines \in Seq(Entries) /\ FileInv /\ ProviderInv
  BY <1>2 DEF ResumeInv, SourceInv, SourceShape
<1>4. Extended /\ FileInv' /\ ProviderInv'
  BY <1>1, <1>3, FileStays
<1>5. ASSUME NEW CONSTANT d \in Cursors, d = sourceCursor',
             \A k \in DOMAIN turns' : ~turns'[k].swallowed
      PROVE  CursorInv(d)'
  <2>1. PICK c \in Cursors : c = sourceCursor
    BY DEF SourceInv, SourceShape
  <2> DEFINE s == S!Parsed(c, end)
  <2>2. c.at \in Nat /\ c.at <= end /\ end \in c.at..Len(lines) /\ Len(lines) \in Nat
    BY <1>1, <2>1, CursorTypes
  <2>3. s \in ParseStates /\ turns' = turns \o s.out /\ d = s.cursor /\ s.out # <<>>
    BY <1>1, <1>3, <1>5, <2>1, <2>2, ParsedKeeps DEF ParsedInv
  <2>4. s.out \in Seq(CutTurns) /\ turns \in Seq(CutTurns)
    BY <2>3, StateTypes DEF SourceInv, SourceShape
  <2>5. \A k \in DOMAIN turns : ~turns[k].swallowed
    BY <1>5, <2>3, <2>4, SwallowedStay
  <2>6. CursorInv(c)
    BY <1>2, <2>1, <2>5, ScanStarts
  <2>7. PICK k \in (c.at + 1)..Len(lines) : GoesOnAt(c, k)
    BY <2>2, <2>3, <2>6 DEF CursorInv, AtRest, Quiet
  <2>8. k \in Nat /\ c.at < k /\ c.context = LastHeader(c.at)
    BY <2>2, <2>6 DEF CursorInv
  <2>9. k <= end
    <3> SUFFICES ASSUME end < k
                 PROVE  FALSE
      BY <1>1, <2>8
    <3>1. end \in c.at..(k - 1)
      BY <1>1, <2>2, <2>8
    <3> QED  BY <2>3, <2>7, <3>1 DEF GoesOnAt, Quiet
  <2>10. PICK i \in (k + 1)..Len(lines) :
              Resumes(s.cursor, i) /\ AllMatch(turns \o s.out, WholeAt(i).out)
    BY <1>1, <1>3, <2>3, <2>4, <2>7, <2>8, <2>9, ScanGoesOn
  <2>11. i \in 1..Len(lines)
    BY <2>2, <2>8
  <2> HIDE DEF s
  <2> QED  BY <1>4, <2>3, <2>10, <2>11, CursorGoesOn
<1> QED  BY <1>4, <1>5

LEMMA AtRestNext ==
    ASSUME NEW CONSTANT d \in Cursors, NEW CONSTANT n \in Nat, n = Len(lines'),
           NEW CONSTANT w, w = WholeAt(n)', NEW CONSTANT r, r = S!Parsed(d, n)',
           \A e \in d.at..n : Quiet(d, e)', ~w.halted, w.turn.asked = 0, SameMarker(w, r),
           d.next = w.cursor.next + (IF w.turn.from = 0 THEN 0 ELSE 1),
           AllMatch(turns', Given(w)'), running' # 0 => ~prompted',
           running' = 0 => ~EndsWith({"fail"})'
    PROVE  AtRest(d)'
<1>1. WholeAt(Len(lines))' = w
  OBVIOUS
<1>2. S!Parsed(d, Len(lines))' = r
  OBVIOUS
<1>3. AllMatch(turns, Given(WholeAt(Len(lines))))'
  BY <1>1 DEF AllMatch, Given, Cut, CutTurn
<1> QED  BY <1>1, <1>2, <1>3 DEF AtRest, SameMarker

LEMMA CursorBehindAll ==
    ASSUME Extended, lines' = lines, NEW CONSTANT d \in Cursors, d.at = Len(lines)
    PROVE  \A n : n = Len(lines) =>
              /\ S!Parsed(d, n)' = S!Resumed(d) /\ d.at <= Len(lines')
              /\ \A e \in d.at..n : Quiet(d, e)'
<1>0. PICK n \in Nat : n = Len(lines)
  BY DEF Extended
<1>1. d.at = n /\ n <= Len(lines') /\ n <= n
  BY <1>0
<1>2. S!Parsed(d, n) = S!Resumed(d)
  BY <1>1, ParsedSteps
<1>3. S!Parsed(d, n)' = S!Parsed(d, n)
  BY <1>0, <1>1, WholeAsBefore
<1>4. Quiet(d, n)
  BY <1>2 DEF Quiet, S!Resumed
<1>5. Quiet(d, n)'
  BY <1>3, <1>4 DEF Quiet
<1>6. \A e \in d.at..n : e = n
  BY <1>1
<1> QED  BY <1>0, <1>1, <1>2, <1>3, <1>5, <1>6

LEMMA IdleScanRests ==
    ASSUME lines \in Seq(Entries), turns \in Seq(CutTurns), FileInv, ProviderInv,
           UNCHANGED <<lines, running, prompted>>, NEW CONSTANT c \in Cursors,
           c.context = LastHeader(c.at), NEW CONSTANT k \in (c.at + 1)..Len(lines),
           GoesOnAt(c, k), NEW CONSTANT n \in Nat, n = Len(lines),
           NEW CONSTANT s, s = S!Parsed(c, n), ~s.halted, S!Closable(s.turn),
           ~(s.turn.asked > 0), s.pending = 0,
           NEW CONSTANT t, t = S!Yields(s, n, TRUE), turns' = turns \o t.out,
           NEW CONSTANT d \in Cursors, d = t.cursor
    PROVE  CursorInv(d)'
<1> DEFINE lost == s.pending # 0
           T    == CutTurn(s, lost)
<1>0. /\ Len(lines) \in Nat /\ c.at \in Nat /\ k \in Nat /\ c.at < k /\ k <= n /\ n >= 1
      /\ n \in 0..Len(lines) /\ c.at <= n /\ n - 1 \in Nat /\ (n - 1) + 1 = n /\ n >= c.at
  <2>1. Len(lines) \in Nat /\ c.at \in Nat
    BY CursorTypes
  <2> QED  BY <2>1
<1>1. Extended /\ Len(lines') = n /\ lines' = lines
  BY DEF Extended
<1>2. s \in ParseStates /\ ParsedInv(s, c, n) /\ HeadersNoted(s, n)
  BY <1>0, ParsedKeeps, CursorsCarryHeaders DEF ParsedInv
<1>3. PICK w : w = WholeAt(n)
  OBVIOUS
<1>4. w \in ParseStates /\ HeadersNoted(w, n)
  BY <1>0, <1>3, WholeIs DEF ParsedInv
<1>5. Follows(w, s, WholeAt(k).out)
  BY <1>0, <1>3, FollowsOn
<1>6. /\ w.pending = 0 /\ w.header = s.header /\ w.turn = s.turn /\ ~w.halted
      /\ w.cursor.next = s.cursor.next
  BY <1>5 DEF Follows, Alike, SameMarker
<1>7. Yielded(t, s, n, lost) /\ lost \in BOOLEAN
  <2>1. YieldOf(t, s, n, lost) /\ lost \in BOOLEAN
    BY DEF YieldOf
  <2> HIDE DEF lost
  <2> QED  BY <1>2, <2>1, YieldIs
<1>8. s.turn.from # 0 /\ s.turn.from \in 1..Len(lines)
  <2>1. s.turn.from # 0
    BY DEF S!Closable
  <2> QED  BY <1>0, <1>2, <2>1, OpenTurnPlaced
<1> HIDE DEF lost
<1>9. T \in CutTurns /\ Cut(w) \in CutTurns
  <2>1. T \in CutTurns
    BY <1>2, <1>7, <1>8, CutTurnTypes
  <2> DEFINE no == FALSE
  <2>2. no \in BOOLEAN
    OBVIOUS
  <2> HIDE DEF no
  <2>3. CutTurn(w, no) \in CutTurns
    BY <1>4, <1>6, <1>8, <2>2, CutTurnTypes
  <2> QED  BY <2>1, <2>3 DEF Cut, no
<1>10. S!Matches(T, Cut(w))
  BY <1>6 DEF S!Matches, Cut, CutTurn
<1>11. d.at = n /\ d.next = s.cursor.next + 1 /\ d.context = S!ContextAt(s, n).committed
       /\ t.out = Append(s.out, T)
  BY <1>7 DEF Yielded
<1> HIDE DEF T
<1>a. d.at = n
  BY <1>11
<1>12. d.context = LastHeader(n)
  <2>1. s.noted \subseteq 1..((n - 1) + 1) /\ NotedAt(s, (n - 1) + 1) /\ NotedAt(s, n)
    BY <1>0, <1>2 DEF HeadersNoted
  <2>2. n <= (n - 1) + 1
    BY <1>0
  <2> QED  BY <1>0, <1>2, <1>11, <2>1, <2>2, ContextIsNoted
<1>13. AllMatch(turns', Append(w.out, Cut(w)))
  <2>1. AllMatch(turns \o s.out, w.out)
    BY <1>0, <1>3, ScanGoesOn
  <2>2. s.out \in Seq(CutTurns) /\ w.out \in Seq(CutTurns)
    BY <1>2, <1>4, StateTypes
  <2>3. turns \o s.out \in Seq(CutTurns)
    BY <2>2
  <2>4. AllMatch(Append(turns \o s.out, T), Append(w.out, Cut(w)))
    BY <1>9, <1>10, <2>1, <2>2, <2>3, MatchedToo
  <2>5. Append(turns \o s.out, T) = turns \o Append(s.out, T)
    BY <1>9, <2>2, AppendedBehind
  <2> QED  BY <1>11, <2>4, <2>5
<1>14. AllMatch(turns', Given(w)')
  <2>1. Given(w)' = Append(w.out, Cut(w))
    BY <1>1, <1>6, <1>8 DEF Given, Cut, CutTurn
  <2> QED  BY <1>13, <2>1 DEF AllMatch
<1>16. WholeAt(n)' = w
  <2>1. WholeAt(n)' = WholeAt(n)
    BY <1>0, <1>1, WholeAsBefore
  <2> QED  BY <1>3, <2>1
<1>17. /\ S!Parsed(d, n)' = S!Resumed(d) /\ d.at <= Len(lines')
       /\ \A e \in d.at..n : Quiet(d, e)'
  BY <1>1, <1>a, CursorBehindAll
<1>18. SameMarker(w, S!Resumed(d))
  BY <1>2, <1>6, <1>12 DEF SameMarker, S!Resumed, HeadersNoted
<1>19. (running' # 0 => ~prompted') /\ (running' = 0 => ~EndsWith({"fail"})')
  <2>1. AttemptIs(w)
    BY <1>3, <1>6 DEF ProviderInv
  <2>2. w.turn.from # 0 /\ w.turn.finished
    BY <1>6, <1>8, <2>1 DEF AttemptIs, S!Closable
  <2>3. (running # 0 => ~prompted) /\ ~EndsWith({"fail"})
    BY <1>6, <2>1, <2>2 DEF AttemptIs
  <2> QED  BY <1>1, <2>3 DEF EndsWith
<1>20. w.turn.asked = 0
  <2>1. s.turn.asked \in Nat
    BY <1>2, StateTypes
  <2> QED  BY <1>6, <2>1
<1>21. d.next = w.cursor.next + (IF w.turn.from = 0 THEN 0 ELSE 1)
  BY <1>6, <1>8, <1>11
<1>22. PICK r : r = S!Parsed(d, n)'
  OBVIOUS
<1>23. AtRest(d)'
  BY <1>1, <1>6, <1>14, <1>16, <1>17, <1>18, <1>19, <1>20, <1>21, <1>22, AtRestNext
<1>24. d.context = LastHeader(d.at)'
  BY <1>0, <1>1, <1>11, <1>12, WholeAsBefore
<1> QED  BY <1>17, <1>23, <1>24 DEF CursorInv

LEMMA IdleScanKeepsResuming ==
    ASSUME SourceInv, ResumeInv, S!ScansIdle
    PROVE  ResumeInv'
<1> DEFINE n0 == Len(lines)
           s0 == S!Parsed(sourceCursor, n0)
           t0 == IF ~s0.halted /\ S!Closable(s0.turn) THEN S!Yields(s0, n0, TRUE) ELSE s0
<1>1. /\ UNCHANGED <<lines, explicit, running, prompted, replaced>>
      /\ sourceCursor.at < n0 /\ turns' = turns \o t0.out /\ sourceCursor' = t0.cursor
      /\ t0.out # <<>>
  BY DEF S!ScansIdle, S!providerVars
<1>2. SUFFICES ASSUME explicit, ~replaced
               PROVE  /\ FileInv' /\ ProviderInv'
                      /\ \A d \in Cursors :
                           d = sourceCursor' /\ (\A k \in DOMAIN turns' : ~turns'[k].swallowed)
                             => CursorInv(d)'
  BY <1>1 DEF ResumeInv
<1>3. lines \in Seq(Entries) /\ FileInv /\ ProviderInv
  BY <1>2 DEF ResumeInv, SourceInv, SourceShape
<1>4. Extended /\ FileInv' /\ ProviderInv'
  BY <1>1, <1>3, FileStays
<1>5. ASSUME NEW CONSTANT d \in Cursors, d = sourceCursor',
             \A k \in DOMAIN turns' : ~turns'[k].swallowed
      PROVE  CursorInv(d)'
  <2>1. PICK c \in Cursors : c = sourceCursor
    BY DEF SourceInv, SourceShape
  <2>2. PICK n \in Nat : n = n0
    BY <1>3
  <2>3. PICK s : s = S!Parsed(c, n)
    OBVIOUS
  <2>4. PICK t : t = IF ~s.halted /\ S!Closable(s.turn) THEN S!Yields(s, n, TRUE) ELSE s
    OBVIOUS
  <2>5. s = s0 /\ t = t0
    BY <2>1, <2>2, <2>3, <2>4
  <2>6. c.at \in Nat /\ c.at < n /\ c.at <= n /\ n <= Len(lines) /\ Len(lines) \in Nat
    BY <1>1, <2>1, <2>2, CursorTypes
  <2>7. s \in ParseStates /\ s.out \in Seq(CutTurns) /\ turns \in Seq(CutTurns)
    <3>1. s \in ParseStates
      BY <1>3, <2>3, <2>6, ParsedKeeps DEF ParsedInv
    <3> QED  BY <3>1, StateTypes DEF SourceInv, SourceShape
  <2>8. turns' = turns \o t.out /\ d = t.cursor /\ t.out # <<>>
        /\ UNCHANGED <<lines, running, prompted>>
    BY <1>1, <1>5, <2>5
  <2> HIDE DEF s0, t0, n0
  <2> DEFINE yields == ~s.halted /\ S!Closable(s.turn) /\ ~(s.turn.asked > 0)
               lost   == s.pending # 0
  <2>10. CASE yields
    <3>1. t = S!Yields(s, n, TRUE)
      BY <2>4, <2>10
    <3>2. Yielded(t, s, n, lost) /\ lost \in BOOLEAN
      <4>1. YieldOf(t, s, n, lost) /\ lost \in BOOLEAN
        BY <3>1 DEF YieldOf
      <4> HIDE DEF lost
      <4> QED  BY <2>7, <4>1, YieldIs
    <3> HIDE DEF lost
    <3>3. t.out = Append(s.out, CutTurn(s, lost))
      BY <2>10, <3>2 DEF Yielded
    <3>a. \A k \in DOMAIN turns : ~turns[k].swallowed
      <4> SUFFICES ASSUME NEW k \in DOMAIN turns
                   PROVE  ~turns[k].swallowed
        OBVIOUS
      <4> QED  BY <1>5, <2>8, <2>7, <3>3
    <3>b. CursorInv(c)
      BY <1>2, <2>1, <3>a, ScanStarts
    <3>c. ~AtRest(c)
      <4>1. s.turn.from # 0
        BY <2>10 DEF S!Closable
      <4>2. n \in c.at..Len(lines)
        BY <2>6
      <4> QED  BY <2>3, <4>1, <4>2 DEF AtRest, Quiet, S!NoTurn
    <3>4. PICK k \in (c.at + 1)..Len(lines) : GoesOnAt(c, k)
      BY <3>b, <3>c DEF CursorInv
    <3>5. CutTurn(s, lost) \in CutTurns
      <4>1. s.turn.from # 0
        BY <2>10 DEF S!Closable
      <4>2. ParsedInv(s, c, n) /\ n \in 0..Len(lines)
        BY <1>3, <2>3, <2>6, ParsedKeeps
      <4>3. s.turn.from \in 1..Len(lines)
        BY <4>1, <4>2, OpenTurnPlaced
      <4> QED  BY <1>3, <2>7, <3>2, <4>3, CutTurnTypes
    <3>6. s.pending = 0
      <4>1. t.out \in Seq(CutTurns) /\ Len(t.out) \in DOMAIN t.out
            /\ t.out[Len(t.out)] = CutTurn(s, lost)
        BY <2>7, <3>3, <3>5
      <4>2. \A j \in DOMAIN t.out : ~t.out[j].swallowed
        BY <1>5, <2>7, <2>8, <4>1, SwallowedStay
      <4>3. ~CutTurn(s, lost).swallowed
        BY <4>1, <4>2
      <4>4. CutTurn(s, lost).swallowed = lost
        BY DEF CutTurn
      <4> QED  BY <3>2, <4>3, <4>4 DEF lost
    <3>7. c.context = LastHeader(c.at)
      BY <3>b DEF CursorInv
    <3> QED  BY <1>3, <2>2, <2>3, <2>7, <2>8, <2>10, <3>1, <3>4, <3>6, <3>7, IdleScanRests
             DEF n0
  <2>11. CASE ~yields
    <3>1. t.out = s.out /\ t.cursor = s.cursor
      <4>1. CASE t = s
        BY <4>1
      <4>2. CASE t # s
        <5>1. t = S!Yields(s, n, TRUE) /\ s.turn.asked > 0
          BY <2>4, <2>11, <4>2
        <5>2. YieldOf(t, s, n, lost) /\ lost \in BOOLEAN
          BY <5>1 DEF YieldOf
        <5> HIDE DEF lost
        <5>3. Yielded(t, s, n, lost)
          BY <2>7, <5>2, YieldIs
        <5> QED  BY <5>1, <5>3 DEF Yielded
      <4> QED  BY <4>1, <4>2
    <3>2. turns' = turns \o s.out /\ d = s.cursor /\ s.out # <<>>
      BY <2>8, <3>1
    <3>3. \A k \in DOMAIN turns : ~turns[k].swallowed
      BY <1>5, <2>7, <3>2, SwallowedStay
    <3>4. CursorInv(c)
      BY <1>2, <2>1, <3>3, ScanStarts
    <3>5. PICK k \in (c.at + 1)..Len(lines) : GoesOnAt(c, k)
      <4>1. n \in c.at..Len(lines)
        BY <2>6
      <4> QED  BY <2>3, <3>2, <3>4, <4>1 DEF CursorInv, AtRest, Quiet
    <3>6. k \in Nat /\ c.at < k /\ k <= n /\ c.context = LastHeader(c.at)
      BY <2>2, <2>6, <3>4 DEF CursorInv, n0
    <3>7. PICK i \in (k + 1)..Len(lines) :
                Resumes(s.cursor, i) /\ AllMatch(turns \o s.out, WholeAt(i).out)
      BY <1>3, <2>3, <2>6, <2>7, <3>2, <3>5, <3>6, ScanGoesOn
    <3>8. i \in 1..Len(lines)
      BY <2>6, <3>6
    <3> QED  BY <1>4, <3>2, <3>7, <3>8, CursorGoesOn
  <2> QED  BY <2>10, <2>11
<1> QED  BY <1>4, <1>5

------------------------------------------------------------------------------
\* What a record makes of a state that is not halted.
HeaderRead(u, s, i) ==
    /\ u.turn = s.turn /\ u.pending = s.pending /\ u.pendingAt = s.pendingAt
    /\ u.out = s.out /\ u.cursor = s.cursor /\ ~u.halted /\ u.header = i
MarkerPut(u, s, i) ==
    /\ u.turn = s.turn /\ u.pending = lines[i].id /\ u.pendingAt = i
    /\ u.out = s.out /\ u.cursor = s.cursor /\ ~u.halted /\ u.header = s.header
SameAttempt(t, v) == t.from = v.from /\ t.started = v.started /\ t.id = v.id /\ t.finished = v.finished
ContentRead(u, s) ==
    s.turn.from # 0 =>
       /\ u.pending = 0 /\ u.turn.from = s.turn.from
       /\ IF s.pending = 0 THEN SameAttempt(u.turn, s.turn)
          ELSE u.turn.started /\ u.turn.id = s.pending /\ ~u.turn.finished
ResultRead(u, s) == u.pending = s.pending /\ u.pendingAt = s.pendingAt /\ SameAttempt(u.turn, s.turn)
EndRead(u, s, i) ==
    (/\ s.turn.from # 0 /\ s.turn.started /\ lines[i].id # 0
     /\ IF s.pending = 0 THEN s.turn.id = lines[i].id ELSE s.pending = lines[i].id)
    => /\ u.pending = 0 /\ u.turn.from = s.turn.from /\ u.turn.started
       /\ lines[i].kind = "fail" => ~u.turn.finished

RecordIsRead(u, s, i) ==
    LET kind == lines[i].kind IN
    /\ kind = "user" => PromptRead(u, s, i)
    /\ kind = "header" => HeaderRead(u, s, i)
    /\ kind = "start" => MarkerPut(u, s, i)
    /\ kind \in S!Content => ContentRead(u, s)
    /\ kind \in {"output", "answer"} => ResultRead(u, s)
    /\ kind \in {"finish", "abort", "fail"} => EndRead(u, s, i)

LEMMA RestIsRead ==
    ASSUME NEW s \in ParseStates, NEW i \in Nat
    PROVE  LET u == S!Folded(S!Observed(s, i), i) IN
           /\ u.pending = s.pending /\ u.pendingAt = s.pendingAt
           /\ SameAttempt(u.turn, s.turn)
<1> DEFINE v == S!Observed(s, i)
<1>1. v.pending = s.pending /\ v.pendingAt = s.pendingAt /\ SameAttempt(v.turn, s.turn)
      /\ v \in ParseStates
  <2>1. v \in ParseStates
    BY CallsObserved
  <2>2. s.turn \in OpenTurns
    BY StateTypes
  <2>3. v.pending = s.pending /\ v.pendingAt = s.pendingAt
    BY CallsObserved
  <2>4. CASE s.turn.from = 0
    BY <2>1, <2>4 DEF S!Observed, SameAttempt
  <2>5. CASE s.turn.from # 0
    <3>1. v.turn = S!Records(S!Registers(s.turn, lines[i].kind), lines[i].kind)
      BY <2>5 DEF S!Observed, ParseStates
    <3> QED  BY <2>1, <2>2, <2>3, <3>1 DEF S!Records, S!Registers, OpenTurns, SameAttempt
  <2> QED  BY <2>4, <2>5
<1> HIDE DEF v
<1>2. LET u == S!Folded(v, i) IN
      u.pending = v.pending /\ u.pendingAt = v.pendingAt /\ SameAttempt(u.turn, v.turn)
  BY <1>1 DEF S!Folded, ParseStates, OpenTurns, SameAttempt
<1> QED  BY <1>1, <1>2 DEF v, SameAttempt

LEMMA ContentIsRead ==
    ASSUME NEW s \in ParseStates, NEW i \in Nat, ~s.halted, lines[i].kind \in S!Content
    PROVE  ContentRead(S!Read(s, i), s)
<1> DEFINE v == S!Retried(s, i)
<1>1. lines[i].kind \notin {"user", "header", "start", "finish", "abort", "fail"}
  BY DEF S!Content
<1>2. S!NotesHeader(s, i) = s /\ S!Signalled(s, i) = s
  BY <1>1 DEF S!NotesHeader, S!Signalled
<1>3. S!Read(s, i) = S!Folded(S!Observed(v, i), i)
  BY <1>1, <1>2, PlainIsRead DEF PlainRead
<1>4. v \in ParseStates
  BY RetryRead
<1>5. ContentRead(v, s)
  BY DEF S!Retried, ContentRead, SameAttempt, ParseStates, OpenTurns
<1> HIDE DEF v
<1>6. LET u == S!Folded(S!Observed(v, i), i) IN
      u.pending = v.pending /\ SameAttempt(u.turn, v.turn)
  BY <1>4, RestIsRead
<1> QED  BY <1>3, <1>5, <1>6 DEF ContentRead, SameAttempt

LEMMA ResultIsRead ==
    ASSUME NEW s \in ParseStates, NEW i \in Nat, ~s.halted, lines[i].kind \in {"output", "answer"}
    PROVE  ResultRead(S!Read(s, i), s)
<1>1. S!NotesHeader(s, i) = s /\ S!Signalled(s, i) = s /\ S!Retried(s, i) = s
  BY DEF S!NotesHeader, S!Signalled, S!Retried, S!Content
<1>2. S!Read(s, i) = S!Folded(S!Observed(s, i), i)
  BY <1>1, PlainIsRead DEF PlainRead
<1> QED  BY <1>2, RestIsRead DEF ResultRead

LEMMA EndIsRead ==
    ASSUME NEW s \in ParseStates, NEW i \in Nat, ~s.halted, lines[i] \in Entries,
           lines[i].kind \in {"finish", "abort", "fail"}
    PROVE  EndRead(S!Read(s, i), s, i)
<1> DEFINE v == S!Signalled(s, i)
<1>1. S!NotesHeader(s, i) = s
  BY DEF S!NotesHeader
<1>2. S!Retried(v, i) = v
  BY DEF S!Retried, S!Content
<1>3. S!Read(s, i) = S!Folded(S!Observed(v, i), i)
  BY <1>1, <1>2, PlainIsRead DEF PlainRead
<1>4. v \in ParseStates
  BY SignalRead
<1>5. EndRead(v, s, i)
  <2> SUFFICES ASSUME s.turn.from # 0, s.turn.started, lines[i].id # 0,
                      IF s.pending = 0 THEN s.turn.id = lines[i].id ELSE s.pending = lines[i].id
               PROVE  /\ v.pending = 0 /\ v.turn.from = s.turn.from /\ v.turn.started
                      /\ lines[i].kind = "fail" => ~v.turn.finished
    BY DEF EndRead
  <2>1. CASE lines[i].kind = "fail"
    BY <2>1 DEF S!Signalled, ParseStates, OpenTurns
  <2>2. CASE lines[i].kind # "fail"
    BY <2>2 DEF S!Signalled, ParseStates, OpenTurns
  <2> QED  BY <2>1, <2>2
<1> HIDE DEF v
<1>6. LET u == S!Folded(S!Observed(v, i), i) IN
      u.pending = v.pending /\ SameAttempt(u.turn, v.turn)
  BY <1>4, RestIsRead
<1> QED  BY <1>3, <1>5, <1>6 DEF EndRead, SameAttempt

LEMMA RecordsAreRead ==
    \A s \in ParseStates : \A i \in Nat : \A u :
        i # 0 /\ ~s.halted /\ lines[i] \in Entries /\ u = S!Read(s, i) => RecordIsRead(u, s, i)
<1> SUFFICES ASSUME NEW s \in ParseStates, NEW i \in Nat, NEW u,
                    i # 0, ~s.halted, lines[i] \in Entries, u = S!Read(s, i)
             PROVE  RecordIsRead(u, s, i)
  OBVIOUS
<1>1. ASSUME lines[i].kind = "header"
      PROVE  HeaderRead(u, s, i)
  <2>1. u = S!NotesHeader(s, i)
    BY <1>1, HeaderIsRead
  <2>2. u.header = i
    BY <1>1, <2>1 DEF S!NotesHeader, ParseStates
  <2> QED  BY <2>1, <2>2, HeaderNoted DEF HeaderRead
<1>2. ASSUME lines[i].kind = "start"
      PROVE  MarkerPut(u, s, i)
  <2>1. lines[i].id \in Nat
    BY DEF Entries
  <2>2. u = [s EXCEPT !.pending = lines[i].id, !.pendingAt = i]
    BY <1>2, <2>1, StartIsRead
  <2> QED  BY <2>2 DEF MarkerPut, ParseStates
<1> QED  BY <1>1, <1>2, PromptIsRead, ContentIsRead, ResultIsRead, EndIsRead DEF RecordIsRead

\* The record n + 1 is written; w is what the parse of the whole was, u what it becomes.
Written(n, e) ==
    /\ lines \in Seq(Entries) /\ n = Len(lines) /\ e \in Entries /\ lines' = Append(lines, e)

LEMMA WrittenIs ==
    ASSUME NEW CONSTANT n \in Nat, NEW CONSTANT e \in Entries, Written(n, e)
    PROVE  /\ Extended /\ Len(lines') = n + 1 /\ lines' \in Seq(Entries) /\ lines'[n + 1] = e
           /\ \A j \in 1..n : lines'[j] = lines[j]
<1> USE DEF Written
<1>1. Len(lines') = n + 1 /\ lines' \in Seq(Entries) /\ lines'[n + 1] = e
  OBVIOUS
<1>2. \A j \in 1..n : lines'[j] = lines[j]
  OBVIOUS
<1> QED  BY <1>1, <1>2 DEF Extended

\* A parse that had reached the end of the file reads it.
ReadOn(r, q, i) == IF r.halted THEN q = r ELSE RecordIsRead(q, r, i)

LEMMA ParsesAreStates ==
    lines \in Seq(Entries) => \A a \in Cursors : \A b \in Nat :
        a.at <= b /\ b <= Len(lines) => S!Parsed(a, b) \in ParseStates
BY ParsedKeeps DEF ParsedInv

LEMMA ParseReadsOn ==
    ASSUME NEW CONSTANT n \in Nat, NEW CONSTANT e \in Entries, Written(n, e),
           NEW CONSTANT c \in Cursors, c.at <= n, NEW CONSTANT r, r = S!Parsed(c, n)
    PROVE  /\ r \in ParseStates /\ ParsedInv(r, c, n) /\ S!Parsed(c, n)' = r
           /\ \A q : q = S!Parsed(c, n + 1)' => q \in ParseStates /\ ReadOn(r, q, n + 1)'
<1>0. c.at \in Nat /\ n <= Len(lines) /\ lines \in Seq(Entries)
  BY CursorTypes DEF Written
<1>1. ParsedInv(r, c, n) /\ r \in ParseStates
  BY <1>0, ParsedKeeps DEF ParsedInv
<1>2. /\ Extended /\ Len(lines') = n + 1 /\ lines' \in Seq(Entries) /\ lines'[n + 1] = e
  BY WrittenIs
<1>3. S!Parsed(c, n)' = r
  BY <1>0, <1>2, WholeAsBefore DEF Written
<1>4. ParseSteps'
  BY ParseStepsHold, PTL
<1>5. (\A s \in ParseStates : \A i \in Nat : \A u :
        i # 0 /\ ~s.halted /\ lines[i] \in Entries /\ u = S!Read(s, i) => RecordIsRead(u, s, i))'
  BY RecordsAreRead, PTL
<1>6. S!Parsed(c, n + 1)' = S!Read(r, n + 1)'
  BY <1>0, <1>3, <1>4 DEF ParseSteps
<1>7. (lines \in Seq(Entries) => \A a \in Cursors : \A b \in Nat : 
          a.at <= b /\ b <= Len(lines) => S!Parsed(a, b) \in ParseStates)'
  BY ParsesAreStates, PTL
<1>8. S!Parsed(c, n + 1)' \in ParseStates
  <2>1. n + 1 \in Nat /\ c.at <= n + 1 /\ n + 1 <= Len(lines')
    BY <1>0, <1>2
  <2> QED  BY <1>2, <1>7, <2>1
<1>9. ASSUME NEW CONSTANT q, q = S!Parsed(c, n + 1)'
      PROVE  ReadOn(r, q, n + 1)'
  <2>1. q = S!Read(r, n + 1)'
    BY <1>6, <1>9
  <2>2. CASE r.halted
    BY <2>1, <2>2 DEF S!Read, ReadOn
  <2>3. CASE ~r.halted
    <3>1. n + 1 \in Nat /\ n + 1 # 0 /\ lines'[n + 1] \in Entries
      BY <1>2
    <3>2. RecordIsRead(q, r, n + 1)'
      BY <1>1, <1>5, <2>1, <2>3, <3>1
    <3> QED  BY <2>3, <3>2 DEF ReadOn
  <2> QED  BY <2>2, <2>3
<1> QED  BY <1>1, <1>3, <1>8, <1>9

LEMMA WholeReadsOn ==
    ASSUME NEW CONSTANT n \in Nat, NEW CONSTANT e \in Entries, Written(n, e),
           NEW CONSTANT w, w = WholeAt(n), NEW CONSTANT u, u = WholeAt(n + 1)'
    PROVE  /\ w \in ParseStates /\ ParsedInv(w, S!Start, n) /\ WholeAt(n)' = w
           /\ u \in ParseStates /\ ReadOn(w, u, n + 1)'
<1>1. S!Start \in Cursors /\ S!Start.at <= n
  BY DEF S!Start, Cursors
<1>2. PICK c : c = S!Start
  OBVIOUS
<1>3. c \in Cursors /\ c.at <= n
  BY <1>1, <1>2
<1>4. w = S!Parsed(c, n) /\ u = S!Parsed(c, n + 1)' 
  BY <1>2 DEF WholeAt, S!Start
<1>5. WholeAt(n)' = S!Parsed(c, n)'
  BY <1>2 DEF WholeAt, S!Start
<1> QED  BY <1>2, <1>3, <1>4, <1>5, ParseReadsOn

LEMMA FileGoesOn ==
    ASSUME NEW CONSTANT n \in Nat, NEW CONSTANT e \in Entries, Written(n, e), FileInv,
           NEW CONSTANT w, w = WholeAt(n), NEW CONSTANT u, u = WholeAt(n + 1)',
           MarkerIs(u, n + 1)', e.kind = "user" => w.halted \/ w.pending # 0
    PROVE  FileInv'
<1>1. /\ Extended /\ Len(lines') = n + 1 /\ lines'[n + 1] = e /\ n = Len(lines)
  BY WrittenIs DEF Written
<1>2. ASSUME NEW CONSTANT i \in 0..(n + 1)
      PROVE  MarkerIs(WholeAt(i), i)'
  <2>1. CASE i = n + 1
    BY <2>1
  <2>2. CASE i # n + 1
    <3>1. i \in 0..Len(lines)
      BY <1>1, <2>2
    <3> QED  BY <1>1, <3>1, FileAsBefore
  <2> QED  BY <2>1, <2>2
<1>3. ASSUME NEW CONSTANT i \in 1..(n + 1), lines'[i].kind = "user"
      PROVE  WholeAt(i - 1)'.halted \/ WholeAt(i - 1)'.pending # 0
  <2>1. CASE i = n + 1
    <3>1. i - 1 = n
      BY <2>1
    <3> QED  BY <1>1, <1>3, <2>1, <3>1, WholeReadsOn
  <2>2. CASE i # n + 1
    <3>1. i \in 1..Len(lines)
      BY <1>1, <2>2
    <3> QED  BY <1>1, <1>3, <3>1, FileAsBefore
  <2> QED  BY <2>1, <2>2
<1> QED  BY <1>1, <1>2, <1>3 DEF FileInv

LEMMA EndsWithIt ==
    ASSUME NEW CONSTANT n \in Nat, NEW CONSTANT e \in Entries, Written(n, e), NEW CONSTANT K
    PROVE  EndsWith(K)' <=> e.kind \in K
<1>1. Len(lines') = n + 1 /\ lines' # <<>> /\ lines'[n + 1] = e
  BY DEF Written
<1> QED  BY <1>1 DEF EndsWith

\* Where the file ends is seen from w, before, and from u, after the record.
Seen(n, e, w, u) ==
    /\ Written(n, e) /\ w \in ParseStates /\ u \in ParseStates /\ ~w.halted
    /\ MarkerIs(w, n) /\ AttemptIs(w)

Tells(n, w) == w.halted \/ (MarkerIs(w, n) /\ AttemptIs(w))

LEMMA HeaderTells ==
    ASSUME NEW CONSTANT n \in Nat, NEW CONSTANT e \in Entries, NEW CONSTANT w, NEW CONSTANT u,
           Seen(n, e, w, u), RecordIsRead(u, w, n + 1)', e.kind = "header",
           UNCHANGED <<running, prompted>>
    PROVE  Tells(n + 1, u)'
<1>1. /\ Len(lines') = n + 1 /\ lines'[n + 1] = e /\ \A j \in 1..n : lines'[j] = lines[j]
  BY WrittenIs DEF Seen
<1>2. u.turn = w.turn /\ u.pending = w.pending /\ u.pendingAt = w.pendingAt
  BY <1>1 DEF RecordIsRead, HeaderRead
<1>3. ~EndsWith({"fail"})'
  BY EndsWithIt DEF Seen
<1>4. MarkerIs(u, n + 1)'
  <2>1. CASE w.pending = 0
    BY <1>2, <2>1 DEF MarkerIs
  <2>2. CASE w.pending # 0
    <3>1. /\ w.pendingAt \in 1..n /\ lines[w.pendingAt].kind = "start"
          /\ lines[w.pendingAt].id = w.pending
          /\ \A j \in (w.pendingAt + 1)..n : lines[j].kind = "header"
      BY <2>2 DEF Seen, MarkerIs
    <3>2. w.pendingAt \in 1..(n + 1) /\ lines'[w.pendingAt] = lines[w.pendingAt]
      BY <1>1, <3>1
    <3>3. ASSUME NEW CONSTANT j \in (w.pendingAt + 1)..(n + 1)
          PROVE  lines'[j].kind = "header"
      <4>1. CASE j = n + 1
        BY <1>1, <4>1
      <4>2. CASE j # n + 1
        <5>1. j \in (w.pendingAt + 1)..n /\ j \in 1..n
          BY <3>1, <4>2
        <5> QED  BY <1>1, <3>1, <5>1
      <4> QED  BY <4>1, <4>2
    <3> QED  BY <1>2, <3>1, <3>2, <3>3 DEF MarkerIs
  <2> QED  BY <2>1, <2>2
<1>5. AttemptIs(u)'
  BY <1>2, <1>3 DEF Seen, AttemptIs
<1> QED  BY <1>4, <1>5 DEF Tells

LEMMA StartTells ==
    ASSUME NEW CONSTANT n \in Nat, NEW CONSTANT e \in Entries, NEW CONSTANT w, NEW CONSTANT u,
           Seen(n, e, w, u), RecordIsRead(u, w, n + 1)', e.kind = "start",
           running = 0, running' = e.id, e.id # 0, prompted' = EndsWith({"fail"})
    PROVE  Tells(n + 1, u)'
<1>1. /\ Len(lines') = n + 1 /\ lines'[n + 1] = e
  BY WrittenIs DEF Seen
<1>2. u.turn = w.turn /\ u.pending = e.id /\ u.pendingAt = n + 1
  BY <1>1 DEF RecordIsRead, MarkerPut
<1>3. ~EndsWith({"fail"})'
  BY EndsWithIt DEF Seen
<1>4. MarkerIs(u, n + 1)'
  <2>1. (n + 1 + 1)..(n + 1) = {} /\ n + 1 \in 1..(n + 1)
    OBVIOUS
  <2> QED  BY <1>1, <1>2, <2>1 DEF MarkerIs
<1>5. AttemptIs(u)'
  BY <1>2, <1>3 DEF Seen, AttemptIs
<1> QED  BY <1>4, <1>5 DEF Tells

TurnsOfPrompts ==
    \A s, i, t : lines[i].kind = "user" /\ t = TurnOf(s, i) =>
        /\ t.from = i /\ t.asked = 0 /\ t.id = s.pending /\ t.finished = FALSE
        /\ s.pending # 0 => t.started

LEMMA TurnsOfPromptsHold == TurnsOfPrompts
<1> SUFFICES ASSUME NEW s, NEW i, NEW t, lines[i].kind = "user", t = TurnOf(s, i)
             PROVE  /\ t.from = i /\ t.asked = 0 /\ t.id = s.pending /\ t.finished = FALSE
                    /\ s.pending # 0 => t.started
  BY DEF TurnsOfPrompts
<1> QED  BY TurnOfIs

LEMMA PromptTells ==
    ASSUME NEW CONSTANT n \in Nat, NEW CONSTANT e \in Entries, NEW CONSTANT w, NEW CONSTANT u,
           Seen(n, e, w, u), RecordIsRead(u, w, n + 1)', e.kind = "user",
           running # 0, ~prompted, running' = running, prompted'
    PROVE  Tells(n + 1, u)' /\ w.pending # 0
<1>1. /\ Len(lines') = n + 1 /\ lines'[n + 1] = e
  BY WrittenIs DEF Seen
<1>2. u.turn = TurnOf(w, n + 1)' /\ u.pending = 0
  BY <1>1 DEF RecordIsRead, PromptRead
<1>3. ~EndsWith({"fail"})'
  BY EndsWithIt DEF Seen
<1>4. w.pending = running
  BY DEF Seen, AttemptIs
<1>5. TurnsOfPrompts'
  BY TurnsOfPromptsHold, PTL
<1>6. u.turn.from = n + 1 /\ u.turn.id = w.pending /\ u.turn.finished = FALSE /\ u.turn.started
  BY <1>1, <1>2, <1>4, <1>5 DEF TurnsOfPrompts
<1>7. MarkerIs(u, n + 1)'
  BY <1>2 DEF MarkerIs
<1>8. AttemptIs(u)'
  BY <1>2, <1>3, <1>4, <1>6 DEF AttemptIs
<1> QED  BY <1>4, <1>7, <1>8 DEF Tells

LEMMA ContentTells ==
    ASSUME NEW CONSTANT n \in Nat, NEW CONSTANT e \in Entries, NEW CONSTANT w, NEW CONSTANT u,
           Seen(n, e, w, u), RecordIsRead(u, w, n + 1)', e.kind \in S!Content,
           running # 0, prompted, UNCHANGED <<running, prompted>>
    PROVE  Tells(n + 1, u)'
<1>1. /\ Len(lines') = n + 1 /\ lines'[n + 1] = e
  BY WrittenIs DEF Seen
<1>2. ContentRead(u, w)
  BY <1>1 DEF RecordIsRead, S!Content
<1>3. ~EndsWith({"fail"})'
  BY EndsWithIt DEF Seen, S!Content
<1>7. MarkerIs(u, n + 1)'
  BY <1>2 DEF MarkerIs, Seen, AttemptIs, ContentRead
<1>8. AttemptIs(u)'
  BY <1>2, <1>3 DEF AttemptIs, Seen, ContentRead, SameAttempt
<1> QED  BY <1>7, <1>8 DEF Tells

LEMMA ResultTells ==
    ASSUME NEW CONSTANT n \in Nat, NEW CONSTANT e \in Entries, NEW CONSTANT w, NEW CONSTANT u,
           Seen(n, e, w, u), RecordIsRead(u, w, n + 1)', e.kind \in {"output", "answer"},
           EndsWith({"call", "ask"}), running # 0, prompted, UNCHANGED <<running, prompted>>
    PROVE  Tells(n + 1, u)'
<1>1. /\ Len(lines') = n + 1 /\ lines'[n + 1] = e
  BY WrittenIs DEF Seen
<1>2. ResultRead(u, w)
  BY <1>1 DEF RecordIsRead
<1>3. ~EndsWith({"fail"})'
  BY EndsWithIt DEF Seen
<1>4. w.pending = 0
  <2> SUFFICES ASSUME w.pending # 0
               PROVE  FALSE
    OBVIOUS
  <2>1. /\ w.pendingAt \in 1..n /\ lines[w.pendingAt].kind = "start"
        /\ \A j \in (w.pendingAt + 1)..n : lines[j].kind = "header"
    BY DEF Seen, MarkerIs
  <2>2. w.pendingAt = n \/ n \in (w.pendingAt + 1)..n
    BY <2>1
  <2>3. lines[n].kind \in {"start", "header"}
    BY <2>1, <2>2
  <2>4. lines[n].kind \in {"call", "ask"}
    BY DEF EndsWith, Seen, Written
  <2> QED  BY <2>3, <2>4
<1>7. MarkerIs(u, n + 1)'
  BY <1>2, <1>4 DEF MarkerIs, ResultRead
<1>8. AttemptIs(u)'
  BY <1>2, <1>3, <1>4 DEF AttemptIs, Seen, ResultRead, SameAttempt
<1> QED  BY <1>7, <1>8 DEF Tells

LEMMA EndTells ==
    ASSUME NEW CONSTANT n \in Nat, NEW CONSTANT e \in Entries, NEW CONSTANT w, NEW CONSTANT u,
           Seen(n, e, w, u), RecordIsRead(u, w, n + 1)', e.kind \in {"finish", "abort", "fail"},
           running # 0, prompted, e.id = running, running' = 0, prompted' = FALSE
    PROVE  Tells(n + 1, u)'
<1>1. /\ Len(lines') = n + 1 /\ lines'[n + 1] = e
  BY WrittenIs DEF Seen
<1>2. EndRead(u, w, n + 1)'
  BY <1>1 DEF RecordIsRead
<1>3. EndsWith({"fail"})' <=> e.kind = "fail"
  BY EndsWithIt DEF Seen
<1>4. /\ u.pending = 0 /\ u.turn.from # 0 /\ u.turn.started
      /\ e.kind = "fail" => ~u.turn.finished
  BY <1>1, <1>2 DEF EndRead, Seen, AttemptIs
<1>7. MarkerIs(u, n + 1)'
  BY <1>4 DEF MarkerIs
<1>8. AttemptIs(u)'
  BY <1>3, <1>4 DEF AttemptIs
<1> QED  BY <1>7, <1>8 DEF Tells

\* A cursor stays one from which a scan resumes unseen.
LEMMA GoesOnStays ==
    ASSUME NEW CONSTANT n \in Nat, NEW CONSTANT e \in Entries, Written(n, e), turns' = turns,
           NEW CONSTANT c \in Cursors, NEW CONSTANT k \in (c.at + 1)..n, GoesOnAt(c, k)
    PROVE  GoesOnAt(c, k)'
<1>1. Extended /\ n = Len(lines)
  BY WrittenIs DEF Written
<1>2. k \in Nat /\ c.at < k /\ k <= Len(lines)
  BY <1>1, CursorTypes
<1>3. AllMatch(turns', WholeAt(k).out)
  BY DEF GoesOnAt
<1> QED  BY <1>1, <1>2, <1>3, GoesOnAsBefore DEF GoesOnAt

\* What an idle scan has handed on is as before, too.
LEMMA GivenAsBefore ==
    ASSUME NEW CONSTANT n \in Nat, NEW CONSTANT e \in Entries, Written(n, e),
           NEW CONSTANT w, w = WholeAt(n), w.turn.from # 0
    PROVE  Cut(w)' = Cut(w)
<1>1. S!Start \in Cursors
  BY DEF S!Start, Cursors
<1>2. ParsedInv(w, S!Start, n) /\ n \in 0..Len(lines)
  <2>1. lines \in Seq(Entries) /\ n \in 0..Len(lines)
    BY DEF Written
  <2> QED  BY <2>1, WholeIs
<1>3. w.turn.from \in 1..Len(lines)
  BY <1>1, <1>2, OpenTurnPlaced
<1>4. lines'[w.turn.from] = lines[w.turn.from]
  BY <1>3, WrittenIs DEF Written
<1> QED  BY <1>4 DEF Cut, CutTurn

\* The whole ends in w and the parse of a scan in r, and after the record in u and q.
EndsIn(n, c, w, r, u, q) ==
    /\ c.at <= n /\ w = WholeAt(n) /\ r = S!Parsed(c, n)
    /\ u = WholeAt(n + 1)' /\ q = S!Parsed(c, n + 1)'

LEMMA RestReadsOn ==
    ASSUME NEW CONSTANT n \in Nat, NEW CONSTANT e \in Entries, Written(n, e),
           NEW CONSTANT c \in Cursors, NEW CONSTANT w, NEW CONSTANT r, NEW CONSTANT u,
           NEW CONSTANT q, EndsIn(n, c, w, r, u, q), AtRest(c)
    PROVE  /\ ~w.halted /\ w.turn.asked = 0 /\ SameMarker(w, r)
           /\ c.next = w.cursor.next + (IF w.turn.from = 0 THEN 0 ELSE 1)
           /\ AllMatch(turns, Given(w))
           /\ r.turn = S!NoTurn /\ r.out = <<>> /\ ~r.halted /\ r.cursor = c
           /\ RecordIsRead(u, w, n + 1)' /\ RecordIsRead(q, r, n + 1)'
           /\ \A a \in c.at..n : Quiet(c, a)'
           /\ w \in ParseStates /\ r \in ParseStates /\ u \in ParseStates /\ q \in ParseStates
<1>1. c.at \in Nat /\ n \in c.at..n /\ n = Len(lines)
  BY CursorTypes DEF Written, EndsIn
<1>2. ~w.halted /\ w.turn.asked = 0 /\ SameMarker(w, r)
      /\ c.next = w.cursor.next + (IF w.turn.from = 0 THEN 0 ELSE 1)
      /\ AllMatch(turns, Given(w)) /\ \A a \in c.at..n : Quiet(c, a)
  BY <1>1 DEF AtRest, EndsIn
<1>3. r.turn = S!NoTurn /\ r.out = <<>> /\ ~r.halted /\ r.cursor = c
  BY <1>1, <1>2 DEF Quiet, EndsIn
<1>4. w \in ParseStates /\ u \in ParseStates /\ ReadOn(w, u, n + 1)'
  BY WholeReadsOn DEF EndsIn
<1>5. r \in ParseStates /\ q \in ParseStates /\ ReadOn(r, q, n + 1)'
  BY ParseReadsOn DEF EndsIn
<1>6. ASSUME NEW CONSTANT a \in c.at..n
      PROVE  Quiet(c, a)'
  <2>1. a \in Nat /\ c.at <= a /\ a <= Len(lines)
    BY <1>1
  <2>2. S!Parsed(c, a)' = S!Parsed(c, a)
    BY <2>1, WholeAsBefore, WrittenIs
  <2> QED  BY <1>2, <2>2 DEF Quiet
<1> QED  BY <1>2, <1>3, <1>4, <1>5, <1>6 DEF ReadOn

LEMMA RestStays ==
    ASSUME NEW CONSTANT n \in Nat, NEW CONSTANT e \in Entries, Written(n, e), turns' = turns,
           NEW CONSTANT c \in Cursors, NEW CONSTANT w, NEW CONSTANT r, NEW CONSTANT u,
           NEW CONSTANT q, EndsIn(n, c, w, r, u, q), AtRest(c), e.kind \in {"header", "start"},
           running' # 0 => ~prompted'
    PROVE  AtRest(c)'
<1>1. /\ Len(lines') = n + 1 /\ lines'[n + 1] = e
  BY WrittenIs
<1>2. /\ ~w.halted /\ w.turn.asked = 0 /\ SameMarker(w, r)
      /\ c.next = w.cursor.next + (IF w.turn.from = 0 THEN 0 ELSE 1)
      /\ AllMatch(turns, Given(w))
      /\ r.turn = S!NoTurn /\ r.out = <<>> /\ ~r.halted /\ r.cursor = c
      /\ RecordIsRead(u, w, n + 1)' /\ RecordIsRead(q, r, n + 1)'
      /\ \A a \in c.at..n : Quiet(c, a)'
  BY RestReadsOn
<1>3. /\ u.turn = w.turn /\ u.out = w.out /\ u.cursor = w.cursor /\ ~u.halted
      /\ q.turn = r.turn /\ q.out = r.out /\ q.cursor = r.cursor /\ ~q.halted
      /\ SameMarker(u, q)
  <2>1. CASE e.kind = "header"
    BY <1>1, <1>2, <2>1 DEF RecordIsRead, HeaderRead, SameMarker
  <2>2. CASE e.kind = "start"
    BY <1>1, <1>2, <2>2 DEF RecordIsRead, MarkerPut, SameMarker
  <2> QED  BY <2>1, <2>2
<1>4. \A a \in c.at..(n + 1) : Quiet(c, a)'
  <2>1. Quiet(c, n + 1)'
    BY <1>2, <1>3 DEF Quiet, EndsIn
  <2>2. \A a \in c.at..(n + 1) : a = n + 1 \/ a \in c.at..n
    BY CursorTypes
  <2> QED  BY <1>2, <2>1, <2>2
<1>5. AllMatch(turns', Given(u)')
  <2>1. CASE w.turn.from = 0
    BY <1>2, <1>3, <2>1 DEF Given
  <2>2. CASE w.turn.from # 0
    <3>1. Cut(w)' = Cut(w)
      BY <2>2, GivenAsBefore DEF EndsIn
    <3>2. Cut(u)' = Cut(w)'
      BY <1>3 DEF Cut, CutTurn
    <3> QED  BY <1>2, <1>3, <2>2, <3>1, <3>2 DEF Given
  <2> QED  BY <2>1, <2>2
<1>6. ~EndsWith({"fail"})'
  BY EndsWithIt
<1>7. n + 1 \in Nat /\ u.turn.asked = 0
      /\ c.next = u.cursor.next + (IF u.turn.from = 0 THEN 0 ELSE 1)
  BY <1>2, <1>3
<1> QED  BY <1>1, <1>3, <1>4, <1>5, <1>6, <1>7, AtRestNext DEF EndsIn

LEMMA RestEnds ==
    ASSUME NEW CONSTANT n \in Nat, NEW CONSTANT e \in Entries, Written(n, e), turns' = turns,
           NEW CONSTANT c \in Cursors, NEW CONSTANT w, NEW CONSTANT r, NEW CONSTANT u,
           NEW CONSTANT q, EndsIn(n, c, w, r, u, q), AtRest(c), e.kind = "user"
    PROVE  GoesOnAt(c, n + 1)'
<1>1. /\ Len(lines') = n + 1 /\ lines'[n + 1] = e
  BY WrittenIs
<1>2. /\ ~w.halted /\ w.turn.asked = 0 /\ SameMarker(w, r)
      /\ c.next = w.cursor.next + (IF w.turn.from = 0 THEN 0 ELSE 1)
      /\ AllMatch(turns, Given(w))
      /\ r.turn = S!NoTurn /\ r.out = <<>> /\ ~r.halted /\ r.cursor = c
      /\ RecordIsRead(u, w, n + 1)' /\ RecordIsRead(q, r, n + 1)'
      /\ \A a \in c.at..n : Quiet(c, a)'
      /\ w \in ParseStates /\ r \in ParseStates /\ u \in ParseStates /\ q \in ParseStates
  BY RestReadsOn
<1>3. PromptRead(u, w, n + 1)' /\ PromptRead(q, r, n + 1)'
  BY <1>1, <1>2 DEF RecordIsRead
<1>4. q.turn = TurnOf(r, n + 1)' /\ u.turn = TurnOf(w, n + 1)' /\ u.turn = q.turn
  <2>1. TurnOf(r, n + 1)' = TurnOf(w, n + 1)'
    BY <1>2 DEF TurnOf, Started, SameMarker
  <2> QED  BY <1>3, <2>1 DEF PromptRead
<1>5. q.out = <<>> /\ q.cursor = c /\ ~q.halted
  BY <1>2, <1>3 DEF PromptRead, S!NoTurn
<1>6. ~u.halted /\ c.next = u.cursor.next /\ AllMatch(turns', u.out)
  <2>1. CASE w.turn.from = 0
    <3>1. w.cursor.next \in Nat
      BY <1>2, StateTypes
    <3> QED  BY <1>2, <1>3, <2>1, <3>1 DEF PromptRead, Given
  <2>2. CASE w.turn.from # 0
    <3>1. u.out = Append(w.out, Cut(w)') /\ ~u.halted /\ u.cursor.next = w.cursor.next + 1
      BY <1>2, <1>3, <2>2 DEF PromptRead
    <3>2. Cut(w)' = Cut(w)
      BY <2>2, GivenAsBefore DEF EndsIn
    <3>3. AllMatch(turns, u.out)
      BY <1>2, <2>2, <3>1, <3>2 DEF Given
    <3> QED  BY <1>2, <2>2, <3>1, <3>3
  <2> QED  BY <2>1, <2>2
<1>7. Alike(u, q)
  <2>1. u.pending = 0 /\ q.pending = 0 /\ u.header = w.header /\ q.header = r.header
    BY <1>3 DEF PromptRead
  <2>2. u.halted \in BOOLEAN /\ q.halted \in BOOLEAN
    BY <1>2 DEF ParseStates
  <2> QED  BY <1>2, <1>4, <1>5, <1>6, <2>1, <2>2 DEF Alike, SameMarker
<1>8. AllMatch(turns, u.out)'
  BY <1>6 DEF AllMatch
<1>9. \A a \in c.at..(n + 1 - 1) : Quiet(c, a)'
  BY <1>2
<1> QED  BY <1>5, <1>6, <1>7, <1>8, <1>9 DEF GoesOnAt, EndsIn, Alike, SameMarker

\* Only a header, a start marker and a prompt are written while the reader is at rest.
LEMMA CursorStays ==
    ASSUME NEW CONSTANT n \in Nat, NEW CONSTANT e \in Entries, Written(n, e), turns' = turns,
           NEW CONSTANT c \in Cursors, CursorInv(c),
           AtRest(c) => e.kind \in {"header", "start", "user"},
           AtRest(c) /\ e.kind # "user" => (running' # 0 => ~prompted')
    PROVE  CursorInv(c)'
<1>1. /\ Extended /\ Len(lines') = n + 1 /\ n = Len(lines) /\ c.at <= n /\ c.at \in Nat
  BY WrittenIs, CursorTypes DEF Written, CursorInv
<1>2. c.context = LastHeader(c.at)'
  <2>1. c.at \in 0..Len(lines)
    BY <1>1
  <2> QED  BY <1>1, <2>1, WholeAsBefore DEF CursorInv
<1>3. CASE AtRest(c)
  <2>1. PICK w : w = WholeAt(n)
    OBVIOUS
  <2>2. PICK r : r = S!Parsed(c, n)
    OBVIOUS
  <2>3. PICK u : u = WholeAt(n + 1)'
    OBVIOUS
  <2>4. PICK q : q = S!Parsed(c, n + 1)'
    OBVIOUS
  <2>5. EndsIn(n, c, w, r, u, q)
    BY <1>1, <2>1, <2>2, <2>3, <2>4 DEF EndsIn
  <2>6. CASE e.kind = "user"
    <3>1. GoesOnAt(c, n + 1)'
      BY <1>3, <2>5, <2>6, RestEnds
    <3>2. n + 1 \in (c.at + 1)..Len(lines') /\ c.at <= Len(lines')
      BY <1>1
    <3> QED  BY <1>2, <3>1, <3>2 DEF CursorInv
  <2>7. CASE e.kind # "user"
    <3>1. AtRest(c)'
      BY <1>3, <2>5, <2>7, RestStays
    <3>2. c.at <= Len(lines')
      BY <1>1
    <3> QED  BY <1>2, <3>1, <3>2 DEF CursorInv
  <2> QED  BY <2>6, <2>7
<1>4. CASE ~AtRest(c)
  <2>1. PICK k \in (c.at + 1)..n : GoesOnAt(c, k)
    BY <1>1, <1>4 DEF CursorInv
  <2>2. GoesOnAt(c, k)'
    BY <2>1, GoesOnStays
  <2>3. k \in (c.at + 1)..Len(lines') /\ c.at <= Len(lines')
    BY <1>1
  <2> QED  BY <1>2, <2>2, <2>3 DEF CursorInv
<1> QED  BY <1>3, <1>4

\* What the provider of a transcript with markers writes.
Acts(e) ==
    \/ e.kind = "header" /\ UNCHANGED <<running, prompted>>
    \/ /\ e.kind = "start" /\ running = 0 /\ running' = e.id /\ e.id # 0
       /\ prompted' = EndsWith({"fail"})
    \/ e.kind = "user" /\ running # 0 /\ ~prompted /\ running' = running /\ prompted' = TRUE
    \/ e.kind \in S!Content /\ running # 0 /\ prompted /\ UNCHANGED <<running, prompted>>
    \/ /\ e.kind \in {"output", "answer"} /\ EndsWith({"call", "ask"})
       /\ UNCHANGED <<running, prompted>>
    \/ /\ e.kind \in {"finish", "abort", "fail"} /\ running # 0 /\ prompted
       /\ e.id = running /\ running' = 0 /\ prompted' = FALSE

LEMMA AppendsWrites ==
    ASSUME SourceInv, NEW kind, NEW id \in Nat, S!Appends(kind, id),
           kind \in {"header", "start", "user", "output", "answer", "finish", "abort", "fail"}
                    \union S!Content
    PROVE  \E e \in Entries : /\ Written(Len(lines), e) /\ e.kind = kind /\ e.id = id
                              /\ UNCHANGED <<explicit, replaced, sourceCursor, turns>>
<1> DEFINE e == [kind |-> kind, id |-> id, file |-> replaced]
<1>1. e \in Entries
  BY DEF Entries, SourceInv, SourceShape
<1>2. Written(Len(lines), e) /\ e.kind = kind /\ e.id = id
      /\ UNCHANGED <<explicit, replaced, sourceCursor, turns>>
  BY <1>1 DEF S!Appends, Written, SourceInv, SourceShape
<1> QED  BY <1>1, <1>2

LEMMA ProviderActs ==
    ASSUME SourceInv, explicit,
           \/ S!WritesHeader \/ S!StartsAttempt \/ S!Prompts \/ S!Returns
           \/ \E kind \in S!Content : S!Contributes(kind)
           \/ \E how \in {"finish", "abort", "fail"} : S!EndsAttempt(how)
    PROVE  \E e \in Entries : /\ Written(Len(lines), e) /\ Acts(e)
                              /\ UNCHANGED <<explicit, replaced, sourceCursor, turns>>
<1>0. running \in Nat /\ attempts \in Nat /\ attempts + 1 \in Nat /\ attempts + 1 # 0
      /\ 0 \in Nat
  BY DEF SourceInv, SourceShape
<1>1. CASE S!WritesHeader
  <2>1. S!Appends("header", 0)
    BY <1>1 DEF S!WritesHeader
  <2> QED  BY <1>0, <1>1, <2>1, AppendsWrites DEF S!WritesHeader, Acts
<1>2. CASE S!StartsAttempt
  <2>1. /\ S!Appends("start", attempts + 1) /\ running = 0 /\ running' = attempts + 1
        /\ prompted' = EndsWith({"fail"})
    BY <1>2 DEF S!StartsAttempt, EndsWith
  <2>2. PICK e \in Entries : /\ Written(Len(lines), e) /\ e.kind = "start" /\ e.id = attempts + 1
                             /\ UNCHANGED <<explicit, replaced, sourceCursor, turns>>
    BY <1>0, <2>1, AppendsWrites
  <2>3. Acts(e)
    BY <1>0, <2>1, <2>2 DEF Acts
  <2> QED  BY <2>2, <2>3
<1>3. CASE S!Prompts
  <2>1. /\ S!Appends("user", 0) /\ running # 0 /\ ~prompted /\ running' = running
        /\ prompted' = TRUE
    BY <1>3 DEF S!Prompts
  <2> QED  BY <1>0, <2>1, AppendsWrites DEF Acts
<1>4. CASE S!Returns
  <2>1. PICK kind \in {"output", "answer"} : S!Appends(kind, 0)
    BY <1>4 DEF S!Returns
  <2>2. EndsWith({"call", "ask"}) /\ UNCHANGED <<running, prompted>>
    BY <1>4 DEF S!Returns, EndsWith
  <2>3. PICK e \in Entries : /\ Written(Len(lines), e) /\ e.kind = kind
                             /\ UNCHANGED <<explicit, replaced, sourceCursor, turns>>
    BY <1>0, <2>1, AppendsWrites
  <2> QED  BY <2>2, <2>3 DEF Acts
<1>5. ASSUME NEW kind \in S!Content, S!Contributes(kind)
      PROVE  \E e \in Entries : /\ Written(Len(lines), e) /\ Acts(e)
                                /\ UNCHANGED <<explicit, replaced, sourceCursor, turns>>
  <2>1. /\ S!Appends(kind, 0) /\ running # 0 /\ prompted /\ UNCHANGED <<running, prompted>>
        /\ kind \in {"header", "start", "user", "output", "answer", "finish", "abort", "fail"}
                    \union S!Content
    BY <1>5 DEF S!Contributes
  <2>2. PICK e \in Entries : /\ Written(Len(lines), e) /\ e.kind = kind /\ e.id = 0
                             /\ UNCHANGED <<explicit, replaced, sourceCursor, turns>>
    BY <1>0, <2>1, AppendsWrites
  <2>3. Acts(e)
    BY <1>0, <2>1, <2>2 DEF Acts
  <2> QED  BY <2>2, <2>3
<1>6. ASSUME NEW how \in {"finish", "abort", "fail"}, S!EndsAttempt(how)
      PROVE  \E e \in Entries : /\ Written(Len(lines), e) /\ Acts(e)
                                /\ UNCHANGED <<explicit, replaced, sourceCursor, turns>>
  <2>1. /\ S!Appends(how, running) /\ running # 0 /\ prompted /\ running' = 0
        /\ prompted' = FALSE
        /\ how \in {"header", "start", "user", "output", "answer", "finish", "abort", "fail"}
                   \union S!Content
    BY <1>6 DEF S!EndsAttempt
  <2>2. PICK e \in Entries : /\ Written(Len(lines), e) /\ e.kind = how /\ e.id = running
                             /\ UNCHANGED <<explicit, replaced, sourceCursor, turns>>
    BY <1>0, <2>1, AppendsWrites
  <2>3. Acts(e)
    BY <1>0, <2>1, <2>2 DEF Acts
  <2> QED  BY <2>2, <2>3
<1> QED  BY <1>1, <1>2, <1>3, <1>4, <1>5, <1>6

\* So the parse of the whole tells where the attempt is, and the reader at rest is told.
LEMMA ActsTell ==
    ASSUME NEW CONSTANT n \in Nat, NEW CONSTANT e \in Entries, NEW CONSTANT w, NEW CONSTANT u,
           Seen(n, e, w, u), RecordIsRead(u, w, n + 1)', ProviderInv, Acts(e)
    PROVE  Tells(n + 1, u)' /\ (e.kind = "user" => w.pending # 0)
<1>1. CASE e.kind = "header" /\ UNCHANGED <<running, prompted>>
  BY <1>1, HeaderTells
<1>2. CASE /\ e.kind = "start" /\ running = 0 /\ running' = e.id /\ e.id # 0
           /\ prompted' = EndsWith({"fail"})
  BY <1>2, StartTells
<1>3. CASE e.kind = "user" /\ running # 0 /\ ~prompted /\ running' = running /\ prompted' = TRUE
  BY <1>3, PromptTells
<1>4. CASE e.kind \in S!Content /\ running # 0 /\ prompted /\ UNCHANGED <<running, prompted>>
  <2>1. e.kind # "user"
    BY <1>4 DEF S!Content
  <2> QED  BY <1>4, <2>1, ContentTells
<1>5. CASE /\ e.kind \in {"output", "answer"} /\ EndsWith({"call", "ask"})
           /\ UNCHANGED <<running, prompted>>
  <2>1. running # 0 /\ prompted /\ e.kind # "user"
    BY <1>5 DEF ProviderInv
  <2> QED  BY <1>5, <2>1, ResultTells
<1>6. CASE /\ e.kind \in {"finish", "abort", "fail"} /\ running # 0 /\ prompted
           /\ e.id = running /\ running' = 0 /\ prompted' = FALSE
  <2>1. e.kind # "user"
    BY <1>6
  <2> QED  BY <1>6, <2>1, EndTells
<1> QED  BY <1>1, <1>2, <1>3, <1>4, <1>5, <1>6 DEF Acts

LEMMA ActsAtRest ==
    ASSUME NEW CONSTANT c \in Cursors, AtRest(c), ProviderInv, NEW e \in Entries, Acts(e)
    PROVE  /\ e.kind \in {"header", "start", "user"}
           /\ e.kind # "user" => (running' # 0 => ~prompted')
<1>1. running # 0 => ~prompted
  BY DEF AtRest
<1>2. running = 0 => ~EndsWith({"fail"})
  BY DEF AtRest
<1>3. ~prompted => ~EndsWith({"call", "ask"})
  BY DEF ProviderInv
<1>4. running = 0 => ~prompted
  BY DEF ProviderInv
<1> QED  BY <1>1, <1>2, <1>3, <1>4 DEF Acts

LEMMA ActsProvide ==
    ASSUME NEW CONSTANT n \in Nat, NEW CONSTANT e \in Entries, Written(n, e), ProviderInv, Acts(e)
    PROVE  /\ prompted' \in BOOLEAN /\ (running' = 0 => ~prompted')
           /\ ~prompted' => ~EndsWith({"call", "ask"})'
<1>1. EndsWith({"call", "ask"})' <=> e.kind \in {"call", "ask"}
  BY EndsWithIt
<1>2. EndsWith({"fail"}) \in BOOLEAN
  BY DEF EndsWith
<1>3. prompted \in BOOLEAN /\ (running = 0 => ~prompted)
  BY DEF ProviderInv
<1>4. CASE UNCHANGED <<running, prompted>>
  <2>1. ~prompted => e.kind \notin {"call", "ask"}
    BY <1>3, <1>4 DEF Acts, S!Content
  <2> QED  BY <1>1, <1>3, <1>4, <2>1
<1>5. CASE /\ e.kind = "start" /\ running' # 0 /\ prompted' = EndsWith({"fail"})
  <2>1. e.kind \notin {"call", "ask"}
    BY <1>5
  <2> QED  BY <1>1, <1>2, <1>5, <2>1
<1>6. CASE e.kind = "user" /\ running' # 0 /\ prompted' = TRUE
  BY <1>6
<1>7. CASE /\ e.kind \in {"finish", "abort", "fail"} /\ running' = 0 /\ prompted' = FALSE
  <2>1. e.kind \notin {"call", "ask"}
    BY <1>7
  <2> QED  BY <1>1, <1>7, <2>1
<1> QED  BY <1>4, <1>5, <1>6, <1>7 DEF Acts

LEMMA RecordKeepsResuming ==
    ASSUME SourceInv, ResumeInv,
           NEW CONSTANT n \in Nat, NEW CONSTANT e \in Entries, Written(n, e),
           explicit => Acts(e), UNCHANGED <<explicit, replaced, sourceCursor, turns>>
    PROVE  ResumeInv'
<1> SUFFICES ASSUME explicit, ~replaced
             PROVE  /\ FileInv' /\ ProviderInv'
                    /\ \A c \in Cursors :
                         c = sourceCursor /\ (\A k \in DOMAIN turns : ~turns[k].swallowed)
                           => CursorInv(c)'
  BY DEF ResumeInv
<1>1. FileInv /\ ProviderInv /\ Acts(e)
  BY DEF ResumeInv
<1>2. PICK w : w = WholeAt(n)
  OBVIOUS
<1>3. PICK u : u = WholeAt(n + 1)'
  OBVIOUS
<1>4. w \in ParseStates /\ u \in ParseStates /\ ReadOn(w, u, n + 1)'
  BY <1>2, <1>3, WholeReadsOn
<1>5. n = Len(lines) /\ Len(lines') = n + 1
  BY WrittenIs DEF Written
<1>6. Tells(n + 1, u)' /\ (e.kind = "user" => w.halted \/ w.pending # 0)
  <2>1. CASE w.halted
    BY <1>4, <2>1 DEF ReadOn, Tells
  <2>2. CASE ~w.halted
    <3>1. MarkerIs(w, n) /\ AttemptIs(w)
      BY <1>1, <1>2, <1>5, <2>2 DEF FileInv, ProviderInv
    <3>2. Seen(n, e, w, u) /\ RecordIsRead(u, w, n + 1)'
      BY <1>4, <2>2, <3>1 DEF Seen, ReadOn
    <3> QED  BY <1>1, <3>2, ActsTell
  <2> QED  BY <2>1, <2>2
<1>7. FileInv'
  <2>1. MarkerIs(u, n + 1)'
    BY <1>6 DEF Tells, MarkerIs
  <2> QED  BY <1>1, <1>2, <1>3, <1>6, <2>1, FileGoesOn
<1>8. ProviderInv'
  <2>1. WholeAt(Len(lines))' = u
    BY <1>3, <1>5
  <2> QED  BY <1>1, <1>6, <2>1, ActsProvide DEF ProviderInv, Tells
<1>9. ASSUME NEW CONSTANT c \in Cursors, c = sourceCursor,
             \A k \in DOMAIN turns : ~turns[k].swallowed
      PROVE  CursorInv(c)'
  <2>1. CursorInv(c)
    BY <1>9 DEF ResumeInv
  <2>2. turns' = turns
    OBVIOUS
  <2> QED  BY <1>1, <2>1, <2>2, ActsAtRest, CursorStays
<1> QED  BY <1>7, <1>8, <1>9

LEMMA ResumingStarts ==
    ASSUME S!SourceInit
    PROVE  ResumeInv
<1>1. /\ lines = <<>> /\ turns = <<>> /\ sourceCursor = S!Start /\ running = 0
      /\ prompted = FALSE /\ Len(lines) = 0 /\ lines \in Seq(Entries)
  BY DEF S!SourceInit
<1>2. PICK w : w = S!Resumed(S!Start)
  OBVIOUS
<1>3. WholeAt(0) = w /\ WholeAt(Len(lines)) = w /\ S!Start \in Cursors /\ S!Start.at = 0
  BY <1>1, <1>2, WholeIs
<1>4. /\ w.turn = S!NoTurn /\ w.pending = 0 /\ w.out = <<>> /\ w.cursor = S!Start
      /\ ~w.halted /\ w.turn.from = 0 /\ w.turn.asked = 0
  BY <1>2 DEF S!Resumed, S!NoTurn
<1>5. FileInv
  <2>1. MarkerIs(w, 0)
    BY <1>4 DEF MarkerIs
  <2> QED  BY <1>1, <1>3, <2>1 DEF FileInv
<1>6. ProviderInv
  <2>1. \A kinds : ~EndsWith(kinds)
    BY <1>1 DEF EndsWith
  <2> QED  BY <1>1, <1>3, <1>4, <2>1 DEF ProviderInv, AttemptIs
<1>7. CursorInv(S!Start)
  <2>1. S!Parsed(S!Start, 0) = w
    BY <1>3 DEF WholeAt
  <2>2. \A e \in S!Start.at..Len(lines) : Quiet(S!Start, e)
    <3>1. Quiet(S!Start, 0)
      BY <1>4, <2>1 DEF Quiet
    <3> QED  BY <1>1, <1>3, <3>1
  <2>3. S!Start.next = w.cursor.next + (IF w.turn.from = 0 THEN 0 ELSE 1)
    BY <1>4 DEF S!Start
  <2>4. AllMatch(turns, Given(w))
    BY <1>1, <1>4 DEF AllMatch, Given
  <2>5. ~EndsWith({"fail"})
    BY <1>1 DEF EndsWith
  <2>6. AtRest(S!Start)
    BY <1>1, <1>3, <1>4, <2>1, <2>2, <2>3, <2>4, <2>5 DEF AtRest, SameMarker
  <2>7. S!Start.context = LastHeader(S!Start.at)
    <3>1. S!Start.context = 0
      BY DEF S!Start
    <3>2. LastHeader(0) = 0
      BY LastHeaderIs
    <3> QED  BY <1>3, <3>1, <3>2
  <2> QED  BY <1>1, <1>3, <2>6, <2>7 DEF CursorInv
<1> QED  BY <1>1, <1>5, <1>6, <1>7 DEF ResumeInv

LEMMA ResumingStays ==
    ASSUME SourceInv, ResumeInv,
           UNCHANGED <<lines, explicit, running, prompted, replaced, sourceCursor, turns>>
    PROVE  ResumeInv'
<1> SUFFICES ASSUME explicit, ~replaced
             PROVE  /\ FileInv' /\ ProviderInv'
                    /\ \A c \in Cursors :
                         c = sourceCursor /\ (\A k \in DOMAIN turns : ~turns[k].swallowed)
                           => CursorInv(c)'
  BY DEF ResumeInv
<1>1. FileInv /\ ProviderInv /\ lines \in Seq(Entries)
  BY DEF ResumeInv, SourceInv, SourceShape
<1>2. Extended /\ FileInv' /\ ProviderInv'
  BY <1>1, FileStays
<1>3. ASSUME NEW CONSTANT c \in Cursors, c = sourceCursor,
             \A k \in DOMAIN turns : ~turns[k].swallowed
      PROVE  CursorInv(c)'
  <2>1. CursorInv(c) /\ c.at \in Nat /\ Len(lines) \in Nat /\ c.at \in 0..Len(lines)
    BY <1>1, <1>3, CursorTypes DEF ResumeInv, CursorInv
  <2>2. c.at <= Len(lines') /\ c.context = LastHeader(c.at)'
    BY <1>2, <2>1, WholeAsBefore DEF CursorInv
  <2>3. CASE AtRest(c)
    <3>1. PICK n \in Nat : n = Len(lines)
      BY <2>1
    <3>2. PICK w : w = WholeAt(n)
      OBVIOUS
    <3>3. PICK r : r = S!Parsed(c, n)
      OBVIOUS
    <3>4. n \in 0..Len(lines) /\ c.at <= n /\ n = Len(lines')
      BY <2>1, <3>1
    <3>5. w = WholeAt(n)' /\ r = S!Parsed(c, n)'
      BY <1>2, <3>1, <3>2, <3>3, <3>4, WholeAsBefore
    <3>6. /\ \A e \in c.at..n : Quiet(c, e)
          /\ ~w.halted /\ w.turn.asked = 0 /\ SameMarker(w, r)
          /\ c.next = w.cursor.next + (IF w.turn.from = 0 THEN 0 ELSE 1)
          /\ AllMatch(turns, Given(w)) /\ (running # 0 => ~prompted)
          /\ (running = 0 => ~EndsWith({"fail"}))
      BY <2>3, <3>1, <3>2, <3>3 DEF AtRest
    <3>7. \A e \in c.at..n : Quiet(c, e)'
      <4> TAKE e \in c.at..n
      <4>1. e \in Nat /\ c.at <= e /\ e <= Len(lines)
        BY <2>1, <3>1
      <4>2. S!Parsed(c, e)' = S!Parsed(c, e)
        BY <1>2, <4>1, WholeAsBefore
      <4> QED  BY <3>6, <4>2 DEF Quiet
    <3>8. AllMatch(turns', Given(w)') /\ (running' = 0 => ~EndsWith({"fail"})')
      BY <3>6 DEF Given, Cut, CutTurn, EndsWith
    <3>9. AtRest(c)'
      BY <3>4, <3>5, <3>6, <3>7, <3>8, AtRestNext
    <3> QED  BY <2>2, <3>9 DEF CursorInv
  <2>4. CASE ~AtRest(c)
    <3>1. PICK k \in (c.at + 1)..Len(lines) : GoesOnAt(c, k)
      BY <2>1, <2>4 DEF CursorInv
    <3>2. k \in Nat /\ c.at < k /\ k <= Len(lines) /\ AllMatch(turns', WholeAt(k).out)
      BY <2>1, <3>1 DEF GoesOnAt
    <3>3. GoesOnAt(c, k)'
      BY <1>2, <3>1, <3>2, GoesOnAsBefore DEF GoesOnAt
    <3> QED  BY <2>2, <3>1, <3>3 DEF CursorInv
  <2> QED  BY <2>3, <2>4
<1> QED  BY <1>2, <1>3

LEMMA ResumingStep ==
    SourceInv /\ ResumeInv /\ [S!SourceNext]_(S!sourceVars) => ResumeInv'
<1> SUFFICES ASSUME SourceInv, ResumeInv, [S!SourceNext]_(S!sourceVars)
             PROVE  ResumeInv'
  OBVIOUS
<1>1. CASE \/ S!WritesHeader \/ S!StartsAttempt \/ S!Prompts \/ S!Returns
           \/ \E kind \in S!Content : S!Contributes(kind)
           \/ \E how \in {"finish", "abort", "fail"} : S!EndsAttempt(how)
  <2>1. CASE explicit
    <3>1. PICK e \in Entries : /\ Written(Len(lines), e) /\ Acts(e)
                               /\ UNCHANGED <<explicit, replaced, sourceCursor, turns>>
      BY <1>1, <2>1, ProviderActs
    <3>2. PICK n \in Nat : n = Len(lines)
      BY <3>1 DEF Written
    <3>3. Written(n, e)
      BY <3>1, <3>2
    <3> QED  BY <3>1, <3>3, RecordKeepsResuming
  <2>2. CASE ~explicit
    <3>1. explicit' = explicit
      BY <1>1 DEF S!WritesHeader, S!StartsAttempt, S!Prompts, S!Returns, S!Contributes,
                  S!EndsAttempt, S!Appends
    <3> QED  BY <2>2, <3>1 DEF ResumeInv
  <2> QED  BY <2>1, <2>2
<1>2. CASE S!IsReplaced
  BY <1>2 DEF S!IsReplaced, ResumeInv
<1>3. ASSUME NEW CONSTANT end \in 1..MaxRecords, S!Scans(end)
      PROVE  ResumeInv'
  BY <1>3, ScanKeepsResuming
<1>4. CASE S!ScansIdle
  BY <1>4, IdleScanKeepsResuming
<1>5. CASE UNCHANGED S!sourceVars
  BY <1>5, ResumingStays DEF S!sourceVars, S!providerVars
<1> QED  BY <1>1, <1>2, <1>3, <1>4, <1>5 DEF S!SourceNext

\* The turns of the whole are those its parse has cut and the one it has open.
LEMMA WholeGives ==
    ASSUME lines \in Seq(Entries), NEW w, w = WholeAt(Len(lines))
    PROVE  /\ w \in ParseStates
           /\ S!Whole = IF w.turn.from = 0 \/ w.halted THEN w.out ELSE Append(w.out, Cut(w))
<1>1. PICK n \in Nat : n = Len(lines)
  OBVIOUS
<1>2. w \in ParseStates
  <2>1. n \in 0..Len(lines)
    BY <1>1
  <2> QED  BY <1>1, <2>1, WholeIs DEF ParsedInv
<1>3. w.turn \in OpenTurns
  BY <1>2, StateTypes
<1> DEFINE v == [w EXCEPT !.turn.asked = 0]
           y == S!Yields(v, n, FALSE)
           no == FALSE
<1>4. v \in ParseStates /\ v.turn = [w.turn EXCEPT !.asked = 0] /\ v.out = w.out
      /\ v.cursor = w.cursor /\ v.turn.asked = 0
  BY <1>2, <1>3 DEF ParseStates, OpenTurns
<1>5. YieldOf(y, v, n, no) /\ no \in BOOLEAN
  BY DEF YieldOf
<1>6. S!Whole = IF w.turn.from = 0 \/ w.halted THEN w.out ELSE y.out
  BY <1>1 DEF S!Whole, WholeAt
<1>7. CutTurn(v, no) = Cut(w)
  <2>1. /\ v.turn.from = w.turn.from /\ v.turn.last = w.turn.last
        /\ v.turn.header = w.turn.header /\ v.turn.answered = w.turn.answered
        /\ v.cursor.next = w.cursor.next
    BY <1>3, <1>4 DEF OpenTurns
  <2>2. Cut(w) = CutTurn(w, no)
    BY DEF Cut
  <2> HIDE DEF v, no
  <2> QED  BY <2>1, <2>2 DEF CutTurn
<1> HIDE DEF y, v, no
<1>8. Yielded(y, v, n, no)
  BY <1>4, <1>5, YieldIs
<1>9. y.out = Append(w.out, Cut(w))
  BY <1>4, <1>7, <1>8 DEF Yielded
<1> QED  BY <1>2, <1>6, <1>9

LEMMA ResumedIsInvisible ==
    SourceInv /\ ResumeInv => S!ResumingIsInvisible
<1> SUFFICES ASSUME SourceInv, ResumeInv, explicit, ~replaced,
                    \A k \in DOMAIN turns : ~turns[k].swallowed
             PROVE  /\ Len(turns) <= Len(S!Whole)
                    /\ \A k \in DOMAIN turns : S!Matches(turns[k], S!Whole[k])
  BY DEF S!ResumingIsInvisible
<1>1. PICK c \in Cursors : c = sourceCursor
  BY DEF SourceInv, SourceShape
<1>2. CursorInv(c) /\ lines \in Seq(Entries) /\ turns \in Seq(CutTurns)
  BY <1>1, ScanStarts
<1>3. PICK n \in Nat : n = Len(lines)
  BY <1>2
<1>4. PICK w : w = WholeAt(n)
  OBVIOUS
<1>5. /\ w \in ParseStates /\ w.out \in Seq(CutTurns)
      /\ S!Whole = IF w.turn.from = 0 \/ w.halted THEN w.out ELSE Append(w.out, Cut(w))
  BY <1>2, <1>3, <1>4, WholeGives, StateTypes
<1>6. CASE AtRest(c)
  <2>1. AllMatch(turns, Given(w)) /\ ~w.halted
    BY <1>3, <1>4, <1>6 DEF AtRest
  <2>2. S!Whole = Given(w)
    BY <1>5, <2>1 DEF Given
  <2>3. Len(turns) \in Nat
    BY <1>2
  <2> QED  BY <2>1, <2>2, <2>3 DEF AllMatch
<1>7. CASE ~AtRest(c)
  <2>1. PICK k \in (c.at + 1)..Len(lines) : GoesOnAt(c, k)
    BY <1>2, <1>7 DEF CursorInv
  <2>2. k \in Nat /\ c.at < k /\ k <= n /\ n <= Len(lines) /\ AllMatch(turns, WholeAt(k).out)
    BY <1>3, <2>1, CursorTypes DEF GoesOnAt
  <2>3. PICK x : x = WholeAt(k).out
    OBVIOUS
  <2>4. PICK z : z = S!Parsed(c, n).out
    OBVIOUS
  <2>5. w.out = x \o z
    BY <1>2, <1>4, <2>1, <2>2, <2>3, <2>4, FollowsOn DEF Follows
  <2>6. x \in Seq(CutTurns) /\ z \in Seq(CutTurns)
    <3>1. k \in 0..Len(lines) /\ c.at <= n
      BY <1>3, <2>2, CursorTypes
    <3>2. WholeAt(k) \in ParseStates
      BY <1>2, <3>1, WholeIs DEF ParsedInv
    <3>3. S!Parsed(c, n) \in ParseStates
      BY <1>2, <2>2, <3>1, ParsedKeeps DEF ParsedInv
    <3> QED  BY <2>3, <2>4, <3>2, <3>3, StateTypes
  <2>7. AllMatch(turns, x)
    BY <2>2, <2>3
  <2>8. Len(turns) = Len(x) /\ Len(x) <= Len(S!Whole)
        /\ \A j \in DOMAIN x : S!Whole[j] = x[j]
    BY <1>5, <2>5, <2>6, <2>7 DEF AllMatch
  <2>9. DOMAIN turns = DOMAIN x
    BY <1>2, <2>6, <2>8
  <2> QED  BY <2>7, <2>8, <2>9 DEF AllMatch
<1> QED  BY <1>6, <1>7
=============================================================================
