---------------------------- MODULE RollupProofs ----------------------------
(* A rebuild that stops half-way never passes for a finished one, for any    *)
(* chats, bounds and sweeps, with or without purges, upgrades and crashes.   *)
(* And what a watermark accounts for, as long as no session id comes to      *)
(* name another transcript.                                                  *)
EXTENDS Rollup, SetLemmas, FunctionTheorems

AllNew(content) == \A x \in content : x[4] = "new"

RowOK(r) ==
    /\ r = [through |-> r.through, version |-> r.version, state |-> r.state,
            content |-> r.content]
    /\ r.version \in Formats
    /\ r.version = "new" => AllNew(r.content)

\* What a worker carries from batch to batch is never of an older version: it
\* starts from nothing, or from a rollup that is current.
JobOK(j) ==
    \/ j = Idle
    \/ /\ j = [id |-> j.id, chat |-> j.chat, seg |-> j.seg, state |-> j.state,
               expected |-> j.expected, last |-> j.last, carry |-> j.carry, stale |-> j.stale]
       /\ AllNew(j.carry)

RebuiltInv ==
    /\ \A i \in DOMAIN roll : RowOK(roll[i])
    /\ DOMAIN job = Workers /\ \A w \in Workers : JobOK(job[w])

----------------------------------------------------------------------------
LEMMA RowsKept ==
    ASSUME RebuiltInv, NEW i, NEW state, roll' = [roll EXCEPT ![i].state = state]
    PROVE  \A k \in DOMAIN roll' : RowOK(roll'[k])
<1> SUFFICES ASSUME NEW k \in DOMAIN roll
             PROVE  RowOK(roll'[k])
  OBVIOUS
<1>1. RowOK(roll[k])
  BY DEF RebuiltInv
<1>2. CASE k = i
  <2>1. roll'[k] = [roll[k] EXCEPT !.state = state]
    BY <1>2
  <2> QED  BY <1>1, <2>1 DEF RowOK
<1>3. CASE k # i
  BY <1>1, <1>3
<1> QED  BY <1>2, <1>3

LEMMA JobsKept ==
    ASSUME RebuiltInv, NEW w \in Workers, NEW j, JobOK(j), job' = [job EXCEPT ![w] = j]
    PROVE  DOMAIN job' = Workers /\ \A v \in Workers : JobOK(job'[v])
<1>1. DOMAIN job = Workers /\ \A v \in Workers : JobOK(job[v])
  BY DEF RebuiltInv
<1>2. \A v \in Workers : job'[v] = IF v = w THEN j ELSE job[v]
  BY <1>1
<1> QED  BY <1>1, <1>2

LEMMA IdleOK == JobOK(Idle)
BY DEF JobOK

\* rollupSession up to its first await.
LEMMA BeginKeeps ==
    ASSUME RebuiltInv, NEW w \in Workers, NEW i, NEW state, Begin(w, i, state)
    PROVE  RebuiltInv'
<1> DEFINE stored   == i \in DOMAIN roll
           stale    == stored /\ roll[i].version = "old"
           existing == stored /\ ~stale
           mark     == IF existing THEN roll[i].through ELSE 0
           j        == [id |-> i, chat |-> sess[i].chat, seg |-> sess[i].seg,
                        state |-> state, expected |-> mark, last |-> sess[i].n,
                        carry |-> IF existing THEN roll[i].content ELSE {},
                        stale |-> stale]
<1>1. CASE roll' = [roll EXCEPT ![i].state = state] /\ UNCHANGED job
  BY <1>1, RowsKept DEF RebuiltInv
<1>2. CASE job' = [job EXCEPT ![w] = j] /\ UNCHANGED roll
  <2>1. AllNew(j.carry)
    <3>1. CASE existing
      BY <3>1 DEF RebuiltInv, RowOK, Formats
    <3>2. CASE ~existing
      BY <3>2 DEF AllNew
    <3> QED  BY <3>1, <3>2
  <2>2. JobOK(j)
    <3> DEFINE mk == mark
               ca == j.carry
               st == stale
    <3>1. j = [id |-> i, chat |-> sess[i].chat, seg |-> sess[i].seg,
               state |-> state, expected |-> mk, last |-> sess[i].n,
               carry |-> ca, stale |-> st]
      OBVIOUS
    <3>2. AllNew(ca)
      BY <2>1
    <3> HIDE DEF mk, ca, st, j
    <3> QED  BY <3>1, <3>2 DEF JobOK
  <2>3. DOMAIN job' = Workers /\ \A v \in Workers : JobOK(job'[v])
    <3> HIDE DEF j
    <3> QED  BY <1>2, <2>2, JobsKept
  <2> QED  BY <1>2, <2>3 DEF RebuiltInv
<1> QED  BY <1>1, <1>2 DEF Begin

LEMMA DropKeeps ==
    ASSUME RebuiltInv, NEW w \in Workers, Drop(w), UNCHANGED roll
    PROVE  RebuiltInv'
BY IdleOK, JobsKept DEF Drop, RebuiltInv

\* A batch is answered and written.
LEMMA AnsweredKeeps ==
    ASSUME RebuiltInv, NEW w \in Workers, ~Free(w), NEW b, Answered(w, b)
    PROVE  RebuiltInv'
<1> DEFINE j    == job[w]
           all  == j.carry \cup Folded(j.chat, j.seg, (j.expected + 1)..b)
           done == b = j.last
           row  == [through |-> b,
                    version |-> IF j.stale /\ ~done THEN "old" ELSE "new",
                    state   |-> IF done THEN j.state ELSE "live",
                    content |-> all]
           next == IF done THEN Idle ELSE [j EXCEPT !.expected = b, !.carry = all]
<1>1. /\ roll' = Put(roll, j.id, row)
      /\ job' = [job EXCEPT ![w] = next]
  BY DEF Answered
<1>2. /\ AllNew(j.carry)
      /\ j = [id |-> j.id, chat |-> j.chat, seg |-> j.seg, state |-> j.state,
              expected |-> j.expected, last |-> j.last, carry |-> j.carry, stale |-> j.stale]
  <2>1. j # Idle /\ JobOK(j)
    BY DEF Free, Holds, Idle, RebuiltInv
  <2> QED  BY <2>1 DEF JobOK
<1>3. AllNew(all)
  <2>1. AllNew(Folded(j.chat, j.seg, (j.expected + 1)..b))
    BY DEF AllNew, Folded
  <2> QED  BY <1>2, <2>1 DEF AllNew
<1>4. RowOK(row)
  <2> HIDE DEF all, done, j
  <2> QED  BY <1>3 DEF RowOK, Formats
<1>5. JobOK(next)
  <2>1. CASE done
    BY <2>1, IdleOK
  <2>2. CASE ~done
    <3> HIDE DEF all, done
    <3>1. next = [j EXCEPT !.expected = b, !.carry = all]
      BY <2>2
    <3>2. next = [id |-> j.id, chat |-> j.chat, seg |-> j.seg, state |-> j.state,
                  expected |-> b, last |-> j.last, carry |-> all, stale |-> j.stale]
      BY <3>1, <1>2
    <3> HIDE DEF next
    <3> QED  BY <3>2, <1>3 DEF JobOK
  <2> QED  BY <2>1, <2>2
<1>6. \A i \in DOMAIN roll' : RowOK(roll'[i])
  <2> HIDE DEF row
  <2> QED  BY <1>1, <1>4 DEF Put, RebuiltInv
<1>7. DOMAIN job' = Workers /\ \A v \in Workers : JobOK(job'[v])
  <2> HIDE DEF next
  <2> QED  BY <1>1, <1>5, JobsKept
<1> QED  BY <1>6, <1>7 DEF RebuiltInv

LEMMA UpgradeKeeps ==
    ASSUME RebuiltInv, Upgrade
    PROVE  RebuiltInv'
<1>1. ASSUME NEW i \in DOMAIN roll
      PROVE  RowOK(roll'[i])
  <2> DEFINE old == {<<x[1], x[2], x[3], "old">> : x \in roll[i].content}
  <2>1. roll'[i] = [roll[i] EXCEPT !.version = "old", !.content = old]
    BY DEF Upgrade
  <2>2. RowOK(roll[i])
    BY DEF RebuiltInv
  <2> HIDE DEF old
  <2>3. roll'[i] = [through |-> roll[i].through, version |-> "old",
                    state |-> roll[i].state, content |-> old]
    BY <2>1, <2>2 DEF RowOK
  <2> QED  BY <2>3 DEF RowOK, Formats
<1>2. DOMAIN roll' = DOMAIN roll
  BY DEF Upgrade
<1> QED  BY <1>1, <1>2 DEF Upgrade, RebuiltInv

LEMMA RebuiltInit == Init => RebuiltInv
<1> SUFFICES ASSUME Init
             PROVE  RebuiltInv
  OBVIOUS
<1>1. DOMAIN job = Workers /\ \A w \in Workers : job[w] = Idle
  BY DEF Init
<1>2. DOMAIN roll = {}
  BY DEF Init
<1> QED  BY <1>1, <1>2, IdleOK DEF RebuiltInv

LEMMA RebuiltStep == RebuiltInv /\ [Next]_vars => RebuiltInv'
<1> SUFFICES ASSUME RebuiltInv, [Next]_vars
             PROVE  RebuiltInv'
  OBVIOUS
<1>1. "scan" \in Workers /\ "cli" \in Workers /\ Sweeps \subseteq Workers
  BY DEF Workers
<1>2. ASSUME UNCHANGED <<roll, job>>
      PROVE  RebuiltInv'
  BY <1>2 DEF RebuiltInv
<1>3. ASSUME NEW c \in Chats, Stirs(c) \/ Rests(c) \/ ScanStores(c)
      PROVE  RebuiltInv'
  BY <1>3, <1>2 DEF Stirs, Rests, ScanStores, Stored, db
<1>4. ASSUME NEW c \in Chats, ScanCuts(c)
      PROVE  RebuiltInv'
  BY <1>1, <1>4, BeginKeeps DEF ScanCuts
<1>5. ASSUME NEW c \in Chats, Purge(c)
      PROVE  RebuiltInv'
  BY <1>5 DEF Purge, RebuiltInv
<1>6. CASE ScanOpens \/ ScanBlocked \/ ScanLeaves
  BY <1>6, <1>2 DEF ScanOpens, ScanBlocked, ScanLeaves, Stored, db
<1>7. CASE ScanMarks
  <2>1. CASE roll' = [roll EXCEPT ![scan.id].state = "live"]
    BY <1>7, <2>1, RowsKept DEF ScanMarks, RebuiltInv
  <2>2. CASE roll' = roll
    BY <1>7, <2>2, <1>2 DEF ScanMarks
  <2> QED  BY <1>7, <2>1, <2>2 DEF ScanMarks
<1>8. CASE ScanRefreshes
  BY <1>1, <1>8, BeginKeeps DEF ScanRefreshes
<1>9. ASSUME NEW w \in Sweeps, SweepStarts(w)
      PROVE  RebuiltInv'
  BY <1>9, <1>2 DEF SweepStarts, db
<1>10. ASSUME NEW w \in Sweeps, NEW e \in list[w], SweepVisits(w, e)
       PROVE  RebuiltInv'
  BY <1>1, <1>10, <1>2, BeginKeeps DEF SweepVisits
<1>11. ASSUME NEW rebuild \in BOOLEAN, CliStarts(rebuild)
       PROVE  RebuiltInv'
  BY <1>11, <1>2 DEF CliStarts, db
<1>12. ASSUME NEW e \in list["cli"], CliVisits(e)
       PROVE  RebuiltInv'
  BY <1>1, <1>12, <1>2, BeginKeeps DEF CliVisits
<1>13. ASSUME NEW w \in Workers, Answers(w)
       PROVE  RebuiltInv'
  BY <1>13, AnsweredKeeps DEF Answers
<1>14. ASSUME NEW w \in Workers, Refused(w) \/ Fails(w)
       PROVE  RebuiltInv'
  BY <1>14, DropKeeps DEF Refused, Fails, db
<1>15. CASE DaemonStops
  <2>1. \A w \in Workers : job'[w] = IF w = "cli" THEN job[w] ELSE Idle
    BY <1>15 DEF DaemonStops
  <2>2. DOMAIN job' = Workers /\ roll' = roll
    BY <1>15 DEF DaemonStops, db
  <2> QED  BY <2>1, <2>2, IdleOK DEF RebuiltInv
<1>16. CASE DaemonStarts
  BY <1>16, <1>2 DEF DaemonStarts, db
<1>17. CASE CliStops
  BY <1>17, <1>1, DropKeeps DEF CliStops, db
<1>18. CASE UNCHANGED vars
  BY <1>18, <1>2 DEF vars, db
<1> QED
  BY <1>3, <1>4, <1>5, <1>6, <1>7, <1>8, <1>9, <1>10, <1>11, <1>12, <1>13, <1>14,
     <1>15, <1>16, <1>17, <1>18, UpgradeKeeps DEF Next, ScanStep, ScanGoesOn

\* A rollup of the current version holds nothing that an older version folded in,
\* whoever interrupts a rebuild (rollup-service.ts: the first batch of a rebuild
\* replaces the stored rollup, and only the last one marks it as current).
THEOREM CurrentIsRebuiltHolds == Spec => []CurrentIsRebuilt
<1>1. RebuiltInv => CurrentIsRebuilt
  BY DEF RebuiltInv, RowOK, AllNew, CurrentIsRebuilt
<1> QED  BY RebuiltInit, RebuiltStep, <1>1, PTL DEF Spec

----------------------------------------------------------------------------
\* A purge frees session ids, and SQLite gives the largest one out again.  What
\* follows is about the cases in which that names no other transcript: nothing
\* is purged, or there is one transcript, which then stays frozen.
NoIdReuse == ~CanPurge \/ \A c, d \in Chats : c = d

\* content is the first n turns of a segment, each folded in once.
Folds(content, c, s, n) ==
    \E f \in [1..n -> Formats] : content = {<<c, s, t, f[t]>> : t \in 1..n}

SessionOK(s) ==
    s = [chat |-> s.chat, seg |-> s.seg, n |-> s.n] /\ s.chat \in Chats /\ s.n \in Nat

SessionsOK ==
    IsFiniteSet(DOMAIN sess) /\ \A i \in DOMAIN sess : i \in Nat \ {0} /\ SessionOK(sess[i])

RollupsOK ==
    \A i \in DOMAIN roll :
        /\ i \in DOMAIN sess
        /\ roll[i].through \in Nat /\ roll[i].through <= sess[i].n
        /\ Folds(roll[i].content, sess[i].chat, sess[i].seg, roll[i].through)

\* The rollup in flight is of the session that has its id, or of none: of a
\* transcript that is frozen by now.
JobCounts(j) ==
    \/ j = Idle
    \/ /\ j.id # 0 /\ j.chat \in Chats
       /\ j.expected \in Nat /\ j.last \in Nat
       /\ Folds(j.carry, j.chat, j.seg, j.expected)
       /\ IF j.id \in DOMAIN sess
          THEN j.chat = sess[j.id].chat /\ j.seg = sess[j.id].seg /\ j.last <= sess[j.id].n
          ELSE j.chat \in frozen

CountInv ==
    /\ SessionsOK /\ RollupsOK
    /\ \A w \in Workers : JobCounts(job[w])
    /\ frozen = {} \/ Chats \subseteq frozen

LEMMA NothingFolds == \A c, s : Folds({}, c, s, 0)
<1> SUFFICES ASSUME NEW c, NEW s
             PROVE  Folds({}, c, s, 0)
  OBVIOUS
<1> DEFINE f == [t \in 1..0 |-> "new"]
<1>1. f \in [1..0 -> Formats] /\ 1..0 = {}
  BY DEF Formats
<1>2. {} = {<<c, s, t, f[t]>> : t \in 1..0}
  BY <1>1
<1> QED  BY <1>1, <1>2 DEF Folds

\* The turns after the first e are folded in, as far as b.
LEMMA FoldsOn ==
    ASSUME NEW content, NEW c, NEW s, NEW e \in Nat, NEW b \in Nat, e <= b,
           Folds(content, c, s, e)
    PROVE  Folds(content \cup Folded(c, s, (e + 1)..b), c, s, b)
<1>1. PICK f \in [1..e -> Formats] : content = {<<c, s, t, f[t]>> : t \in 1..e}
  BY DEF Folds
<1> DEFINE g == [t \in 1..b |-> IF t <= e THEN f[t] ELSE "new"]
<1>2. g \in [1..b -> Formats]
  BY DEF Formats
<1>3. 1..b = (1..e) \cup ((e + 1)..b)
  OBVIOUS
<1>4. \A t \in 1..e : g[t] = f[t]
  OBVIOUS
<1>5. \A t \in (e + 1)..b : g[t] = "new"
  OBVIOUS
<1> HIDE DEF g
<1>6. {<<c, s, t, g[t]>> : t \in 1..b}
        = {<<c, s, t, f[t]>> : t \in 1..e} \cup {<<c, s, t, "new">> : t \in (e + 1)..b}
  BY <1>3, <1>4, <1>5
<1> QED  BY <1>1, <1>2, <1>6 DEF Folds, Folded

\* Another version folds in nothing more, and nothing less.
LEMMA FoldsAsOld ==
    ASSUME NEW content, NEW c, NEW s, NEW n \in Nat, Folds(content, c, s, n)
    PROVE  Folds({<<x[1], x[2], x[3], "old">> : x \in content}, c, s, n)
<1>1. PICK f \in [1..n -> Formats] : content = {<<c, s, t, f[t]>> : t \in 1..n}
  BY DEF Folds
<1> DEFINE g == [t \in 1..n |-> "old"]
<1>2. g \in [1..n -> Formats] /\ \A t \in 1..n : g[t] = "old"
  BY DEF Formats
<1> HIDE DEF g
<1> DEFINE old == {<<x[1], x[2], x[3], "old">> : x \in content}
<1>3. ASSUME NEW y \in old
      PROVE  y \in {<<c, s, t, g[t]>> : t \in 1..n}
  <2>1. PICK x \in content : y = <<x[1], x[2], x[3], "old">>
    OBVIOUS
  <2>2. PICK t \in 1..n : x = <<c, s, t, f[t]>>
    BY <1>1
  <2> QED  BY <1>2, <2>1, <2>2
<1>4. ASSUME NEW t \in 1..n
      PROVE  <<c, s, t, g[t]>> \in old
  <2> DEFINE x == <<c, s, t, f[t]>>
  <2>1. x \in content /\ <<x[1], x[2], x[3], "old">> = <<c, s, t, "old">>
    BY <1>1
  <2>2. g[t] = "old"
    BY <1>2
  <2> HIDE DEF x
  <2> QED  BY <2>1, <2>2
<1>5. old = {<<c, s, t, g[t]>> : t \in 1..n}
  <2> HIDE DEF old
  <2> QED  BY <1>3, <1>4
<1> QED  BY <1>2, <1>5 DEF Folds

\* So a content of that form names its turns, and as many.
LEMMA FoldsCounts ==
    ASSUME NEW content, NEW c, NEW s, NEW n \in Nat, Folds(content, c, s, n)
    PROVE  /\ {<<x[1], x[2], x[3]>> : x \in content} = {<<c, s, t>> : t \in 1..n}
           /\ Cardinality(content) = n
<1>1. PICK f \in [1..n -> Formats] : content = {<<c, s, t, f[t]>> : t \in 1..n}
  BY DEF Folds
<1>2. {<<x[1], x[2], x[3]>> : x \in content} = {<<c, s, t>> : t \in 1..n}
  <2> DEFINE named == {<<x[1], x[2], x[3]>> : x \in content}
  <2>1. ASSUME NEW y \in named
        PROVE  y \in {<<c, s, t>> : t \in 1..n}
    <3>1. PICK x \in content : y = <<x[1], x[2], x[3]>>
      OBVIOUS
    <3>2. PICK t \in 1..n : x = <<c, s, t, f[t]>>
      BY <1>1
    <3> QED  BY <3>1, <3>2
  <2>2. ASSUME NEW t \in 1..n
        PROVE  <<c, s, t>> \in named
    <3> DEFINE x == <<c, s, t, f[t]>>
    <3>1. x \in content /\ <<x[1], x[2], x[3]>> = <<c, s, t>>
      BY <1>1
    <3> HIDE DEF x
    <3> QED  BY <3>1
  <2>3. named = {<<c, s, t>> : t \in 1..n}
    <3> HIDE DEF named
    <3> QED  BY <2>1, <2>2
  <2> QED  BY <2>3
<1> DEFINE g == [t \in 1..n |-> <<c, s, t, f[t]>>]
<1>3. g \in Bijection(1..n, content)
  <2>1. g \in [1..n -> content]
    BY <1>1
  <2>2. \A t, u \in 1..n : g[t] = g[u] => t = u
    OBVIOUS
  <2>3. \A x \in content : \E t \in 1..n : g[t] = x
    BY <1>1
  <2> HIDE DEF g
  <2> QED  BY <2>1, <2>2, <2>3, Fun_IsBij
<1>4. IsFiniteSet(1..n) /\ Cardinality(1..n) = n
  BY FS_Interval
<1>5. Cardinality(content) = n
  <2>1. ExistsBijection(1..n, content)
    <3> HIDE DEF g
    <3> QED  BY <1>3 DEF ExistsBijection
  <2> QED  BY <1>4, <2>1, FS_Bijection
<1> QED  BY <1>2, <1>5

\* The id of a new session is no session's.
LEMMA NewIdIsNew ==
    ASSUME SessionsOK
    PROVE  NewId \in Nat \ {0} /\ NewId \notin DOMAIN sess
<1>1. CASE DOMAIN sess = {}
  BY <1>1 DEF NewId
<1>2. CASE DOMAIN sess # {}
  <2>1. DOMAIN sess \in SUBSET Int /\ IsFiniteSet(DOMAIN sess)
    BY DEF SessionsOK
  <2>2. Max(DOMAIN sess) \in DOMAIN sess /\ \A i \in DOMAIN sess : i <= Max(DOMAIN sess)
    BY <1>2, <2>1, MaxOfFinite
  <2>3. Max(DOMAIN sess) \in Nat /\ \A i \in DOMAIN sess : i \in Nat
    BY <2>2 DEF SessionsOK
  <2>4. NewId = 1 + Max(DOMAIN sess)
    BY <1>2 DEF NewId
  <2> QED  BY <2>2, <2>3, <2>4
<1> QED  BY <1>1, <1>2

\* Sessions, rollups and transcripts that stay leave the jobs what they were, but
\* for the one that changes.
LEMMA OneJobCounts ==
    ASSUME RebuiltInv, CountInv, UNCHANGED <<sess, frozen>>, RollupsOK',
           NEW w \in Workers, NEW j, JobCounts(j), job' = [job EXCEPT ![w] = j]
    PROVE  CountInv'
<1>1. \A v \in Workers : job'[v] = IF v = w THEN j ELSE job[v]
  BY DEF RebuiltInv
<1>2. \A v \in Workers : JobCounts(job'[v])
  BY <1>1 DEF CountInv
<1>3. \A v \in Workers : JobCounts(job[v])'
  BY <1>2 DEF JobCounts
<1> QED  BY <1>3 DEF CountInv, SessionsOK

LEMMA IdleCounts == JobCounts(Idle)
BY DEF JobCounts

\* Neither what a rollup accounts for nor its session changes.
LEMMA StatesKeepRollups ==
    ASSUME CountInv, RebuiltInv, UNCHANGED sess, DOMAIN roll' = DOMAIN roll,
           \A i \in DOMAIN roll : roll'[i].through = roll[i].through /\ roll'[i].content = roll[i].content
    PROVE  RollupsOK'
BY DEF CountInv, RollupsOK

LEMMA WakingKeepsRollups ==
    ASSUME CountInv, RebuiltInv, UNCHANGED sess, NEW i, NEW state,
           roll' = [roll EXCEPT ![i].state = state]
    PROVE  RollupsOK'
<1>1. ASSUME NEW k \in DOMAIN roll
      PROVE  roll'[k].through = roll[k].through /\ roll'[k].content = roll[k].content
  <2>1. RowOK(roll[k])
    BY DEF RebuiltInv
  <2>2. roll'[k] = IF k = i THEN [roll[k] EXCEPT !.state = state] ELSE roll[k]
    OBVIOUS
  <2> QED  BY <2>1, <2>2 DEF RowOK
<1> QED  BY <1>1, StatesKeepRollups

LEMMA BeginCounts ==
    ASSUME RebuiltInv, CountInv, UNCHANGED <<sess, frozen>>,
           NEW w \in Workers, NEW i \in DOMAIN sess, NEW state, Begin(w, i, state)
    PROVE  CountInv'
<1> DEFINE stored   == i \in DOMAIN roll
           stale    == stored /\ roll[i].version = "old"
           existing == stored /\ ~stale
           mark     == IF existing THEN roll[i].through ELSE 0
           carry    == IF existing THEN roll[i].content ELSE {}
           j        == [id |-> i, chat |-> sess[i].chat, seg |-> sess[i].seg,
                        state |-> state, expected |-> mark, last |-> sess[i].n,
                        carry |-> carry, stale |-> stale]
<1>1. CASE roll' = [roll EXCEPT ![i].state = state] /\ UNCHANGED job
  <2>1. RollupsOK'
    BY <1>1, WakingKeepsRollups
  <2> QED  BY <1>1, <2>1 DEF CountInv, SessionsOK, JobCounts
<1>2. CASE job' = [job EXCEPT ![w] = j] /\ UNCHANGED roll
  <2>1. RollupsOK'
    BY <1>2 DEF CountInv, RollupsOK
  <2>2. i # 0 /\ sess[i].chat \in Chats /\ sess[i].n \in Nat
    BY DEF CountInv, SessionsOK, SessionOK
  <2>3. mark \in Nat /\ Folds(carry, sess[i].chat, sess[i].seg, mark)
    <3>1. CASE existing
      BY <3>1 DEF CountInv, RollupsOK
    <3>2. CASE ~existing
      BY <3>2, NothingFolds
    <3> QED  BY <3>1, <3>2
  <2>4. JobCounts(j)
    <3> HIDE DEF mark, carry, stale
    <3> QED  BY <2>2, <2>3 DEF JobCounts
  <2> HIDE DEF j
  <2> QED  BY <1>2, <2>1, <2>4, OneJobCounts
<1> QED  BY <1>1, <1>2 DEF Begin

LEMMA AnsweredCounts ==
    ASSUME RebuiltInv, CountInv, UNCHANGED <<sess, frozen>>, NEW w \in Workers, ~Free(w),
           NEW b \in (job[w].expected + 1)..job[w].last, Answered(w, b)
    PROVE  CountInv'
<1> DEFINE j    == job[w]
           all  == j.carry \cup Folded(j.chat, j.seg, (j.expected + 1)..b)
           done == b = j.last
           row  == [through |-> b,
                    version |-> IF j.stale /\ ~done THEN "old" ELSE "new",
                    state   |-> IF done THEN j.state ELSE "live",
                    content |-> all]
           next == IF done THEN Idle ELSE [j EXCEPT !.expected = b, !.carry = all]
<1>1. /\ j.id \in DOMAIN sess
      /\ roll' = Put(roll, j.id, row)
      /\ job' = [job EXCEPT ![w] = next]
  BY DEF Answered
<1>2. /\ j # Idle /\ JobCounts(j)
      /\ j = [id |-> j.id, chat |-> j.chat, seg |-> j.seg, state |-> j.state,
              expected |-> j.expected, last |-> j.last, carry |-> j.carry, stale |-> j.stale]
  <2>1. j # Idle /\ JobOK(j)
    BY DEF Free, Holds, Idle, RebuiltInv
  <2> QED  BY <2>1 DEF JobOK, CountInv
<1>3. /\ j.id # 0 /\ j.chat \in Chats /\ j.expected \in Nat /\ j.last \in Nat
      /\ Folds(j.carry, j.chat, j.seg, j.expected)
      /\ j.chat = sess[j.id].chat /\ j.seg = sess[j.id].seg /\ j.last <= sess[j.id].n
  BY <1>1, <1>2 DEF JobCounts
<1>4. b \in Nat /\ j.expected <= b /\ b <= j.last
  BY <1>3
<1>5. Folds(all, j.chat, j.seg, b)
  BY <1>3, <1>4, FoldsOn
<1>6. RollupsOK'
  <2> SUFFICES ASSUME NEW i \in DOMAIN roll'
               PROVE  /\ i \in DOMAIN sess
                      /\ roll'[i].through \in Nat /\ roll'[i].through <= sess[i].n
                      /\ Folds(roll'[i].content, sess[i].chat, sess[i].seg, roll'[i].through)
    BY DEF RollupsOK
  <2>1. CASE i = j.id
    <3>1. roll'[i] = row /\ row.through = b /\ row.content = all
      <4> HIDE DEF all, done, j
      <4> QED  BY <1>1, <2>1 DEF Put
    <3>2. sess[i].n \in Nat
      BY <1>1, <2>1 DEF CountInv, SessionsOK, SessionOK
    <3> HIDE DEF row, all
    <3> QED  BY <1>1, <1>3, <1>4, <1>5, <2>1, <3>1, <3>2
  <2>2. CASE i # j.id
    <3>1. i \in DOMAIN roll /\ roll'[i] = roll[i]
      <4> HIDE DEF row
      <4> QED  BY <1>1, <2>2 DEF Put
    <3> QED  BY <3>1 DEF CountInv, RollupsOK
  <2> QED  BY <2>1, <2>2
<1>7. JobCounts(next)
  <2>1. CASE done
    BY <2>1, IdleCounts
  <2>2. CASE ~done
    <3> HIDE DEF all, done
    <3>1. next = [j EXCEPT !.expected = b, !.carry = all]
      BY <2>2
    <3>2. next = [id |-> j.id, chat |-> j.chat, seg |-> j.seg, state |-> j.state,
                  expected |-> b, last |-> j.last, carry |-> all, stale |-> j.stale]
      BY <3>1, <1>2
    <3> HIDE DEF next
    <3> QED  BY <1>1, <1>3, <1>4, <1>5, <3>2 DEF JobCounts
  <2> QED  BY <2>1, <2>2
<1> HIDE DEF next
<1> QED  BY <1>1, <1>6, <1>7, OneJobCounts

\* A turn is stored: in its session, or in a new one.
LEMMA StoredCounts ==
    ASSUME RebuiltInv, CountInv, UNCHANGED <<roll, frozen, job>>,
           NEW i, NEW row, SessionOK(row), sess' = Put(sess, i, row),
           \/ /\ i \in DOMAIN sess /\ row.chat = sess[i].chat /\ row.seg = sess[i].seg
              /\ sess[i].n <= row.n
           \/ /\ i = NewId /\ frozen = {}
    PROVE  CountInv'
<1>1. i \in Nat \ {0} /\ SessionsOK
  BY NewIdIsNew DEF CountInv, SessionsOK
<1>2. /\ DOMAIN sess' = DOMAIN sess \cup {i} /\ sess'[i] = row
      /\ \A k \in DOMAIN sess : k # i => sess'[k] = sess[k]
  BY DEF Put
<1>3. IsFiniteSet(DOMAIN sess')
  BY <1>1, <1>2, FS_AddElement DEF SessionsOK
<1>4. SessionsOK'
  <2>1. \A k \in DOMAIN sess' : k \in Nat \ {0} /\ SessionOK(sess'[k])
    BY <1>1, <1>2 DEF SessionsOK
  <2> QED  BY <1>3, <2>1 DEF SessionsOK
<1>5. ASSUME NEW k \in DOMAIN sess
      PROVE  sess'[k].chat = sess[k].chat /\ sess'[k].seg = sess[k].seg /\ sess[k].n <= sess'[k].n
             /\ sess[k].n \in Nat /\ sess'[k].n \in Nat
  <2>1. sess[k].n \in Nat
    BY <1>1 DEF SessionsOK, SessionOK
  <2>2. row.n \in Nat
    BY DEF SessionOK
  <2>3. CASE k = i
    BY <1>1, <1>2, <2>1, <2>2, <2>3, NewIdIsNew
  <2>4. CASE k # i
    BY <1>2, <2>1, <2>4
  <2> QED  BY <2>3, <2>4
<1>6. RollupsOK'
  <2>1. ASSUME NEW k \in DOMAIN roll
        PROVE  /\ k \in DOMAIN sess' /\ roll[k].through \in Nat /\ roll[k].through <= sess'[k].n
               /\ Folds(roll[k].content, sess'[k].chat, sess'[k].seg, roll[k].through)
    <3>1. /\ k \in DOMAIN sess /\ roll[k].through \in Nat /\ roll[k].through <= sess[k].n
          /\ Folds(roll[k].content, sess[k].chat, sess[k].seg, roll[k].through)
      BY DEF CountInv, RollupsOK
    <3> QED  BY <3>1, <1>2, <1>5
  <2> QED  BY <2>1 DEF RollupsOK
<1>7. ASSUME NEW w \in Workers
      PROVE  JobCounts(job[w])'
  <2>1. CASE job[w] = Idle
    BY <2>1 DEF JobCounts
  <2>2. CASE job[w] # Idle /\ job[w].id \in DOMAIN sess
    <3>1. JobCounts(job[w])
      BY DEF CountInv
    <3> QED  BY <1>2, <1>5, <2>2, <3>1 DEF JobCounts
  <2>3. CASE job[w] # Idle /\ job[w].id \notin DOMAIN sess
    <3>1. JobCounts(job[w])
      BY DEF CountInv
    <3>2. frozen # {} /\ i \in DOMAIN sess
      BY <2>3, <3>1 DEF JobCounts
    <3> QED  BY <1>2, <2>3, <3>1, <3>2 DEF JobCounts
  <2> QED  BY <2>1, <2>2, <2>3
<1> QED  BY <1>4, <1>6, <1>7 DEF CountInv

LEMMA PurgeCounts ==
    ASSUME NoIdReuse, CountInv, NEW c \in Chats, Purge(c)
    PROVE  CountInv'
<1>1. /\ CanPurge
      /\ sess' = [i \in DOMAIN sess \ OfChat(c) |-> sess[i]]
      /\ roll' = [i \in DOMAIN roll \ OfChat(c) |-> roll[i]]
      /\ frozen' = frozen \cup {c} /\ job' = job
  BY DEF Purge
<1>2. SessionsOK'
  <2>1. IsFiniteSet(DOMAIN sess \ OfChat(c))
    BY FS_Difference DEF CountInv, SessionsOK
  <2> QED  BY <1>1, <2>1 DEF CountInv, SessionsOK
<1>3. RollupsOK'
  BY <1>1 DEF CountInv, RollupsOK
<1>4. ASSUME NEW w \in Workers
      PROVE  JobCounts(job[w])'
  <2>1. JobCounts(job[w])
    BY DEF CountInv
  <2>2. CASE job[w] = Idle
    BY <1>1, <2>2 DEF JobCounts
  <2>3. CASE job[w].id \in OfChat(c)
    BY <1>1, <2>1, <2>3 DEF JobCounts, OfChat
  <2>4. CASE job[w].id \notin OfChat(c)
    BY <1>1, <2>1, <2>4 DEF JobCounts
  <2> QED  BY <2>2, <2>3, <2>4
<1>5. Chats \subseteq frozen'
  BY <1>1 DEF NoIdReuse
<1> QED  BY <1>2, <1>3, <1>4, <1>5 DEF CountInv

LEMMA UpgradeCounts ==
    ASSUME RebuiltInv, CountInv, Upgrade
    PROVE  CountInv'
<1>1. RollupsOK'
  <2>1. ASSUME NEW i \in DOMAIN roll
        PROVE  /\ i \in DOMAIN sess
               /\ roll'[i].through \in Nat /\ roll'[i].through <= sess[i].n
               /\ Folds(roll'[i].content, sess[i].chat, sess[i].seg, roll'[i].through)
    <3> DEFINE old == {<<x[1], x[2], x[3], "old">> : x \in roll[i].content}
    <3>1. roll'[i] = [roll[i] EXCEPT !.version = "old", !.content = old]
      BY DEF Upgrade
    <3>2. RowOK(roll[i])
      BY DEF RebuiltInv
    <3>3. /\ i \in DOMAIN sess /\ roll[i].through \in Nat /\ roll[i].through <= sess[i].n
          /\ Folds(roll[i].content, sess[i].chat, sess[i].seg, roll[i].through)
      BY DEF CountInv, RollupsOK
    <3>4. Folds(old, sess[i].chat, sess[i].seg, roll[i].through)
      BY <3>3, FoldsAsOld
    <3> HIDE DEF old
    <3>5. roll'[i].through = roll[i].through /\ roll'[i].content = old
      BY <3>1, <3>2 DEF RowOK
    <3> QED  BY <3>3, <3>4, <3>5
  <2>2. DOMAIN roll' = DOMAIN roll /\ sess' = sess
    BY DEF Upgrade
  <2> QED  BY <2>1, <2>2 DEF RollupsOK
<1> QED  BY <1>1 DEF Upgrade, CountInv, SessionsOK, JobCounts

LEMMA CountInit == Init => CountInv
<1> SUFFICES ASSUME Init
             PROVE  CountInv
  OBVIOUS
<1>1. DOMAIN sess = {} /\ DOMAIN roll = {} /\ frozen = {} /\ \A w \in Workers : job[w] = Idle
  BY DEF Init
<1>2. IsFiniteSet(DOMAIN sess)
  BY <1>1, FS_EmptySet
<1> QED  BY <1>1, <1>2, IdleCounts DEF CountInv, SessionsOK, RollupsOK

LEMMA CountStep == NoIdReuse /\ RebuiltInv /\ CountInv /\ [Next]_vars => CountInv'
<1> SUFFICES ASSUME NoIdReuse, RebuiltInv, CountInv, [Next]_vars
             PROVE  CountInv'
  OBVIOUS
<1>1. "scan" \in Workers /\ "cli" \in Workers /\ Sweeps \subseteq Workers
  BY DEF Workers
<1>2. ASSUME UNCHANGED <<sess, roll, frozen, job>>
      PROVE  CountInv'
  BY <1>2 DEF CountInv, SessionsOK, RollupsOK, JobCounts
<1>3. \A c : OfChat(c) \subseteq DOMAIN sess
  BY DEF OfChat
<1>4. ASSUME NEW c \in Chats, Stirs(c) \/ Rests(c)
      PROVE  CountInv'
  BY <1>4, <1>2 DEF Stirs, Rests, db
<1>5. \A i \in DOMAIN sess : SessionOK(sess[i])
  BY DEF CountInv, SessionsOK
<1>6. ASSUME NEW c \in Chats, ScanStores(c)
      PROVE  CountInv'
  <2>1. c \notin frozen
    BY <1>6 DEF ScanStores, AtLoop
  <2>2. frozen = {}
    BY <2>1 DEF CountInv
  <2>3. UNCHANGED <<roll, frozen, job>>
    BY <1>6 DEF ScanStores, Stored
  <2>4. CASE Stored(c, NewId, [chat |-> c, seg |-> 1, n |-> 1])
    <3> DEFINE row == [chat |-> c, seg |-> 1, n |-> 1]
    <3>1. SessionOK(row) /\ sess' = Put(sess, NewId, row)
      BY <2>4 DEF SessionOK, Stored
    <3> HIDE DEF row
    <3> QED  BY <2>2, <2>3, <3>1, StoredCounts
  <2>5. ASSUME NEW i \in OfChat(c), Stored(c, i, [sess[i] EXCEPT !.n = @ + 1])
        PROVE  CountInv'
    <3> DEFINE row == [sess[i] EXCEPT !.n = @ + 1]
    <3>1. i \in DOMAIN sess /\ SessionOK(sess[i])
      BY <1>3, <1>5
    <3>2. row = [chat |-> sess[i].chat, seg |-> sess[i].seg, n |-> sess[i].n + 1]
      BY <3>1 DEF SessionOK
    <3>3. SessionOK(row) /\ row.chat = sess[i].chat /\ row.seg = sess[i].seg /\ sess[i].n <= row.n
      BY <3>1, <3>2 DEF SessionOK
    <3>4. sess' = Put(sess, i, row)
      BY <2>5 DEF Stored
    <3> HIDE DEF row
    <3> QED  BY <2>3, <3>1, <3>3, <3>4, StoredCounts
  <2> QED  BY <1>6, <2>4, <2>5 DEF ScanStores
<1>7. CASE ScanOpens
  <2>1. PICK i \in OfChat(scan.chat) :
           Stored(scan.chat, NewId, [chat |-> scan.chat, seg |-> sess[i].seg + 1, n |-> 1])
    BY <1>7 DEF ScanOpens
  <2>2. scan.chat \in Chats
    BY <1>5 DEF OfChat, SessionOK
  <2>3. frozen = {}
    BY <1>7, <2>2 DEF ScanOpens, CountInv
  <2> DEFINE row == [chat |-> scan.chat, seg |-> sess[i].seg + 1, n |-> 1]
  <2>4. SessionOK(row) /\ sess' = Put(sess, NewId, row) /\ UNCHANGED <<roll, frozen, job>>
    BY <2>1, <2>2 DEF SessionOK, Stored
  <2> HIDE DEF row
  <2> QED  BY <2>3, <2>4, StoredCounts
<1>8. ASSUME NEW c \in Chats, ScanCuts(c)
      PROVE  CountInv'
  BY <1>1, <1>3, <1>8, BeginCounts DEF ScanCuts
<1>9. CASE ScanRefreshes
  BY <1>1, <1>3, <1>9, BeginCounts DEF ScanRefreshes
<1>10. CASE ScanBlocked \/ ScanLeaves
  BY <1>10, <1>2 DEF ScanBlocked, ScanLeaves, db
<1>11. CASE ScanMarks
  <2>1. RollupsOK'
    <3>1. CASE roll' = [roll EXCEPT ![scan.id].state = "live"]
      BY <1>11, <3>1, WakingKeepsRollups DEF ScanMarks
    <3>2. CASE roll' = roll
      BY <1>11, <3>2 DEF ScanMarks, CountInv, RollupsOK
    <3> QED  BY <1>11, <3>1, <3>2 DEF ScanMarks
  <2> QED  BY <1>11, <2>1 DEF ScanMarks, CountInv, SessionsOK, JobCounts
<1>12. ASSUME NEW w \in Sweeps, SweepStarts(w)
       PROVE  CountInv'
  BY <1>12, <1>2 DEF SweepStarts, db
<1>13. ASSUME NEW w \in Sweeps, NEW e \in list[w], SweepVisits(w, e)
       PROVE  CountInv'
  <2>1. CASE UNCHANGED <<roll, job>>
    BY <1>13, <2>1, <1>2 DEF SweepVisits
  <2>2. CASE \E i \in OfChat(e[2]) : Begin(w, i, "final")
    BY <1>1, <1>3, <1>13, <2>2, BeginCounts DEF SweepVisits
  <2> QED  BY <1>13, <2>1, <2>2 DEF SweepVisits
<1>14. ASSUME NEW rebuild \in BOOLEAN, CliStarts(rebuild)
       PROVE  CountInv'
  BY <1>14, <1>2 DEF CliStarts, db
<1>15. ASSUME NEW e \in list["cli"], CliVisits(e)
       PROVE  CountInv'
  BY <1>1, <1>15, <1>2, BeginCounts DEF CliVisits
<1>16. ASSUME NEW w \in Workers, Answers(w)
       PROVE  CountInv'
  BY <1>16, AnsweredCounts DEF Answers
<1>17. ASSUME NEW w \in Workers, Drop(w), UNCHANGED <<sess, roll, frozen>>
       PROVE  CountInv'
  BY <1>17, IdleCounts, OneJobCounts DEF Drop, CountInv, RollupsOK
<1>18. ASSUME NEW w \in Workers, Refused(w) \/ Fails(w)
       PROVE  CountInv'
  BY <1>17, <1>18 DEF Refused, Fails, db
<1>19. CASE DaemonStops
  <2>1. \A w \in Workers : job'[w] = IF w = "cli" THEN job[w] ELSE Idle
    BY <1>19 DEF DaemonStops
  <2>2. UNCHANGED <<sess, roll, frozen>>
    BY <1>19 DEF DaemonStops, db
  <2>3. \A w \in Workers : JobCounts(job[w])'
    BY <2>1, <2>2 DEF CountInv, JobCounts
  <2> QED  BY <2>2, <2>3 DEF CountInv, SessionsOK, RollupsOK
<1>20. CASE DaemonStarts
  BY <1>20, <1>2 DEF DaemonStarts, db
<1>21. CASE CliStops
  BY <1>1, <1>17, <1>21 DEF CliStops, db
<1>22. CASE UNCHANGED vars
  BY <1>22, <1>2 DEF vars, db
<1> QED
  BY <1>4, <1>6, <1>7, <1>8, <1>9, <1>10, <1>11, <1>12, <1>13, <1>14, <1>15, <1>16, <1>18,
     <1>19, <1>20, <1>21, <1>22, PurgeCounts, UpgradeCounts DEF Next, ScanStep, ScanGoesOn

\* Whoever wrote last, after failures, crashes, rebuilds and lost races, a rollup
\* accounts for each turn of its own segment up to its watermark, once, and for
\* no other.  The hypothesis is needed: with a second transcript, a purge lets a
\* late rollup land on the session that took over the id (RollupStore.write
\* asks for the id alone).
THEOREM ContentMatchesWatermarkHolds ==
    ASSUME NoIdReuse
    PROVE  Spec => []ContentMatchesWatermark
<1>1. CountInv => ContentMatchesWatermark
  <2> SUFFICES ASSUME CountInv, NEW i \in DOMAIN roll
               PROVE  /\ {<<x[1], x[2], x[3]>> : x \in roll[i].content}
                            = {<<sess[i].chat, sess[i].seg, t>> : t \in 1..roll[i].through}
                      /\ Cardinality(roll[i].content) = roll[i].through
                      /\ roll[i].through <= sess[i].n
    BY DEF ContentMatchesWatermark
  <2> QED  BY FoldsCounts DEF CountInv, RollupsOK
<1> QED  BY RebuiltInit, RebuiltStep, CountInit, CountStep, <1>1, PTL DEF Spec
=============================================================================
