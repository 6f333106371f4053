---------------------------- MODULE CaptureProofs ---------------------------
(* Theorems about Capture, for every transcript, every number of replaying *)
(* processes and every capacity, checked by TLAPS.                         *)
EXTENDS Capture, TLAPS

----------------------------------------------------------------------------
(* Type correctness.                                                       *)

LEMMA LeaveType ==
    ASSUME ScanTypeOK, NEW h \in Hosts, Leave(h)
    PROVE  ScanTypeOK'
BY CaptureAssumption DEF ScanTypeOK, Leave, Phases

LEMMA PassType ==
    ASSUME ScanTypeOK, NEW h \in Hosts, at[h] < end[h], Pass(h)
    PROVE  ScanTypeOK' /\ at[h] + 1 \in Turns
BY CaptureAssumption DEF ScanTypeOK, Pass, Phases, Turns

LEMMA IncognitoType ==
    ASSUME DbTypeOK, GoIncognito, deferred' \in BOOLEAN
    PROVE  DbTypeOK'
BY DEF DbTypeOK, GoIncognito, Vetoes

LEMMA UpsertType ==
    ASSUME DbTypeOK
    PROVE  /\ DOMAIN Upserted \subseteq Nat
           /\ Upserted \in [DOMAIN Upserted -> Row]
           /\ DOMAIN session \subseteq DOMAIN Upserted
BY CaptureAssumption DEF DbTypeOK, Upserted, Row

LEMMA AdvancedType ==
    ASSUME NEW f, DOMAIN f \subseteq Nat, f \in [DOMAIN f -> Row],
           NEW s \in DOMAIN f, NEW t \in Turns
    PROVE  LET g == Advanced(f, s, t) IN
           DOMAIN g = DOMAIN f /\ g \in [DOMAIN g -> Row]
<1>1. [cursor |-> t, trail |-> f[s].trail] \in Row
  BY CaptureAssumption DEF Row, Turns
<1>2. QED
  BY <1>1 DEF Advanced

\* A blocked write leaves a well-typed store and scan.
LEMMA BlockedType ==
    ASSUME TypeOK, NEW h \in Hosts, at[h] < end[h],
           WriteBlocked(h), deferred' \in BOOLEAN
    PROVE  TypeOK'
<1>1. DbTypeOK'
  BY IncognitoType DEF WriteBlocked, TypeOK, DbTypeOK
<1>2. ScanTypeOK'
  BY LeaveType, PassType DEF WriteBlocked, TypeOK
<1>3. QED
  BY <1>1, <1>2 DEF WriteBlocked, TypeOK

LEMMA TypeInit == ASSUME Init PROVE TypeOK
<1>1. DbTypeOK
  BY DEF Init, DbTypeOK
<1>2. ScanTypeOK
  BY CaptureAssumption DEF Init, ScanTypeOK, Phases
<1>3. QED
  BY <1>1, <1>2, CaptureAssumption DEF Init, TypeOK

LEMMA TypeTurn ==
    ASSUME TypeOK, NEW h \in Hosts, NEW t \in Turns, Turn(h, t)
    PROVE  TypeOK'
<1>0. at[h] < end[h] /\ t = at[h] + 1
  BY DEF Turn, TypeOK, ScanTypeOK, AtTurn, AtWork, AtWrite, TurnDenied, TurnPending,
         RecordDropped, RefuseDropped, DroppedBlocked, DroppedDeferred,
         QuoteIncomplete, QuoteMatch, QuoteBlocked, AlreadyStored, Decide,
         WriteVetoed, WritePending, WriteIncomplete, WriteNothing,
         WriteDeferred, Write, CanWrite
<1>1. CASE TurnDenied(h, t)
  BY <1>1, IncognitoType, LeaveType DEF TurnDenied, TypeOK, DbTypeOK
<1>2. CASE TurnPending(h, t)
  BY <1>0, <1>2, PassType DEF TurnPending, PassRefused, TypeOK, DbTypeOK, db
<1>3. CASE RecordDropped(h, t)
  <2>1. DbTypeOK'
    <3>1. PICK s \in DOMAIN Upserted : session' = Advanced(Upserted, s, t)
      BY <1>3 DEF RecordDropped
    <3>2. QED
      BY <1>3, <3>1, UpsertType, AdvancedType DEF RecordDropped, TypeOK, DbTypeOK
  <2>2. QED
    BY <1>0, <1>3, <2>1, PassType DEF RecordDropped, TypeOK
<1>4. CASE RefuseDropped(h, t)
  BY <1>0, <1>4, PassType DEF RefuseDropped, PassRefused, TypeOK, DbTypeOK, db
<1>5. CASE DroppedBlocked(h, t)
  BY <1>0, <1>5, BlockedType DEF DroppedBlocked
<1>6. CASE DroppedDeferred(h, t)
  BY <1>6, LeaveType DEF DroppedDeferred, Defer, TypeOK, DbTypeOK
<1>7. CASE QuoteIncomplete(h, t)
  BY <1>0, <1>7, PassType DEF QuoteIncomplete, PassRefused, TypeOK, DbTypeOK, db
<1>8. CASE QuoteMatch(h, t)
  <2>1. DbTypeOK'
    BY <1>8, AdvancedType DEF QuoteMatch, TypeOK, DbTypeOK
  <2>2. QED
    BY <1>0, <1>8, <2>1, PassType DEF QuoteMatch, TypeOK
<1>9. CASE QuoteBlocked(h, t)
  BY <1>0, <1>9, BlockedType DEF QuoteBlocked, TypeOK, DbTypeOK
<1>10. CASE AlreadyStored(h, t)
  BY <1>0, <1>10, PassType DEF AlreadyStored, TypeOK, DbTypeOK, db
<1>11. CASE Decide(h, t)
  BY <1>0, <1>11 DEF Decide, TypeOK, DbTypeOK, ScanTypeOK, db, Phases, CutBefore
<1>12. CASE WriteVetoed(h, t)
  BY <1>0, <1>12, BlockedType, IncognitoType, LeaveType DEF WriteVetoed, TypeOK
<1>13. CASE WritePending(h, t)
  BY <1>0, <1>13, PassType DEF WritePending, PassRefused, TypeOK, DbTypeOK
<1>14. CASE WriteIncomplete(h, t)
  BY <1>14, LeaveType DEF WriteIncomplete, TypeOK, DbTypeOK, db
<1>15. CASE WriteNothing(h, t)
  BY <1>0, <1>15, PassType DEF WriteNothing, TypeOK, DbTypeOK
<1>16. CASE WriteDeferred(h, t)
  BY <1>16, LeaveType DEF WriteDeferred, Defer, TypeOK, DbTypeOK
<1>17. CASE Write(h, t)
  <2>1. DbTypeOK'
    <3>1. PICK s \in DOMAIN Upserted :
             LET home == IF cut[h] THEN s + 1 ELSE s IN
             /\ mem' = mem \cup {<<home, t>>}
             /\ session' = [q \in DOMAIN Upserted \cup {home} |->
                              IF q = home THEN [cursor |-> t, trail |-> t]
                              ELSE Upserted[q]]
      BY <1>17 DEF Write
    <3>2. [cursor |-> t, trail |-> t] \in Row
      BY CaptureAssumption, <1>0 DEF Turns, Row
    <3>3. s \in Nat /\ (cut[h] => s + 1 \in Nat)
      BY <3>1, UpsertType DEF TypeOK
    <3>4. /\ DOMAIN session' \subseteq Nat
          /\ session' \in [DOMAIN session' -> Row]
          /\ DOMAIN session \subseteq DOMAIN session'
      BY <3>1, <3>2, <3>3, UpsertType DEF TypeOK
    <3>5. mem' \subseteq (DOMAIN session') \X Turns
      BY <3>1, <3>4 DEF TypeOK, DbTypeOK
    <3> QED
      BY <1>17, <3>4, <3>5 DEF Write, TypeOK, DbTypeOK
  <2>2. QED
    BY <1>0, <1>17, <2>1, PassType DEF Write, TypeOK
<1>18. QED
  BY <1>1, <1>2, <1>3, <1>4, <1>5, <1>6, <1>7, <1>8, <1>9, <1>10, <1>11, <1>12,
     <1>13, <1>14, <1>15, <1>16, <1>17 DEF Turn

LEMMA TypeScan ==
    ASSUME TypeOK, NEW h \in Hosts, ScanStep(h)
    PROVE  TypeOK'
<1>1. CASE Gate(h)
  <2>1. DbTypeOK'
    BY <1>1, IncognitoType DEF Gate, TypeOK, DbTypeOK, db
  <2>2. ScanTypeOK'
    BY <1>1, LeaveType DEF Gate, TypeOK, ScanTypeOK, Phases
  <2>3. QED
    BY <1>1, <2>1, <2>2 DEF Gate, TypeOK
<1>2. CASE Resume(h)
  <2>1. PICK s \in DOMAIN Upserted : at' = [at EXCEPT ![h] = Upserted[s].cursor]
    BY <1>2 DEF Resume
  <2>2. Upserted[s].cursor \in 0..N
    BY UpsertType DEF TypeOK, Row
  <2>3. len - 1 \in 0..N \/ len = 0
    BY CaptureAssumption DEF TypeOK
  <2>4. ScanTypeOK'
    BY <1>2, <2>1, <2>2, <2>3 DEF Resume, TypeOK, ScanTypeOK, Phases
  <2>5. QED
    BY <1>2, <2>4 DEF Resume, TypeOK, DbTypeOK, db
<1>3. CASE Finish(h)
  BY <1>3, LeaveType DEF Finish, TypeOK, DbTypeOK, db
<1>4. CASE \E t \in Turns : Turn(h, t)
  BY <1>4, TypeTurn
<1>5. QED
  BY <1>1, <1>2, <1>3, <1>4 DEF ScanStep

\* The environment's steps: the provider, the user, the store, the processes.
LEMMA TypeRest ==
    ASSUME TypeOK,
           \/ Append \/ Touch
           \/ \E r \in Roots : Deny(r) \/ Prune(r) \/ \E b \in Backfills : Grant(r, b)
           \/ CapacityChanges
           \/ \E h \in Hosts : Crash(h) \/ \E job \in Jobs : Begin(h, job)
           \/ PurgePreview \/ PurgeDeclined \/ PurgeApply \/ RetentionRemoves
           \/ DerivedWrite \/ Restart
    PROVE  TypeOK'
<1> USE CaptureAssumption
<1> USE DEF TypeOK, Hosts
<1>1. CASE Append
  BY <1>1 DEF Append, Enqueue, DbTypeOK, ScanTypeOK, db, scan, Jobs
<1>2. CASE Touch
  BY <1>2 DEF Touch, Enqueue, DbTypeOK, ScanTypeOK, db, scan, Jobs
<1>3. ASSUME NEW r \in Roots, Deny(r) \/ Prune(r) PROVE TypeOK'
  BY <1>3 DEF Deny, Prune, DbTypeOK, ScanTypeOK, scan, Decisions
<1>4. ASSUME NEW r \in Roots, NEW b \in Backfills, Grant(r, b) PROVE TypeOK'
  BY <1>4 DEF Grant, Enqueue, DbTypeOK, ScanTypeOK, scan, Decisions, Jobs
<1>5. CASE CapacityChanges
  BY <1>5 DEF CapacityChanges, DbTypeOK, ScanTypeOK, scan
<1>6. ASSUME NEW h \in Hosts, Crash(h) PROVE TypeOK'
  <2>1. ScanTypeOK'
    BY <1>6, LeaveType DEF Crash
  <2>2. QED
    BY <1>6, <2>1 DEF Crash, DbTypeOK, db
<1>7. ASSUME NEW h \in Hosts, NEW job \in Jobs, Begin(h, job) PROVE TypeOK'
  <2>1. ScanTypeOK'
    BY <1>7 DEF Begin, ScanTypeOK, scan, Phases
  <2>2. queue' \in [Hosts -> SUBSET Jobs]
    BY <1>7 DEF Begin, Jobs
  <2>3. QED
    BY <1>7, <2>1, <2>2 DEF Begin, DbTypeOK, db
<1>8. CASE PurgePreview
  BY <1>8 DEF PurgePreview, DbTypeOK, ScanTypeOK, db, scan
<1>9. CASE PurgeDeclined
  BY <1>9 DEF PurgeDeclined, DbTypeOK, ScanTypeOK, db, scan
<1>10. CASE PurgeApply
  <2>1. DbTypeOK'
    <3>1. CASE plan \cap DOMAIN session = {}
      BY <1>10, <3>1 DEF PurgeApply, DbTypeOK
    <3>2. CASE plan \cap DOMAIN session # {}
      <4>1. /\ DOMAIN session' = DOMAIN session \ plan
            /\ session' \in [DOMAIN session' -> Row]
        BY <1>10, <3>2 DEF PurgeApply, DbTypeOK
      <4>2. mem' \subseteq (DOMAIN session') \X Turns
        BY <1>10, <3>2, <4>1 DEF PurgeApply, DbTypeOK
      <4>3. QED
        BY <1>10, <3>2, <4>1, <4>2 DEF PurgeApply, DbTypeOK, Vetoes
    <3>3. QED
      BY <3>1, <3>2
  <2>2. QED
    BY <1>10, <2>1 DEF PurgeApply, ScanTypeOK, scan
<1>11. CASE RetentionRemoves
  BY <1>11 DEF RetentionRemoves, DbTypeOK, ScanTypeOK, scan, Vetoes
<1>12. CASE DerivedWrite
  BY <1>12 DEF DerivedWrite, DbTypeOK, ScanTypeOK, scan
<1>13. CASE Restart
  BY <1>13 DEF Restart, Enqueue, DbTypeOK, ScanTypeOK, db, scan, Jobs
<1>14. QED
  BY <1>1, <1>2, <1>3, <1>4, <1>5, <1>6, <1>7, <1>8, <1>9, <1>10, <1>11, <1>12, <1>13

LEMMA TypeNext == ASSUME TypeOK, [Next]_vars PROVE TypeOK'
<1>1. CASE UNCHANGED vars
  BY <1>1 DEF vars, db, scan, TypeOK, DbTypeOK, ScanTypeOK
<1>2. CASE Next
  BY <1>2, TypeScan, TypeRest DEF Next
<1>3. QED
  BY <1>1, <1>2

\* Every variable keeps its type, whatever the interleaving.
THEOREM TypeCorrect == Spec => []TypeOK
<1>1. Init => TypeOK
  BY TypeInit
<1>2. TypeOK /\ [Next]_vars => TypeOK'
  BY TypeNext
<1>3. QED
  BY <1>1, <1>2, PTL DEF Spec

----------------------------------------------------------------------------
(* Nothing is lost behind a cursor.  The invariant is not inductive alone: *)
(* a write moves the cursor to the turn a scan has reached, so the turns a *)
(* scan has passed must be covered too, and coverage must survive every    *)
(* step of every other process.                                            *)

ScansCovered ==
    veto = {} => \A h \in Hosts : \A t \in 1..at[h] : Covered(t)

CoverInv == TypeOK /\ NothingLostBehindCursor /\ ScansCovered

\* Evidence only grows as long as nothing is forgotten on purpose.
Keeps ==
    /\ DOMAIN session \subseteq DOMAIN session' /\ mem \subseteq mem'
    /\ receipts \subseteq receipts' /\ refused \subseteq refused'

LEMMA CoverageGrows ==
    ASSUME Keeps, NEW t, Covered(t)
    PROVE  Covered(t)'
BY DEF Keeps, Covered, Stored, Matches

LEMMA StepKeeps ==
    ASSUME TypeOK, [Next]_vars, veto' = {}
    PROVE  veto = {} /\ Keeps
<1>1. CASE UNCHANGED vars
  BY <1>1 DEF vars, db, Keeps
<1>2. ASSUME NEW h \in Hosts, ScanStep(h) PROVE veto = {} /\ Keeps
  <2>1. CASE Gate(h) \/ Resume(h) \/ Finish(h)
    BY <2>1 DEF Gate, Resume, Finish, GoIncognito, Keeps, db
  <2>2. ASSUME NEW t \in Turns, Turn(h, t) PROVE veto = {} /\ Keeps
    <3>1. CASE RecordDropped(h, t)
      <4>1. DOMAIN session' = DOMAIN Upserted
        BY <3>1 DEF RecordDropped, Advanced
      <4>2. QED
        BY <3>1, <4>1, UpsertType DEF RecordDropped, Keeps, TypeOK
    <3>2. CASE QuoteMatch(h, t)
      BY <3>2 DEF QuoteMatch, Advanced, Keeps
    <3>3. CASE Write(h, t)
      <4>1. DOMAIN session \subseteq DOMAIN session' /\ mem \subseteq mem'
        BY <3>3, UpsertType DEF Write, TypeOK
      <4>2. QED
        BY <3>3, <4>1 DEF Write, CanWrite, Keeps
    <3>4. CASE \/ TurnDenied(h, t) \/ TurnPending(h, t) \/ RefuseDropped(h, t)
               \/ DroppedBlocked(h, t) \/ DroppedDeferred(h, t)
               \/ QuoteIncomplete(h, t) \/ QuoteBlocked(h, t)
               \/ AlreadyStored(h, t) \/ Decide(h, t)
      BY <3>4 DEF TurnDenied, TurnPending, RefuseDropped, DroppedBlocked,
                  DroppedDeferred, QuoteIncomplete, QuoteBlocked, AlreadyStored,
                  Decide, Defer, WriteBlocked, GoIncognito, PassRefused, Keeps, db
    <3>5. CASE \/ WriteVetoed(h, t) \/ WritePending(h, t) \/ WriteIncomplete(h, t)
               \/ WriteNothing(h, t) \/ WriteDeferred(h, t)
      BY <3>5 DEF WriteVetoed, WritePending, WriteIncomplete, WriteNothing,
                  WriteDeferred, Defer, WriteBlocked, GoIncognito, PassRefused, Keeps, db
    <3>6. QED
      BY <2>2, <3>1, <3>2, <3>3, <3>4, <3>5 DEF Turn
  <2>3. QED
    BY <1>2, <2>1, <2>2 DEF ScanStep
<1>3. ASSUME NEW h \in Hosts, Crash(h) \/ \E job \in Jobs : Begin(h, job)
      PROVE  veto = {} /\ Keeps
  BY <1>3 DEF Crash, Begin, Keeps, db
<1>4. CASE \/ Append \/ Touch \/ CapacityChanges \/ DerivedWrite \/ Restart
           \/ \E r \in Roots : Deny(r) \/ Prune(r) \/ \E b \in Backfills : Grant(r, b)
  BY <1>4 DEF Append, Touch, CapacityChanges, DerivedWrite, Restart, Deny, Prune, Grant, Keeps, db
<1>5. CASE PurgePreview \/ PurgeDeclined \/ PurgeApply \/ RetentionRemoves
  BY <1>5 DEF PurgePreview, PurgeDeclined, PurgeApply, RetentionRemoves, Keeps, db
<1>6. QED
  BY <1>1, <1>2, <1>3, <1>4, <1>5 DEF Next

\* What a step at turn t does while nothing is vetoed: it leaves the scan, it
\* decides, or it passes t with t covered, and no cursor moves but to t.
CursorsMoveTo(t) ==
    \A s \in DOMAIN session' :
        \/ session'[s].cursor \in {0, t}
        \/ s \in DOMAIN session /\ session'[s].cursor = session[s].cursor

LEMMA TurnCovers ==
    ASSUME TypeOK, NEW h \in Hosts, NEW t \in Turns, Turn(h, t), veto' = {}
    PROVE  \/ Leave(h) /\ UNCHANGED session
           \/ UNCHANGED <<at, session>>
           \/ Pass(h) /\ t = at[h] + 1 /\ Covered(t)' /\ CursorsMoveTo(t)
<1> DEFINE Goal == \/ Leave(h) /\ UNCHANGED session
                   \/ UNCHANGED <<at, session>>
                   \/ Pass(h) /\ t = at[h] + 1 /\ Covered(t)' /\ CursorsMoveTo(t)
<1>1. CASE TurnPending(h, t) \/ RefuseDropped(h, t) \/ QuoteIncomplete(h, t) \/ WritePending(h, t)
  BY <1>1 DEF TurnPending, RefuseDropped, QuoteIncomplete, WritePending, AtTurn, AtWork,
              AtWrite, PassRefused, Covered, CursorsMoveTo, db
<1>2. CASE RecordDropped(h, t)
  <2>1. PICK s \in DOMAIN Upserted : session' = Advanced(Upserted, s, t)
    BY <1>2 DEF RecordDropped
  <2>2. CursorsMoveTo(t)
    BY <2>1 DEF Advanced, Upserted, CursorsMoveTo
  <2>3. Covered(t)'
    BY <1>2 DEF RecordDropped, Covered
  <2>4. QED
    BY <1>2, <2>2, <2>3 DEF RecordDropped, AtTurn
<1>3. CASE QuoteMatch(h, t)
  <2>1. CursorsMoveTo(t)
    BY <1>3 DEF QuoteMatch, Advanced, CursorsMoveTo
  <2>2. Covered(t)'
    BY <1>3 DEF QuoteMatch, Covered, Matches
  <2>3. QED
    BY <1>3, <2>1, <2>2 DEF QuoteMatch, AtWork, AtTurn
<1>4. CASE AlreadyStored(h, t) \/ WriteNothing(h, t)
  BY <1>4 DEF AlreadyStored, WriteNothing, AtWork, AtTurn, AtWrite, Covered, Stored, Matches,
              CursorsMoveTo, db
<1>5. CASE Write(h, t)
  <2>1. PICK s \in DOMAIN Upserted :
           LET home == IF cut[h] THEN s + 1 ELSE s IN
           /\ mem' = mem \cup {<<home, t>>}
           /\ session' = [q \in DOMAIN Upserted \cup {home} |->
                            IF q = home THEN [cursor |-> t, trail |-> t]
                            ELSE Upserted[q]]
    BY <1>5 DEF Write
  <2>2. CursorsMoveTo(t)
    BY <2>1 DEF Upserted, CursorsMoveTo
  <2>3. Covered(t)'
    BY <2>1 DEF Covered, Stored
  <2>4. QED
    BY <1>5, <2>2, <2>3 DEF Write, CanWrite, AtWrite
<1>6. CASE Decide(h, t)
  BY <1>6 DEF Decide, db
<1>7. CASE TurnDenied(h, t) \/ DroppedBlocked(h, t) \/ QuoteBlocked(h, t) \/ WriteVetoed(h, t)
  <2>1. GoIncognito => FALSE
    BY DEF GoIncognito
  <2>2. WriteBlocked(h) => FALSE
    BY <2>1 DEF WriteBlocked
  <2>3. QED
    BY <1>7, <2>1, <2>2 DEF TurnDenied, DroppedBlocked, QuoteBlocked, WriteVetoed
<1>8. CASE DroppedDeferred(h, t) \/ WriteDeferred(h, t) \/ WriteIncomplete(h, t)
  BY <1>8 DEF DroppedDeferred, WriteDeferred, WriteIncomplete, Defer, db
<1>9. QED
  BY <1>1, <1>2, <1>3, <1>4, <1>5, <1>6, <1>7, <1>8 DEF Turn

\* Every other step leaves cursors alone and starts a scan at a cursor.
LEMMA OtherStep ==
    ASSUME TypeOK, [Next]_vars, veto' = {},
           ~ \E h \in Hosts : \E t \in Turns : Turn(h, t)
    PROVE  /\ UNCHANGED session
           /\ \A h \in Hosts :
                 \/ at'[h] \in {0, at[h]}
                 \/ \E s \in DOMAIN session : at'[h] = session[s].cursor
<1>1. CASE UNCHANGED vars
  BY <1>1 DEF vars, db, scan
<1>2. ASSUME NEW h \in Hosts, Gate(h) \/ Finish(h) \/ Crash(h)
      PROVE  UNCHANGED session /\ \A g \in Hosts : at'[g] \in {0, at[g]}
  BY <1>2 DEF Gate, Finish, Crash, Leave, GoIncognito, db, TypeOK, ScanTypeOK
<1>3. ASSUME NEW h \in Hosts, Resume(h)
      PROVE  /\ UNCHANGED session
             /\ \A g \in Hosts : \/ at'[g] \in {0, at[g]}
                                  \/ \E s \in DOMAIN session : at'[g] = session[s].cursor
  <2>1. PICK s \in DOMAIN Upserted : at' = [at EXCEPT ![h] = Upserted[s].cursor]
    BY <1>3 DEF Resume
  <2>2. Upserted[s].cursor = 0 \/ (s \in DOMAIN session /\ Upserted[s].cursor = session[s].cursor)
    BY DEF Upserted
  <2>3. QED
    BY <1>3, <2>1, <2>2 DEF Resume, TypeOK, ScanTypeOK, db
<1>4. ASSUME NEW h \in Hosts, NEW job \in Jobs, Begin(h, job)
      PROVE  UNCHANGED <<session, at>>
  BY <1>4 DEF Begin, db, scan
<1>5. CASE \/ Append \/ Touch \/ CapacityChanges \/ DerivedWrite \/ Restart
           \/ \E r \in Roots : Deny(r) \/ Prune(r) \/ \E b \in Backfills : Grant(r, b)
  BY <1>5 DEF Append, Touch, CapacityChanges, DerivedWrite, Restart, Deny, Prune, Grant, db, scan
<1>6. CASE PurgePreview \/ PurgeDeclined \/ PurgeApply \/ RetentionRemoves
  BY <1>6 DEF PurgePreview, PurgeDeclined, PurgeApply, RetentionRemoves, db, scan
<1>7. QED
  BY <1>1, <1>2, <1>3, <1>4, <1>5, <1>6 DEF Next, ScanStep

LEMMA CoverNext == ASSUME CoverInv, [Next]_vars PROVE CoverInv'
<1> USE DEF CoverInv
<1>1. TypeOK'
  BY TypeNext
<1> SUFFICES ASSUME veto' = {} PROVE NothingLostBehindCursor' /\ ScansCovered'
  BY <1>1 DEF NothingLostBehindCursor, ScansCovered
<1>2. veto = {} /\ \A t : Covered(t) => Covered(t)'
  BY StepKeeps, CoverageGrows
<1>3. \A h \in Hosts : \A t \in 1..at[h] : Covered(t)'
  BY <1>2 DEF ScansCovered
<1>4. \A s \in DOMAIN session : \A t \in 1..session[s].cursor : Covered(t)'
  BY <1>2 DEF NothingLostBehindCursor
<1>5. \A h \in Hosts : at[h] \in Nat
  BY CaptureAssumption DEF TypeOK, ScanTypeOK
<1>6. ASSUME NEW h \in Hosts, NEW t \in Turns, Turn(h, t)
      PROVE  NothingLostBehindCursor' /\ ScansCovered'
  <2>1. CASE Leave(h) /\ UNCHANGED session
    BY <2>1, <1>3, <1>4 DEF Leave, NothingLostBehindCursor, ScansCovered, TypeOK, ScanTypeOK
  <2>2. CASE UNCHANGED <<at, session>>
    BY <2>2, <1>3, <1>4 DEF NothingLostBehindCursor, ScansCovered
  <2>3. CASE Pass(h) /\ t = at[h] + 1 /\ Covered(t)' /\ CursorsMoveTo(t)
    <3>1. \A u \in 1..t : Covered(u)'
      BY <2>3, <1>3, <1>5
    <3>2. ScansCovered'
      BY <2>3, <3>1, <1>3 DEF Pass, ScansCovered, TypeOK, ScanTypeOK
    <3>3. NothingLostBehindCursor'
      BY <2>3, <3>1, <1>4 DEF CursorsMoveTo, NothingLostBehindCursor
    <3>4. QED
      BY <3>2, <3>3
  <2>4. QED
    BY <1>6, <2>1, <2>2, <2>3, TurnCovers
<1>7. CASE ~ \E h \in Hosts : \E t \in Turns : Turn(h, t)
  <2>1. UNCHANGED session
    BY <1>7, OtherStep
  <2>2. \A h \in Hosts : \/ at'[h] \in {0, at[h]}
                         \/ \E s \in DOMAIN session : at'[h] = session[s].cursor
    BY <1>7, OtherStep
  <2>3. QED
    BY <2>1, <2>2, <1>3, <1>4 DEF NothingLostBehindCursor, ScansCovered
<1>8. QED
  BY <1>6, <1>7

LEMMA CoverAlways == Spec => []CoverInv
<1>1. ASSUME Init PROVE CoverInv
  <2>1. NothingLostBehindCursor
    BY <1>1 DEF Init, NothingLostBehindCursor
  <2>2. ScansCovered
    BY <1>1 DEF Init, ScansCovered
  <2>3. QED
    BY <1>1, <2>1, <2>2, TypeInit DEF CoverInv
<1>2. CoverInv /\ [Next]_vars => CoverInv'
  BY CoverNext
<1>3. QED
  BY <1>1, <1>2, PTL DEF Spec

\* No interleaving of scans, replays, crashes and deferrals moves a segment's
\* cursor past a turn of which there is no record.
THEOREM NothingLost == Spec => []NothingLostBehindCursor
<1>1. CoverInv => NothingLostBehindCursor
  BY DEF CoverInv
<1>2. QED
  BY <1>1, CoverAlways, PTL

----------------------------------------------------------------------------
(* One home per turn, no self-ingestion, and the promise.  All three look  *)
(* at what a step does to the rows and the tombstones: only Write adds a   *)
(* row, and only a step that leaves a tombstone takes one away.            *)

WorkOnly ==
    /\ \A p \in mem : Kind[p[2]] = "work"
    /\ \A h \in Hosts : phase[h] = "write" => Kind[at[h] + 1] = "work"

LEMMA StepShape ==
    ASSUME TypeOK, [Next]_vars, ~ \E h \in Hosts : \E t \in Turns : Write(h, t)
    PROVE  \/ /\ consent' \in [Roots -> Decisions]
              /\ UNCHANGED <<mem, veto>> /\ refused \subseteq refused'
           \/ UNCHANGED consent /\ veto' # {} /\ mem' \subseteq mem
<1> DEFINE Quiet == /\ UNCHANGED <<consent, mem, veto>> /\ refused \subseteq refused'
           Frozen == UNCHANGED consent /\ veto' # {} /\ mem' \subseteq mem
<1>0. consent \in [Roots -> Decisions]
  BY DEF TypeOK, DbTypeOK
<1>1. CASE UNCHANGED vars
  BY <1>0, <1>1 DEF vars, db
<1>2. GoIncognito => Frozen
  BY DEF GoIncognito
<1>3. \A h : WriteBlocked(h) => Frozen
  BY <1>2 DEF WriteBlocked
<1>4. \A h : Defer(h) => Quiet
  BY DEF Defer
<1>5. ASSUME NEW h \in Hosts, ScanStep(h) PROVE Quiet \/ Frozen
  <2>1. CASE Gate(h)
    BY <1>2, <2>1 DEF Gate, db
  <2>2. CASE Resume(h) \/ Finish(h)
    BY <2>2 DEF Resume, Finish, db
  <2>3. ASSUME NEW t \in Turns, Turn(h, t) PROVE Quiet \/ Frozen
    <3>1. CASE TurnDenied(h, t) \/ DroppedBlocked(h, t) \/ QuoteBlocked(h, t) \/ WriteVetoed(h, t)
      BY <1>2, <1>3, <3>1 DEF TurnDenied, DroppedBlocked, QuoteBlocked, WriteVetoed
    <3>2. CASE DroppedDeferred(h, t) \/ WriteDeferred(h, t)
      BY <1>4, <3>2 DEF DroppedDeferred, WriteDeferred
    <3>3. CASE \/ TurnPending(h, t) \/ RecordDropped(h, t) \/ RefuseDropped(h, t)
               \/ QuoteIncomplete(h, t) \/ QuoteMatch(h, t) \/ AlreadyStored(h, t)
               \/ Decide(h, t)
      BY <3>3 DEF TurnPending, RecordDropped, RefuseDropped, QuoteIncomplete, QuoteMatch,
                  AlreadyStored, Decide, PassRefused, db
    <3>4. CASE WritePending(h, t) \/ WriteIncomplete(h, t) \/ WriteNothing(h, t)
      BY <3>4 DEF WritePending, WriteIncomplete, WriteNothing, PassRefused, db
    <3>5. QED
      BY <2>3, <3>1, <3>2, <3>3, <3>4 DEF Turn
  <2>4. QED
    BY <1>5, <2>1, <2>2, <2>3 DEF ScanStep
<1>6. ASSUME NEW h \in Hosts, Crash(h) \/ \E job \in Jobs : Begin(h, job)
      PROVE  Quiet
  BY <1>6 DEF Crash, Begin, db
<1>7. CASE Append \/ Touch \/ CapacityChanges \/ DerivedWrite \/ Restart
           \/ PurgePreview \/ PurgeDeclined
  BY <1>0, <1>7 DEF Append, Touch, CapacityChanges, DerivedWrite, Restart, PurgePreview,
                    PurgeDeclined, db
<1>8. ASSUME NEW r \in Roots, Deny(r) \/ Prune(r) \/ \E b \in Backfills : Grant(r, b)
      PROVE  consent' \in [Roots -> Decisions] /\ UNCHANGED <<mem, veto, refused>>
  BY <1>0, <1>8 DEF Deny, Prune, Grant, Decisions
<1>9. CASE PurgeApply
  BY <1>0, <1>9 DEF PurgeApply
<1>10. CASE RetentionRemoves
  BY <1>10 DEF RetentionRemoves
<1>11. QED
  BY <1>0, <1>1, <1>5, <1>6, <1>7, <1>8, <1>9, <1>10 DEF Next

LEMMA WriteShape ==
    ASSUME TypeOK, NEW h \in Hosts, NEW t \in Turns, Write(h, t)
    PROVE  /\ veto = {} /\ UNCHANGED <<consent, veto>>
           /\ consent[TurnRoot[t]] = "approved"
           /\ ~Stored(t) /\ ~Matches(t)
           /\ phase[h] = "write" /\ t = at[h] + 1
           /\ \E home \in Nat : mem' = mem \cup {<<home, t>>}
<1>1. PICK s \in DOMAIN Upserted :
         LET home == IF cut[h] THEN s + 1 ELSE s IN mem' = mem \cup {<<home, t>>}
  BY DEF Write
<1>2. s \in Nat /\ s + 1 \in Nat
  BY UpsertType DEF TypeOK
<1>3. QED
  BY <1>1, <1>2 DEF Write, CanWrite, AtWrite

\* The loop reaches the write only with a turn the adapter calls ordinary.
LEMMA PhaseShape ==
    ASSUME TypeOK, [Next]_vars, NEW h \in Hosts, phase'[h] = "write"
    PROVE  \/ phase[h] = "write" /\ at'[h] = at[h]
           \/ Kind[at'[h] + 1] = "work"
<1> DEFINE Same(g) == \/ phase'[h] = phase[h] /\ at'[h] = at[h]
                      \/ phase'[h] \in {"rest", "turns", "gate", "resume"}
<1> USE DEF TypeOK, ScanTypeOK
<1>0. \A g \in Hosts : Leave(g) \/ Pass(g) => Same(g)
  BY DEF Leave, Pass
<1>1. CASE UNCHANGED vars
  BY <1>1 DEF vars, scan
<1>2. ASSUME NEW g \in Hosts, Gate(g) \/ Resume(g) \/ Finish(g) \/ Crash(g)
      PROVE  Same(g)
  BY <1>0, <1>2 DEF Gate, Resume, Finish, Crash
<1>3. ASSUME NEW g \in Hosts, NEW job \in Jobs, Begin(g, job)
      PROVE  Same(g)
  BY <1>3 DEF Begin, scan
<1>4. ASSUME NEW g \in Hosts, NEW t \in Turns, Turn(g, t)
      PROVE  Same(g) \/ Kind[at'[h] + 1] = "work"
  <2>1. CASE Decide(g, t)
    BY <2>1 DEF Decide, AtWork, AtTurn
  <2>2. ~Decide(g, t) => Leave(g) \/ Pass(g)
    BY <1>4 DEF Turn, TurnDenied, TurnPending, RecordDropped, RefuseDropped,
         DroppedBlocked, DroppedDeferred, QuoteIncomplete, QuoteMatch, QuoteBlocked,
         AlreadyStored, WriteVetoed, WritePending, WriteIncomplete, WriteNothing,
         WriteDeferred, Write, WriteBlocked, Defer, PassRefused
  <2>3. QED
    BY <1>0, <2>1, <2>2
<1>5. CASE \/ Append \/ Touch \/ CapacityChanges \/ DerivedWrite \/ Restart
           \/ \E r \in Roots : Deny(r) \/ Prune(r) \/ \E b \in Backfills : Grant(r, b)
  BY <1>5 DEF Append, Touch, CapacityChanges, DerivedWrite, Restart, Deny, Prune, Grant, scan
<1>6. CASE PurgePreview \/ PurgeDeclined \/ PurgeApply \/ RetentionRemoves
  BY <1>6 DEF PurgePreview, PurgeDeclined, PurgeApply, RetentionRemoves, scan
<1>7. QED
  BY <1>1, <1>2, <1>3, <1>4, <1>5, <1>6 DEF Next, ScanStep

LEMMA WorkNext == ASSUME TypeOK, WorkOnly, [Next]_vars PROVE WorkOnly'
<1>1. \A p \in mem' : Kind[p[2]] = "work"
  <2>1. ASSUME NEW h \in Hosts, NEW t \in Turns, Write(h, t)
        PROVE  \A p \in mem' : Kind[p[2]] = "work"
    BY <2>1, WriteShape DEF WorkOnly
  <2>2. CASE ~ \E h \in Hosts : \E t \in Turns : Write(h, t)
    BY <2>2, StepShape DEF WorkOnly
  <2>3. QED
    BY <2>1, <2>2
<1>2. \A h \in Hosts : phase'[h] = "write" => Kind[at'[h] + 1] = "work"
  BY PhaseShape DEF WorkOnly
<1>3. QED
  BY <1>1, <1>2 DEF WorkOnly

LEMMA OneHomeNext == ASSUME TypeOK, OneHomePerTurn, [Next]_vars PROVE OneHomePerTurn'
<1>1. ASSUME NEW h \in Hosts, NEW t \in Turns, Write(h, t)
      PROVE  OneHomePerTurn'
  <2>1. PICK home \in Nat : mem' = mem \cup {<<home, t>>}
    BY <1>1, WriteShape
  <2>2. \A p \in mem : p[2] # t
    BY <1>1, WriteShape DEF Stored, TypeOK, DbTypeOK
  <2>3. QED
    BY <2>1, <2>2 DEF OneHomePerTurn
<1>2. CASE ~ \E h \in Hosts : \E t \in Turns : Write(h, t)
  BY <1>2, StepShape DEF OneHomePerTurn
<1>3. QED
  BY <1>1, <1>2

\* A turn is stored once, whichever processes scan and wherever they cut.
THEOREM OneHome == Spec => []OneHomePerTurn
<1>1. Init => OneHomePerTurn
  BY DEF Init, OneHomePerTurn
<1>2. TypeOK /\ OneHomePerTurn /\ [Next]_vars => OneHomePerTurn'
  BY OneHomeNext
<1>3. QED
  BY <1>1, <1>2, TypeCorrect, PTL DEF Spec

LEMMA NoSelfNext ==
    ASSUME CoverInv, WorkOnly, NoSelfIngest, [Next]_vars
    PROVE  NoSelfIngest'
<1>0. TypeOK
  BY DEF CoverInv
<1>1. ASSUME NEW h \in Hosts, NEW t \in Turns, Write(h, t), NEW m \in Quotes[t]
      PROVE  m \in refused
  <2>0. m \in Turns /\ m < t /\ Kind[m] \in {"mcp", "bare"}
    BY <1>1, CaptureAssumption
  <2>a. Quotes[m] = {}
    BY <2>0, CaptureAssumption
  <2>b. t = at[h] + 1 /\ at[h] \in Nat
    BY <1>0, <1>1, WriteShape, CaptureAssumption DEF TypeOK, ScanTypeOK
  <2>1. m \in 1..at[h] /\ Kind[m] \in {"mcp", "bare"} /\ Quotes[m] = {}
    BY <2>0, <2>a, <2>b, CaptureAssumption DEF Turns
  <2>2. Covered(m)
    BY <1>0, <1>1, <2>1, WriteShape DEF CoverInv, ScansCovered
  <2>3. ~Stored(m)
    BY <2>1 DEF WorkOnly, Stored
  <2>4. m \notin receipts
    BY <1>0, <1>1, WriteShape DEF Matches
  <2>5. QED
    BY <2>1, <2>2, <2>3, <2>4 DEF Covered, Matches
<1>2. ASSUME NEW h \in Hosts, NEW t \in Turns, Write(h, t)
      PROVE  NoSelfIngest'
  <2>1. PICK home \in Nat : mem' = mem \cup {<<home, t>>}
    BY <1>0, <1>2, WriteShape
  <2>2. veto = {} /\ refused' = refused
    BY <1>2 DEF Write, CanWrite
  <2>3. QED
    BY <1>1, <1>2, <2>1, <2>2 DEF NoSelfIngest
<1>3. CASE ~ \E h \in Hosts : \E t \in Turns : Write(h, t)
  BY <1>0, <1>3, StepShape DEF NoSelfIngest
<1>4. QED
  BY <1>2, <1>3

\* While no tombstone exists, a stored turn that repeats Elepha's own output
\* repeats only output whose turn was refused its receipt.
THEOREM NoSelf == Spec => []NoSelfIngest
<1>1. ASSUME Init PROVE WorkOnly /\ NoSelfIngest
  BY <1>1 DEF Init, WorkOnly, NoSelfIngest
<1>2. CoverInv => TypeOK
  BY DEF CoverInv
<1>3. TypeOK /\ WorkOnly /\ [Next]_vars => WorkOnly'
  BY WorkNext
<1>4. CoverInv /\ WorkOnly /\ NoSelfIngest /\ [Next]_vars => NoSelfIngest'
  BY NoSelfNext
<1>5. QED
  BY <1>1, <1>2, <1>3, <1>4, CoverAlways, PTL DEF Spec

LEMMA PromiseNext ==
    ASSUME TypeOK, WorkOnly, [Next]_vars
    PROVE  [Promise!Next]_(Promise!vars)
<1>1. ASSUME NEW h \in Hosts, NEW t \in Turns, Write(h, t)
      PROVE  Promise!Remember(t)
  <2>1. PICK home \in Nat : mem' = mem \cup {<<home, t>>}
    BY <1>1, WriteShape
  <2>2. {p[2] : p \in mem}' = {p[2] : p \in mem} \cup {t}
    <3>1. {p[2] : p \in mem \cup {<<home, t>>}} = {p[2] : p \in mem} \cup {t}
      <4>1. <<home, t>>[2] = t
        OBVIOUS
      <4>2. \A x : x \in {p[2] : p \in mem \cup {<<home, t>>}} <=> x \in {p[2] : p \in mem} \cup {t}
        BY <4>1
      <4>3. QED
        BY <4>2
    <3>2. QED
      BY <2>1, <3>1
  <2>3. t \notin {p[2] : p \in mem}
    BY <1>1, WriteShape DEF Stored, TypeOK, DbTypeOK
  <2>4. QED
    BY <1>1, <2>2, <2>3, WriteShape DEF Promise!Remember, WorkOnly
<1>2. CASE ~ \E h \in Hosts : \E t \in Turns : Write(h, t)
  <2>1. CASE consent' \in [Roots -> Decisions] /\ UNCHANGED <<mem, veto>>
    BY <2>1 DEF Promise!Next, Promise!Decide, Promise!Decisions, Decisions
  <2>2. CASE UNCHANGED consent /\ veto' # {} /\ mem' \subseteq mem
    BY <2>2 DEF Promise!Next, Promise!Freeze
  <2>3. QED
    BY <1>2, <2>1, <2>2, StepShape
<1>3. QED
  BY <1>1, <1>2 DEF Promise!Next

\* Capture keeps its promise: every behaviour of the code, seen through the
\* remembered turns and the tombstones, is one the promise allows.
THEOREM Refines == Spec => KeepsPromise
<1>1. ASSUME Init PROVE WorkOnly /\ Promise!Init
  BY <1>1 DEF Init, WorkOnly, Promise!Init, Promise!Decisions, Decisions
<1>2. TypeOK /\ WorkOnly /\ [Next]_vars => WorkOnly'
  BY WorkNext
<1>3. TypeOK /\ WorkOnly /\ [Next]_vars => [Promise!Next]_(Promise!vars)
  BY PromiseNext
<1>4. QED
  BY <1>1, <1>2, <1>3, TypeCorrect, PTL DEF Spec, KeepsPromise, Promise!Spec

----------------------------------------------------------------------------
(* Segments follow the boundaries, where one process scans.  The invariant *)
(* says where that process stands: past everything stored, in the latest   *)
(* segment, with a segment decision that is still today's.                 *)

Ordered(s) ==
    /\ session[s].trail <= session[s].cursor
    /\ \A p \in mem : p[1] <= s /\ p[2] <= session[s].trail
    /\ mem # {} => <<s, session[s].trail>> \in mem

Past(s) == phase[Daemon] \in {"turns", "write"} => session[s].cursor <= at[Daemon]

OrderInv ==
    veto = {} =>
        /\ \A s \in DOMAIN session : IsLast(session, s) => Ordered(s) /\ Past(s)
        /\ phase[Daemon] = "write" => cut[Daemon] = CutBefore(at[Daemon] + 1)

\* What a step that writes no row does to the scan of the one process: it is
\* not in the loop, or stays in it and does not go back, or decides, or starts
\* at the cursor; and the one that moves a cursor passes that turn.
ScanGoesOn ==
    \/ phase'[Daemon] \notin {"turns", "write"}
    \/ /\ phase[Daemon] \in {"turns", "write"} /\ phase'[Daemon] = "turns"
       /\ at'[Daemon] \in {at[Daemon], at[Daemon] + 1}
    \/ /\ phase[Daemon] = "write" /\ phase'[Daemon] = "write"
       /\ at'[Daemon] = at[Daemon] /\ cut'[Daemon] = cut[Daemon]
    \/ /\ phase[Daemon] = "turns" /\ phase'[Daemon] = "write"
       /\ at'[Daemon] = at[Daemon] /\ cut'[Daemon] = CutBefore(at[Daemon] + 1)
    \/ \E s \in DOMAIN Upserted :
          /\ IsLast(Upserted, s) /\ at'[Daemon] = Upserted[s].cursor
          /\ phase'[Daemon] = "turns"

CursorGoesOn ==
    \E s \in DOMAIN Upserted :
        /\ IsLast(Upserted, s) /\ session' = Advanced(Upserted, s, at[Daemon] + 1)
        /\ phase[Daemon] = "turns" /\ phase'[Daemon] = "turns"
        /\ at'[Daemon] = at[Daemon] + 1

LEMMA PassGoesOn ==
    ASSUME TypeOK, Pass(Daemon), phase[Daemon] \in {"turns", "write"}
    PROVE  phase'[Daemon] = "turns" /\ at'[Daemon] = at[Daemon] + 1
BY DEF TypeOK, ScanTypeOK, Pass, Hosts

LEMMA LeaveGoesOn ==
    ASSUME TypeOK, Leave(Daemon)
    PROVE  ScanGoesOn
BY DEF TypeOK, ScanTypeOK, Leave, Hosts, ScanGoesOn

LEMMA AloneTurn ==
    ASSUME TypeOK, NEW t \in Turns, Turn(Daemon, t), ~Write(Daemon, t), veto' = {}
    PROVE  (UNCHANGED session /\ ScanGoesOn) \/ CursorGoesOn
<1> DEFINE d == Daemon
<1>0. d \in Hosts /\ phase \in [Hosts -> Phases] /\ at \in [Hosts -> 0..N] /\ cut \in [Hosts -> BOOLEAN]
  BY DEF Hosts, TypeOK, ScanTypeOK
<1>1. CASE TurnPending(d, t) \/ RefuseDropped(d, t) \/ QuoteIncomplete(d, t) \/ WritePending(d, t)
           \/ AlreadyStored(d, t) \/ WriteNothing(d, t)
  <2>1. Pass(d) /\ phase[d] \in {"turns", "write"} /\ UNCHANGED session
    BY <1>1 DEF TurnPending, RefuseDropped, QuoteIncomplete, WritePending, AlreadyStored,
                WriteNothing, PassRefused, AtWork, AtTurn, AtWrite, db
  <2> QED  BY <2>1, PassGoesOn DEF ScanGoesOn
<1>2. CASE RecordDropped(d, t)
  <2>1. Pass(d) /\ phase[d] = "turns" /\ t = at[d] + 1
    BY <1>2 DEF RecordDropped, AtTurn
  <2>2. \E s \in DOMAIN Upserted : IsLast(Upserted, s) /\ session' = Advanced(Upserted, s, t)
    BY <1>2 DEF RecordDropped
  <2> QED  BY <2>1, <2>2, PassGoesOn DEF CursorGoesOn
<1>3. CASE QuoteMatch(d, t)
  <2>1. Pass(d) /\ phase[d] = "turns" /\ t = at[d] + 1
    BY <1>3 DEF QuoteMatch, AtWork, AtTurn
  <2>2. CASE DOMAIN session = {}
    BY <1>3, <2>1, <2>2, PassGoesOn DEF QuoteMatch, ScanGoesOn
  <2>3. CASE DOMAIN session # {}
    <3>1. \E s \in DOMAIN session : IsLast(session, s) /\ session' = Advanced(session, s, t)
      BY <1>3, <2>3 DEF QuoteMatch
    <3>2. Upserted = session
      BY <2>3 DEF Upserted
    <3> QED  BY <2>1, <3>1, <3>2, PassGoesOn DEF CursorGoesOn
  <2> QED  BY <2>2, <2>3
<1>4. CASE Decide(d, t)
  <2>1. /\ phase[d] = "turns" /\ t = at[d] + 1 /\ UNCHANGED <<session, at>>
        /\ cut' = [cut EXCEPT ![d] = CutBefore(t)] /\ phase' = [phase EXCEPT ![d] = "write"]
    BY <1>4 DEF Decide, AtWork, AtTurn, db
  <2> QED  BY <1>0, <2>1 DEF ScanGoesOn
<1>5. CASE TurnDenied(d, t) \/ DroppedBlocked(d, t) \/ QuoteBlocked(d, t) \/ WriteVetoed(d, t)
  <2>1. GoIncognito => FALSE
    BY DEF GoIncognito
  <2>2. WriteBlocked(d) => FALSE
    BY <2>1 DEF WriteBlocked
  <2> QED  BY <1>5, <2>1, <2>2 DEF TurnDenied, DroppedBlocked, QuoteBlocked, WriteVetoed
<1>6. CASE DroppedDeferred(d, t) \/ WriteDeferred(d, t) \/ WriteIncomplete(d, t)
  BY <1>6, LeaveGoesOn DEF DroppedDeferred, WriteDeferred, WriteIncomplete, Defer, db
<1> QED  BY <1>1, <1>2, <1>3, <1>4, <1>5, <1>6 DEF Turn

LEMMA AloneStep ==
    ASSUME TypeOK, Backfills = {}, [Next]_vars, veto' = {},
           ~ \E t \in Turns : Write(Daemon, t)
    PROVE  (UNCHANGED session /\ ScanGoesOn) \/ CursorGoesOn
<1>0. /\ Hosts = {Daemon}
      /\ phase \in [Hosts -> Phases] /\ at \in [Hosts -> 0..N] /\ cut \in [Hosts -> BOOLEAN]
  BY DEF Hosts, TypeOK, ScanTypeOK
<1>1. ASSUME UNCHANGED <<session, phase, at, cut>>
      PROVE  UNCHANGED session /\ ScanGoesOn
  BY <1>1 DEF ScanGoesOn
<1>2. CASE UNCHANGED vars
  BY <1>1, <1>2 DEF vars, db, scan
<1>3. CASE Gate(Daemon)
  <2>1. GoIncognito => FALSE
    BY DEF GoIncognito
  <2> QED  BY <1>0, <1>3, <2>1, LeaveGoesOn DEF Gate, ScanGoesOn, db
<1>4. CASE Resume(Daemon)
  <2>1. PICK s \in DOMAIN Upserted :
           IsLast(Upserted, s) /\ at' = [at EXCEPT ![Daemon] = Upserted[s].cursor]
    BY <1>4 DEF Resume
  <2> QED  BY <1>0, <1>4, <2>1 DEF Resume, ScanGoesOn, db
<1>5. CASE Finish(Daemon) \/ Crash(Daemon)
  BY <1>5, LeaveGoesOn DEF Finish, Crash, db
<1>6. ASSUME NEW job \in Jobs, Begin(Daemon, job)
      PROVE  UNCHANGED session /\ ScanGoesOn
  BY <1>0, <1>1, <1>6 DEF Begin, ScanGoesOn, db, scan
<1>7. CASE \/ Append \/ Touch \/ CapacityChanges \/ DerivedWrite \/ Restart
           \/ \E r \in Roots : Deny(r) \/ Prune(r) \/ \E b \in Backfills : Grant(r, b)
  BY <1>1, <1>7 DEF Append, Touch, CapacityChanges, DerivedWrite, Restart, Deny, Prune, Grant, db, scan
<1>8. CASE PurgePreview \/ PurgeDeclined \/ PurgeApply \/ RetentionRemoves
  BY <1>1, <1>8 DEF PurgePreview, PurgeDeclined, PurgeApply, RetentionRemoves, db, scan
<1>9. CASE \E t \in Turns : Turn(Daemon, t)
  BY <1>9, AloneTurn
<1> QED
  BY <1>0, <1>2, <1>3, <1>4, <1>5, <1>6, <1>7, <1>8, <1>9 DEF Next, ScanStep

LEMMA LastIsOne ==
    ASSUME NEW f, DOMAIN f \subseteq Nat, NEW s, NEW q, IsLast(f, s), IsLast(f, q)
    PROVE  s = q
BY DEF IsLast

\* Without a session there is no row; a fresh one stands at the beginning.
LEMMA UpsertedOrdered ==
    ASSUME TypeOK, OrderInv, veto = {}, NEW s \in DOMAIN Upserted, IsLast(Upserted, s)
    PROVE  /\ s \in Nat /\ Upserted[s].cursor \in Nat /\ Upserted[s].trail \in Nat
           /\ Upserted[s].trail <= Upserted[s].cursor
           /\ \A p \in mem : p[1] <= s /\ p[2] <= Upserted[s].trail
           /\ mem # {} => <<s, Upserted[s].trail>> \in mem
           /\ phase[Daemon] \in {"turns", "write"} => Upserted[s].cursor <= at[Daemon]
           /\ mem # {} => s \in DOMAIN session /\ IsLast(session, s)
                            /\ Upserted[s].trail = session[s].trail
<1>1. s \in Nat /\ Upserted[s].cursor \in Nat /\ Upserted[s].trail \in Nat
  BY UpsertType, CaptureAssumption DEF TypeOK, Row
<1>2. CASE DOMAIN session = {}
  <2>1. mem = {}
    BY <1>2 DEF TypeOK, DbTypeOK
  <2>2. Upserted[s].cursor = 0 /\ Upserted[s].trail = 0
    BY <1>2 DEF Upserted
  <2>3. at[Daemon] \in Nat
    BY CaptureAssumption DEF TypeOK, ScanTypeOK, Hosts
  <2> QED  BY <1>1, <2>1, <2>2, <2>3
<1>3. CASE DOMAIN session # {}
  <2>1. Upserted = session
    BY <1>3 DEF Upserted
  <2> QED  BY <1>1, <2>1 DEF OrderInv, Ordered, Past
<1> QED  BY <1>2, <1>3

LEMMA OrderQuiet ==
    ASSUME TypeOK, OrderInv, veto = {}, UNCHANGED <<session, mem>>, ScanGoesOn
    PROVE  OrderInv'
<1>0. at[Daemon] \in Nat /\ DOMAIN session \subseteq Nat
      /\ \A s \in DOMAIN session : session[s].cursor \in Nat
  BY CaptureAssumption DEF TypeOK, DbTypeOK, ScanTypeOK, Hosts, Row
<1>1. ASSUME NEW s \in DOMAIN session, IsLast(session, s)
      PROVE  Ordered(s)' /\ Past(s)'
  <2>1. Ordered(s) /\ Past(s)
    BY <1>1 DEF OrderInv
  <2>2. Ordered(s)'
    BY <2>1 DEF Ordered
  <2>3. CASE \E q \in DOMAIN Upserted :
                IsLast(Upserted, q) /\ at'[Daemon] = Upserted[q].cursor
    <3>1. Upserted = session
      BY <1>1 DEF Upserted
    <3>2. at'[Daemon] = session[s].cursor
      BY <1>0, <1>1, <2>3, <3>1, LastIsOne
    <3> QED  BY <1>0, <1>1, <2>2, <3>2 DEF Past
  <2>4. CASE phase'[Daemon] \notin {"turns", "write"}
    BY <2>2, <2>4 DEF Past
  <2>5. CASE phase[Daemon] \in {"turns", "write"} /\ at'[Daemon] \in {at[Daemon], at[Daemon] + 1}
    BY <1>0, <1>1, <2>1, <2>2, <2>5 DEF Past
  <2> QED  BY <2>3, <2>4, <2>5 DEF ScanGoesOn
<1>2. ASSUME phase'[Daemon] = "write"
      PROVE  cut'[Daemon] = CutBefore(at[Daemon] + 1) /\ at'[Daemon] = at[Daemon]
  BY <1>2 DEF ScanGoesOn, OrderInv
<1>3. phase'[Daemon] = "write" => cut'[Daemon] = CutBefore(at[Daemon] + 1)'
  BY <1>2 DEF CutBefore, IsLast
<1> QED  BY <1>1, <1>3 DEF OrderInv, IsLast

LEMMA OrderAdvanced ==
    ASSUME TypeOK, OrderInv, veto = {}, UNCHANGED mem, CursorGoesOn
    PROVE  OrderInv'
<1>1. PICK s \in DOMAIN Upserted :
         /\ IsLast(Upserted, s) /\ session' = Advanced(Upserted, s, at[Daemon] + 1)
         /\ phase[Daemon] = "turns" /\ phase'[Daemon] = "turns"
         /\ at'[Daemon] = at[Daemon] + 1
  BY DEF CursorGoesOn
<1>2. /\ s \in Nat /\ Upserted[s].cursor \in Nat /\ Upserted[s].trail \in Nat
      /\ Upserted[s].trail <= Upserted[s].cursor /\ Upserted[s].cursor <= at[Daemon]
      /\ \A p \in mem : p[1] <= s /\ p[2] <= Upserted[s].trail
      /\ mem # {} => <<s, Upserted[s].trail>> \in mem
  BY <1>1, UpsertedOrdered
<1>3. at[Daemon] \in Nat
  BY CaptureAssumption DEF TypeOK, ScanTypeOK, Hosts
<1>4. /\ DOMAIN session' = DOMAIN Upserted /\ IsLast(session', s)
      /\ session'[s] = [cursor |-> at[Daemon] + 1, trail |-> Upserted[s].trail]
  BY <1>1 DEF Advanced, IsLast
<1>5. ASSUME NEW q \in DOMAIN session', IsLast(session', q)
      PROVE  Ordered(q)' /\ Past(q)'
  <2>1. q = s
    BY <1>4, <1>5, LastIsOne, UpsertType DEF TypeOK
  <2> QED  BY <1>1, <1>2, <1>3, <1>4, <2>1 DEF Ordered, Past
<1> QED  BY <1>1, <1>5 DEF OrderInv

\* A row is written past everything stored, in the segment the boundary asks for.
LEMMA WriteOrdered ==
    ASSUME TypeOK, Backfills = {}, OrderInv, NEW t \in Turns, Write(Daemon, t)
    PROVE  \E s, home \in Nat :
              /\ mem' = mem \cup {<<home, t>>} /\ s <= home
              /\ \A p \in mem : p[1] <= s /\ p[2] < t
              /\ mem # {} => \E u \in Turns :
                    /\ <<s, u>> \in mem /\ \A p \in mem : p[2] <= u
                    /\ s = home <=> <<u, t>> \notin Boundary
              /\ home \in DOMAIN session' /\ IsLast(session', home)
              /\ session'[home] = [cursor |-> t, trail |-> t]
              /\ DOMAIN session' \subseteq Nat
<1>1. PICK s \in DOMAIN Upserted :
         /\ IsLast(Upserted, s)
         /\ LET home == IF cut[Daemon] THEN s + 1 ELSE s IN
            /\ mem' = mem \cup {<<home, t>>}
            /\ session' = [q \in DOMAIN Upserted \cup {home} |->
                             IF q = home THEN [cursor |-> t, trail |-> t]
                             ELSE Upserted[q]]
  BY DEF Write
<1> DEFINE home == IF cut[Daemon] THEN s + 1 ELSE s
<1>2. veto = {} /\ phase[Daemon] = "write" /\ t = at[Daemon] + 1
  BY DEF Write, CanWrite, AtWrite
<1>3. /\ s \in Nat /\ Upserted[s].cursor \in Nat /\ Upserted[s].trail \in Nat
      /\ Upserted[s].trail <= Upserted[s].cursor /\ Upserted[s].cursor <= at[Daemon]
      /\ \A p \in mem : p[1] <= s /\ p[2] <= Upserted[s].trail
      /\ mem # {} => <<s, Upserted[s].trail>> \in mem
      /\ mem # {} => s \in DOMAIN session /\ IsLast(session, s)
                       /\ Upserted[s].trail = session[s].trail
  BY <1>1, <1>2, UpsertedOrdered
<1>4. /\ at[Daemon] \in Nat /\ cut[Daemon] \in BOOLEAN /\ t \in Nat
      /\ cut[Daemon] = CutBefore(t)
      /\ DOMAIN session \subseteq Nat /\ mem \subseteq Nat \X Turns
      /\ DOMAIN Upserted \subseteq Nat
  BY <1>2, CaptureAssumption, UpsertType DEF TypeOK, DbTypeOK, ScanTypeOK, Hosts, Turns, OrderInv
<1>5. home \in Nat /\ s <= home
  BY <1>3
<1>6. \A p \in mem : p[1] <= s /\ p[2] < t
  <2>1. \A p \in mem : p[2] \in Nat
    BY <1>4, CaptureAssumption DEF Turns
  <2> QED  BY <1>2, <1>3, <1>4, <2>1
<1>7. ASSUME mem # {}
      PROVE  \E u \in Turns :
                /\ <<s, u>> \in mem /\ \A p \in mem : p[2] <= u
                /\ s = home <=> <<u, t>> \notin Boundary
  <2> DEFINE u == Upserted[s].trail
  <2>1. <<s, u>> \in mem /\ \A p \in mem : p[2] <= u
    BY <1>3, <1>7
  <2>2. u \in Turns
    BY <1>4, <2>1
  <2>3. CutBefore(t) <=> <<u, t>> \in Boundary
    <3>1. s \in DOMAIN session /\ IsLast(session, s) /\ u = session[s].trail
      BY <1>3, <1>7
    <3>2. \A q \in DOMAIN session : IsLast(session, q) => q = s
      BY <1>4, <3>1, LastIsOne
    <3> QED  BY <3>1, <3>2 DEF CutBefore
  <2>4. s = home <=> ~cut[Daemon]
    BY <1>3, <1>4
  <2> HIDE DEF u
  <2> QED  BY <1>4, <2>1, <2>2, <2>3, <2>4
<1>8. /\ home \in DOMAIN session' /\ session'[home] = [cursor |-> t, trail |-> t]
      /\ DOMAIN session' \subseteq Nat
  BY <1>1, <1>4, <1>5
<1>9. IsLast(session', home)
  <2>1. \A q \in DOMAIN Upserted : q <= home
    BY <1>1, <1>3, <1>4 DEF IsLast
  <2> HIDE DEF home
  <2>2. DOMAIN session' = DOMAIN Upserted \cup {home}
    BY <1>1 DEF home
  <2> QED  BY <1>5, <2>1, <2>2 DEF IsLast
<1>10. mem' = mem \cup {<<home, t>>}
  BY <1>1
<1> HIDE DEF home
<1> QED  BY <1>3, <1>5, <1>6, <1>7, <1>8, <1>9, <1>10

LEMMA OrderNext ==
    ASSUME TypeOK, Backfills = {}, OrderInv, [Next]_vars
    PROVE  OrderInv'
<1> SUFFICES ASSUME veto' = {}
             PROVE  OrderInv'
  BY DEF OrderInv
<1>1. veto = {}
  BY StepKeeps
<1>2. ASSUME NEW t \in Turns, Write(Daemon, t)
      PROVE  OrderInv'
  <2>1. PICK s, home \in Nat :
              /\ mem' = mem \cup {<<home, t>>} /\ s <= home
              /\ \A p \in mem : p[1] <= s /\ p[2] < t
              /\ home \in DOMAIN session' /\ IsLast(session', home)
              /\ session'[home] = [cursor |-> t, trail |-> t]
              /\ DOMAIN session' \subseteq Nat
    BY <1>2, WriteOrdered
  <2>2. Pass(Daemon) /\ t = at[Daemon] + 1 /\ phase[Daemon] = "write"
    BY <1>2 DEF Write, CanWrite, AtWrite
  <2>3. phase'[Daemon] = "turns" /\ at'[Daemon] = t
    BY <2>2, PassGoesOn
  <2>4. \A p \in mem : p[1] \in Nat /\ p[2] \in Nat
    BY CaptureAssumption DEF TypeOK, DbTypeOK, Turns
  <2>5. t \in Nat
    BY CaptureAssumption DEF Turns
  <2>6. ASSUME NEW q \in DOMAIN session', IsLast(session', q)
        PROVE  Ordered(q)' /\ Past(q)'
    <3>1. q = home
      BY <2>1, <2>6, LastIsOne
    <3>2. \A p \in mem' : p[1] <= home /\ p[2] <= t
      BY <2>1, <2>4, <2>5
    <3> QED  BY <2>1, <2>3, <2>5, <3>1, <3>2 DEF Ordered, Past
  <2> QED  BY <2>3, <2>6 DEF OrderInv
<1>3. CASE ~ \E t \in Turns : Write(Daemon, t)
  <2>1. UNCHANGED mem
    <3>1. ~ \E h \in Hosts : \E t \in Turns : Write(h, t)
      BY <1>3 DEF Hosts
    <3> QED  BY <3>1, StepShape
  <2>2. (UNCHANGED session /\ ScanGoesOn) \/ CursorGoesOn
    BY <1>3, AloneStep
  <2> QED  BY <1>1, <2>1, <2>2, OrderQuiet, OrderAdvanced
<1> QED  BY <1>2, <1>3

SegInv == TypeOK /\ OneHomePerTurn /\ OrderInv /\ SegmentsFollowBoundaries

LEMMA SegmentsNext ==
    ASSUME SegInv, Backfills = {}, [Next]_vars
    PROVE  SegmentsFollowBoundaries'
<1> USE DEF SegInv
<1>0. mem \subseteq Nat \X Turns /\ \A p \in mem : p[1] \in Nat /\ p[2] \in Nat
  BY CaptureAssumption DEF TypeOK, DbTypeOK, Turns
<1>1. ASSUME NEW t \in Turns, Write(Daemon, t)
      PROVE  SegmentsFollowBoundaries'
  <2>1. PICK s, home \in Nat :
              /\ mem' = mem \cup {<<home, t>>} /\ s <= home
              /\ \A p \in mem : p[1] <= s /\ p[2] < t
              /\ mem # {} => \E u \in Turns :
                    /\ <<s, u>> \in mem /\ \A p \in mem : p[2] <= u
                    /\ s = home <=> <<u, t>> \notin Boundary
    BY <1>1, WriteOrdered
  <2>2. t \in Nat
    BY CaptureAssumption DEF Turns
  <2>3. ASSUME NEW p \in mem, NEW q \in mem, p[2] < q[2]
        PROVE  /\ p[1] <= q[1]
               /\ (\A r \in mem' : ~(p[2] < r[2] /\ r[2] < q[2])) =>
                     (p[1] = q[1] <=> <<p[2], q[2]>> \notin Boundary) \/ veto' # {}
    BY <1>1, <2>1, <2>3 DEF SegmentsFollowBoundaries, Write, CanWrite
  <2>4. ASSUME NEW p \in mem
        PROVE  /\ p[1] <= home
               /\ (\A r \in mem' : ~(p[2] < r[2] /\ r[2] < t)) =>
                     (p[1] = home <=> <<p[2], t>> \notin Boundary)
    <3>1. p[1] <= home
      BY <1>0, <2>1
    <3>2. PICK u \in Turns : /\ <<s, u>> \in mem /\ \A r \in mem : r[2] <= u
                             /\ s = home <=> <<u, t>> \notin Boundary
      BY <2>1
    <3>3. ASSUME \A r \in mem' : ~(p[2] < r[2] /\ r[2] < t)
          PROVE  p[1] = home <=> <<p[2], t>> \notin Boundary
      <4>1. u < t /\ ~(p[2] < u /\ u < t) /\ p[2] <= u
        BY <2>1, <3>2, <3>3
      <4>2. u \in Nat /\ p[2] \in Nat
        BY <1>0, CaptureAssumption DEF Turns
      <4>3. p[2] = u
        BY <4>1, <4>2
      <4>4. p = <<s, u>>
        BY <3>2, <4>3 DEF OneHomePerTurn
      <4> QED  BY <3>2, <4>4
    <3> QED  BY <3>1, <3>3
  <2>5. ASSUME NEW p \in mem', NEW q \in mem', p[2] < q[2]
        PROVE  /\ p[1] <= q[1]
               /\ (\A r \in mem' : ~(p[2] < r[2] /\ r[2] < q[2])) =>
                     (p[1] = q[1] <=> <<p[2], q[2]>> \notin Boundary) \/ veto' # {}
    <3>1. CASE p \in mem /\ q \in mem
      BY <2>3, <2>5, <3>1
    <3>2. CASE p = <<home, t>>
      <4>1. ~(t < q[2])
        BY <1>0, <2>1, <2>2, <2>5
      <4> QED  BY <2>5, <3>2, <4>1
    <3>3. CASE p \in mem /\ q = <<home, t>>
      BY <2>4, <3>3
    <3> QED  BY <2>1, <3>1, <3>2, <3>3
  <2> QED  BY <2>5 DEF SegmentsFollowBoundaries
<1>2. CASE ~ \E t \in Turns : Write(Daemon, t)
  <2>1. ~ \E h \in Hosts : \E t \in Turns : Write(h, t)
    BY <1>2 DEF Hosts
  <2>2. CASE UNCHANGED <<mem, veto>>
    BY <2>2 DEF SegmentsFollowBoundaries
  <2>3. CASE veto' # {} /\ mem' \subseteq mem
    BY <2>3 DEF SegmentsFollowBoundaries
  <2> QED  BY <2>1, <2>2, <2>3, StepShape
<1> QED  BY <1>1, <1>2

\* With one process scanning, segments cover the transcript in order, and two
\* turns stored one after the other share a segment exactly when no boundary
\* separates them, although the decision is taken before the summarizer's await
\* and used after it (persistTurn).  With a replay beside the daemon it is not
\* so: another process may have moved the row meanwhile.
THEOREM SegmentsFollow ==
    ASSUME Backfills = {}
    PROVE  Spec => []SegmentsFollowBoundaries
<1>1. ASSUME Init PROVE OrderInv /\ SegmentsFollowBoundaries
  BY <1>1 DEF Init, OrderInv, SegmentsFollowBoundaries, Hosts
<1>2. TypeOK /\ OrderInv /\ [Next]_vars => OrderInv'
  BY OrderNext
<1>3. SegInv /\ [Next]_vars => SegmentsFollowBoundaries'
  BY SegmentsNext
<1> QED  BY <1>1, <1>2, <1>3, TypeCorrect, OneHome, PTL DEF Spec, SegInv
=============================================================================
