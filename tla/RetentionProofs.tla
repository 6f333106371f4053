-------------------------- MODULE RetentionProofs --------------------------
(* What a cleanup leaves alone, what it removes chats for, and that the     *)
(* capacity holds, for any number of chats and writers and any sizes.       *)
EXTENDS Retention, SetLemmas

FInv == TypeOK /\ FrozenStaysEmpty

LEMMA AddsType ==
    ASSUME NEW w \in Writers, TypeOK, job[w].pc # "rest"
    PROVE  Adds(job[w]) \in Nat /\ job[w].chat \in Chats
<1>1. job[w].size \in Nat /\ job[w].chat \in Chats
  BY RetentionAssumption DEF TypeOK, JobTypeOK
<1> QED  BY <1>1 DEF Adds

\* A committed write: a frozen chat keeps what the cleanup left it, and the job
\* is over.  f is the table of rows without the write.
LEMMA CommitKeeps ==
    ASSUME NEW w \in Writers, FInv, job[w].pc # "rest",
           NEW f \in [Chats -> Nat], Commit(w, f)
    PROVE  /\ rows' \in [Chats -> Nat] /\ recent' \subseteq Chats
           /\ job' = [job EXCEPT ![w] = Rest]
           /\ \A c \in Frozen : rows'[c] = f[c]
           /\ \A c \in Chats : c # job[w].chat => rows'[c] = f[c]
<1> DEFINE j == job[w]
<1>1. rows' = Grown(f, j.chat, Adds(j))
  BY DEF Commit, Stored
<1>0. Adds(j) \in Nat /\ j.chat \in Chats
  BY AddsType DEF FInv
<1>2. rows' \in [Chats -> Nat]
  BY <1>0, <1>1 DEF Grown
<1>3. job' = [job EXCEPT ![w] = Rest] /\ recent' \subseteq Chats
  BY <1>0 DEF Commit, Leave, FInv, TypeOK
<1>4. ASSUME NEW c \in Chats, c # j.chat
      PROVE  rows'[c] = f[c]
  BY <1>1, <1>4 DEF Grown
<1>5. ASSUME NEW c \in Frozen
      PROVE  rows'[c] = f[c]
  <2>1. CASE c = j.chat
    <3>1. rows[c] = 0
      BY <1>5 DEF FInv, FrozenStaysEmpty
    <3>2. Adds(j) = 0
      BY <2>1, <1>5, <3>1 DEF Adds
    <3>3. c \in Chats
      BY <2>1, <1>0
    <3> QED  BY <2>1, <3>2, <3>3, <1>1 DEF Grown
  <2>2. CASE c # j.chat
    <3>1. c \in Chats
      BY <1>5 DEF Frozen, FInv, TypeOK
    <3> QED  BY <3>1, <2>2, <1>4
  <2> QED  BY <2>1, <2>2
<1> QED  BY <1>2, <1>3, <1>4, <1>5

\* A job that moves on, or is over, leaves the other jobs as they were.
LEMMA MovingKeepsJobs ==
    ASSUME NEW w \in Writers, TypeOK, NEW j, JobTypeOK(j), job' = [job EXCEPT ![w] = j]
    PROVE  DOMAIN job' = Writers /\ \A v \in Writers : JobTypeOK(job'[v])
<1>1. DOMAIN job = Writers /\ \A v \in Writers : JobTypeOK(job[v])
  BY DEF TypeOK
<1>2. \A v \in Writers : job'[v] = IF v = w THEN j ELSE job[v]
  BY <1>1
<1>3. DOMAIN job' = Writers
  BY <1>1
<1>4. \A v \in Writers : JobTypeOK(job'[v])
  BY <1>1, <1>2
<1> QED  BY <1>3, <1>4

LEMMA RestType == JobTypeOK(Rest)
BY DEF JobTypeOK, Rest

\* The same without the types of the tables, which the step gives.
LEMMA LeavingKeepsTypes ==
    ASSUME NEW w \in Writers, TypeOK, job' = [job EXCEPT ![w] = Rest],
           rows' \in [Chats -> Nat], recent' \subseteq Chats, unsettled' \subseteq Chats,
           removed' \subseteq Chats, purged' \subseteq Chats, wait' \in BOOLEAN
    PROVE  TypeOK'
BY RestType, MovingKeepsJobs DEF TypeOK

\* The chats a cleanup takes are others than the one being written.
LEMMA TriggerKept ==
    ASSUME NEW w \in Writers, Unchanged(job[w])
    PROVE  job[w].chat \notin DOMAIN job[w].units
BY DEF Unchanged, Eligible

LEMMA RetentionInit == Init => FInv
<1>1. ASSUME Init
      PROVE  TypeOK
  <2>1. \A w \in Writers : job[w] = Rest
    BY <1>1 DEF Init
  <2>2. \A w \in Writers : JobTypeOK(job[w])
    BY <2>1, RestType
  <2> QED  BY <1>1, <2>2 DEF Init, TypeOK
<1> QED  BY <1>1 DEF Init, FInv, FrozenStaysEmpty, Frozen

LEMMA RetentionStep == FInv /\ [Next]_vars => FInv'
<1> SUFFICES ASSUME FInv, [Next]_vars
             PROVE  FInv'
  OBVIOUS
<1> USE DEF FInv
<1>0. ASSUME UNCHANGED <<rows, recent, unsettled, removed, purged, wait>>,
             NEW w \in Writers, NEW j, JobTypeOK(j), job' = [job EXCEPT ![w] = j]
      PROVE  FInv'
  <2>1. TypeOK'
    BY <1>0, MovingKeepsJobs DEF TypeOK
  <2> QED  BY <1>0, <2>1 DEF FrozenStaysEmpty, Frozen
<1>1. ASSUME NEW w \in Writers, NEW c \in Chats, NEW kind \in Kinds, NEW n \in Sizes,
             Starts(w, c, kind, n)
      PROVE  FInv'
  <2> DEFINE j == [pc |-> "write", chat |-> c, kind |-> kind, size |-> n]
  <2>1. JobTypeOK(j)
    BY DEF JobTypeOK
  <2> QED  BY <1>1, <2>1, <1>0 DEF Starts
<1>2. ASSUME NEW w \in Writers, job[w].pc # "rest", Commit(w, rows),
             UNCHANGED <<unsettled, removed, purged, wait>>
      PROVE  FInv'
  <2>1. rows \in [Chats -> Nat]
    BY DEF TypeOK
  <2>2. /\ rows' \in [Chats -> Nat] /\ recent' \subseteq Chats
        /\ job' = [job EXCEPT ![w] = Rest]
        /\ \A c \in Frozen : rows'[c] = rows[c]
    BY <1>2, <2>1, CommitKeeps
  <2>3. TypeOK'
    BY <1>2, <2>2, LeavingKeepsTypes DEF TypeOK
  <2> QED  BY <1>2, <2>2, <2>3 DEF FrozenStaysEmpty, Frozen
<1>3. ASSUME NEW w \in Writers, Probes(w)
      PROVE  FInv'
  <2> DEFINE j == [job[w] EXCEPT !.pc = IF used < Warning THEN "unwarned" ELSE "over"]
  <2>1. JobTypeOK(job[w]) /\ job[w].pc = "write"
    BY <1>3 DEF Probes, TypeOK
  <2>2. job' = [job EXCEPT ![w] = j]
    BY <1>3 DEF Probes, TypeOK
  <2>3. JobTypeOK(j)
    BY <2>1 DEF JobTypeOK
  <2> QED  BY <1>3, <2>2, <2>3, <1>0 DEF Probes
<1>4. ASSUME NEW w \in Writers, Leave(w), wait' \in BOOLEAN,
             UNCHANGED <<rows, recent, unsettled, removed, purged>>
      PROVE  FInv'
  <2>1. TypeOK'
    BY <1>4, LeavingKeepsTypes DEF Leave, TypeOK
  <2> QED  BY <1>4, <2>1 DEF FrozenStaysEmpty, Frozen
<1>5. ASSUME NEW w \in Writers, Plans(w)
      PROVE  FInv'
  <2> DEFINE units == Plan(job[w])
             j     == [pc |-> "backup", chat |-> job[w].chat, kind |-> job[w].kind,
                       size |-> job[w].size, units |-> [c \in units |-> rows[c]]]
  <2>1. units \subseteq Chats
    BY DEF Plan
  <2>2. job[w].pc = "over" /\ JobTypeOK(job[w])
    BY <1>5 DEF Plans, TypeOK
  <2>3. [c \in units |-> rows[c]] \in [units -> Nat]
    BY <2>1 DEF TypeOK
  <2>4. JobTypeOK(j)
    <3> HIDE DEF units
    <3> QED  BY <2>1, <2>2, <2>3 DEF JobTypeOK
  <2>5. job' = [job EXCEPT ![w] = j]
    BY <1>5 DEF Plans, TypeOK
  <2> QED  BY <1>5, <2>4, <2>5, <1>0 DEF Plans
<1>6. ASSUME NEW w \in Writers, BacksUp(w)
      PROVE  FInv'
  <2> DEFINE j == [job[w] EXCEPT !.pc = "decide"]
  <2>1. JobTypeOK(job[w]) /\ job[w].pc = "backup"
    BY <1>6 DEF BacksUp, TypeOK
  <2>2. job' = [job EXCEPT ![w] = j]
    BY <1>6 DEF BacksUp, TypeOK
  <2>3. JobTypeOK(j)
    BY <2>1 DEF JobTypeOK
  <2> QED  BY <1>6, <2>2, <2>3, <1>0 DEF BacksUp
<1>7. ASSUME NEW w \in Writers, Removes(w)
      PROVE  FInv'
  <2> DEFINE units == DOMAIN job[w].units
             f     == Emptied(job[w])
  <2>1. /\ job[w].pc = "decide" /\ Unchanged(job[w]) /\ Commit(w, f)
        /\ removed' = removed \cup units
        /\ wait' = FALSE /\ UNCHANGED <<unsettled, purged>>
    BY <1>7 DEF Removes
  <2>2. units \subseteq Chats /\ removed \subseteq Chats /\ purged \subseteq Chats
    BY <2>1 DEF TypeOK, JobTypeOK
  <2>3. f \in [Chats -> Nat] /\ \A c \in Chats : f[c] = IF c \in units THEN 0 ELSE rows[c]
    BY DEF Emptied, TypeOK
  <2>4. /\ rows' \in [Chats -> Nat] /\ recent' \subseteq Chats
        /\ job' = [job EXCEPT ![w] = Rest]
        /\ \A c \in Frozen : rows'[c] = f[c]
        /\ \A c \in Chats : c # job[w].chat => rows'[c] = f[c]
    BY <2>1, <2>3, CommitKeeps
  <2>5. TypeOK'
    BY <2>1, <2>2, <2>4, LeavingKeepsTypes DEF TypeOK
  <2>6. ASSUME NEW c \in units
        PROVE  rows'[c] = 0
    BY <2>1, <2>2, <2>3, <2>4, TriggerKept
  <2>7. ASSUME NEW c \in Frozen
        PROVE  rows'[c] = 0
    <3>1. rows[c] = 0 /\ c \in Chats
      BY <2>2 DEF FrozenStaysEmpty, Frozen
    <3> QED  BY <3>1, <2>3, <2>4
  <2> QED  BY <2>1, <2>5, <2>6, <2>7 DEF FrozenStaysEmpty, Frozen
<1>8. ASSUME NEW c \in Chats, NEW n \in Sizes, BulkWrites(c, n)
      PROVE  FInv'
  <2>1. rows' \in [Chats -> Nat]
    BY <1>8, RetentionAssumption DEF BulkWrites, Grown, TypeOK
  <2>2. TypeOK'
    BY <1>8, <2>1 DEF BulkWrites, TypeOK
  <2> QED  BY <1>8, <2>2 DEF BulkWrites, Grown, TypeOK, FrozenStaysEmpty, Frozen
<1>9. ASSUME NEW c \in Chats, Purges(c)
      PROVE  FInv'
  <2>1. rows' \in [Chats -> Nat]
    BY <1>9 DEF Purges, TypeOK
  <2>2. TypeOK'
    BY <1>9, <2>1 DEF Purges, TypeOK
  <2> QED  BY <1>9, <2>2 DEF Purges, TypeOK, FrozenStaysEmpty, Frozen
<1>10. ASSUME UNCHANGED <<rows, removed, purged, job>>, recent' \subseteq Chats,
              unsettled' \subseteq Chats, wait' \in BOOLEAN
       PROVE  FInv'
  <2>1. TypeOK'
    BY <1>10 DEF TypeOK
  <2> QED  BY <1>10, <2>1 DEF FrozenStaysEmpty, Frozen
<1>11. ASSUME NEW w \in Writers, Write(w)
       PROVE  FInv'
  <2>1. CASE Writes(w) \/ WritesAfterAll(w)
    BY <2>1, <1>2 DEF Writes, WritesAfterAll
  <2>2. CASE Declines(w) \/ CannotPlan(w) \/ BackupFails(w) \/ DecisionFails(w)
    <3>1. wait' \in BOOLEAN /\ Leave(w) /\ UNCHANGED <<rows, recent, unsettled, removed, purged>>
      BY <2>2 DEF Declines, CannotPlan, BackupFails, DecisionFails, Deferred, TypeOK
    <3> QED  BY <3>1, <1>4
  <2> QED  BY <1>11, <2>1, <2>2, <1>3, <1>5, <1>6, <1>7 DEF Write
<1>12. ASSUME NEW w \in Writers, Crashes(w)
       PROVE  FInv'
  BY <1>12, <1>4 DEF Crashes, TypeOK
<1>13. CASE Waited \/ (\E c \in Chats : Ages(c) \/ Unsettles(c) \/ Settles(c))
  BY <1>13, <1>10 DEF Waited, Ages, Unsettles, Settles, TypeOK
<1>14. CASE UNCHANGED vars
  BY <1>14, <1>10 DEF vars, TypeOK
<1> QED  BY <1>1, <1>8, <1>9, <1>11, <1>12, <1>13, <1>14 DEF Next

\* The tables and the jobs of the writers keep their types, whatever the sizes.
THEOREM RetentionTypeCorrect == Spec => []TypeOK
<1>1. FInv => TypeOK
  BY DEF FInv
<1> QED  BY RetentionInit, RetentionStep, <1>1, PTL DEF Spec

\* A chat that was removed or purged holds nothing ever after, whatever writes
\* of it were under way: the guards inside the write transactions
\* (recordIngestedTurn, runSessionLiveMemoryWrite) suffice.
THEOREM FrozenStaysEmptyHolds == Spec => []FrozenStaysEmpty
<1>1. FInv => FrozenStaysEmpty
  BY DEF FInv
<1> QED  BY RetentionInit, RetentionStep, <1>1, PTL DEF Spec

\* Every removal is the step Removes of some writer.
LEMMA OnlyRemovesRemoves ==
    ASSUME [Next]_vars, removed' # removed
    PROVE  \E w \in Writers : Removes(w)
<1>1. ASSUME NEW w \in Writers, Write(w), ~Removes(w)
      PROVE  removed' = removed
  BY <1>1 DEF Write, Writes, Probes, Declines, Plans, CannotPlan, BacksUp, BackupFails,
              WritesAfterAll, DecisionFails, Deferred
<1>2. ASSUME Next, \A w \in Writers : ~Write(w)
      PROVE  removed' = removed
  BY <1>2 DEF Next, Starts, Crashes, BulkWrites, Purges, Ages, Unsettles, Settles, Waited
<1>3. CASE UNCHANGED vars
  BY <1>3 DEF vars
<1> QED  BY <1>1, <1>2, <1>3

\* A cleanup removes only chats that are settled and idle in the decisive
\* transaction, and only the rows its verified backup holds: every removal is
\* the step Removes, whose revalidation says so.
THEOREM RemovesOnlyIdleBackedUpHolds == Spec => RemovesOnlyIdleBackedUp
<1>1. ASSUME NEW w \in Writers, Removes(w), NEW c \in removed' \ removed
      PROVE  IdleBackedUp(c)
  <2>1. job[w].pc = "decide" /\ Unchanged(job[w]) /\ c \in DOMAIN job[w].units
    BY <1>1 DEF Removes
  <2> QED  BY <2>1 DEF Unchanged, Eligible, IdleBackedUp
<1>2. [Next]_vars => [\A c \in removed' \ removed : IdleBackedUp(c)]_vars
  <2>1. CASE removed' = removed
    BY <2>1
  <2> QED  BY <2>1, <1>1, OnlyRemovesRemoves
<1> QED  BY <1>2, PTL DEF Spec, RemovesOnlyIdleBackedUp

----------------------------------------------------------------------------
\* What the sums come to.

LEMMA MeasuredIsSum == \A f : Measured(f) = Sum(f, Chats)
BY DEF Measured, Sum

LEMMA MeasuredNat ==
    ASSUME NEW f \in [Chats -> Nat]
    PROVE  Measured(f) \in Nat
<1>1. IsFiniteSet(Chats)
  BY RetentionAssumption
<1>2. Sum(f, Chats) \in Nat
  BY <1>1, SumNat
<1> QED  BY <1>2, MeasuredIsSum

LEMMA GrownMeasures ==
    ASSUME NEW f \in [Chats -> Nat], NEW c \in Chats, NEW n \in Nat
    PROVE  Measured(Grown(f, c, n)) = Measured(f) + n
<1> DEFINE g == Grown(f, c, n)
<1>1. g \in [Chats -> Nat] /\ g[c] = f[c] + n /\ \A d \in Chats \ {c} : g[d] = f[d]
  BY DEF Grown
<1>2. IsFiniteSet(Chats)
  BY RetentionAssumption
<1> HIDE DEF g
<1>3. Sum(g, Chats) = Sum(f, Chats) - f[c] + g[c]
  BY <1>1, <1>2, SumUpdate
<1>4. Sum(f, Chats) \in Nat
  BY <1>2, SumNat
<1>5. Sum(g, Chats) = Sum(f, Chats) + n
  BY <1>1, <1>3, <1>4
<1> QED  BY <1>5, MeasuredIsSum DEF g

LEMMA CapacityInit == Init => UnderCapacity
<1> SUFFICES ASSUME Init
             PROVE  UnderCapacity
  OBVIOUS
<1>1. IsFiniteSet(Chats) /\ \A c \in Chats : rows[c] = 0
  BY RetentionAssumption DEF Init
<1>2. Measured(rows) = 0
  BY <1>1, SumZero, MeasuredIsSum
<1> QED  BY <1>2, RetentionAssumption DEF UnderCapacity, used

\* A write that fits adds to the rows what it was measured to add, and what a
\* cleanup leaves is no more than the target.
LEMMA CapacityStep == FInv /\ UnderCapacity /\ [Next]_vars => UnderCapacity'
<1> SUFFICES ASSUME FInv, UnderCapacity, [Next]_vars
             PROVE  UnderCapacity'
  OBVIOUS
<1> USE DEF UnderCapacity, used
<1>0. TypeOK /\ rows \in [Chats -> Nat] /\ Measured(rows) \in Nat /\ Capacity \in Nat
      /\ Target \in Nat /\ Target < Capacity
  BY MeasuredNat, RetentionAssumption DEF FInv, TypeOK
<1>1. ASSUME NEW w \in Writers, Writes(w) \/ WritesAfterAll(w)
      PROVE  UnderCapacity'
  <2>1. job[w].pc # "rest" /\ Commit(w, rows) /\ ~(Measured(rows) + Adds(job[w]) >= Capacity)
    BY <1>1, <1>0, AddsType DEF Writes, WritesAfterAll, StillOver
  <2>2. Adds(job[w]) \in Nat /\ job[w].chat \in Chats
    BY <1>0, <2>1, AddsType
  <2>3. rows' = Grown(rows, job[w].chat, Adds(job[w]))
    BY <2>1 DEF Commit, Stored
  <2>4. Measured(rows') = Measured(rows) + Adds(job[w])
    BY <1>0, <2>2, <2>3, GrownMeasures
  <2> QED  BY <1>0, <2>1, <2>2, <2>4
<1>2. ASSUME NEW w \in Writers, Removes(w)
      PROVE  UnderCapacity'
  <2>1. /\ job[w].pc = "decide" /\ Commit(w, Emptied(job[w]))
        /\ Measured(Stored(Emptied(job[w]), job[w])) <= Target
    BY <1>2 DEF Removes, Low, Left
  <2>2. rows' = Stored(Emptied(job[w]), job[w])
    BY <2>1 DEF Commit
  <2>3. rows' \in [Chats -> Nat]
    BY <1>0, <2>1, CommitKeeps DEF Emptied
  <2>4. Measured(rows') \in Nat /\ Measured(rows') <= Target
    BY <2>1, <2>2, <2>3, MeasuredNat
  <2> QED  BY <1>0, <2>4
<1>3. ASSUME NEW c \in Chats, NEW n \in Sizes, BulkWrites(c, n)
      PROVE  UnderCapacity'
  <2>1. n \in Nat
    BY RetentionAssumption
  <2>2. Measured(rows') = Measured(rows) + n
    BY <1>0, <1>3, <2>1, GrownMeasures DEF BulkWrites
  <2> QED  BY <1>3, <2>2 DEF BulkWrites
<1>4. ASSUME NEW c \in Chats, Purges(c)
      PROVE  UnderCapacity'
  <2>1. IsFiniteSet(Chats)
    BY RetentionAssumption
  <2>2. /\ rows' \in [Chats -> Nat] /\ rows'[c] = 0
        /\ \A d \in Chats \ {c} : rows'[d] = rows[d]
    BY <1>0, <1>4 DEF Purges
  <2>3. Sum(rows', Chats) = Sum(rows, Chats) - rows[c] + rows'[c]
    BY <1>0, <2>1, <2>2, SumUpdate
  <2>4. Measured(rows') = Measured(rows) - rows[c] /\ rows[c] \in Nat
    BY <1>0, <2>2, <2>3, MeasuredIsSum
  <2> QED  BY <1>0, <2>4
<1>5. CASE UNCHANGED rows
  BY <1>5
<1>6. ASSUME NEW w \in Writers, Write(w)
      PROVE  UnderCapacity'
  <2>1. CASE \/ Probes(w) \/ Declines(w) \/ Plans(w) \/ CannotPlan(w) \/ BacksUp(w)
             \/ BackupFails(w) \/ DecisionFails(w)
    BY <2>1, <1>5 DEF Probes, Declines, Plans, CannotPlan, BacksUp, BackupFails,
                      DecisionFails, Deferred
  <2> QED  BY <1>6, <2>1, <1>1, <1>2 DEF Write
<1>7. CASE \/ \E w \in Writers, c \in Chats, kind \in Kinds, n \in Sizes : Starts(w, c, kind, n)
           \/ \E w \in Writers : Crashes(w)
           \/ \E c \in Chats : Ages(c) \/ Unsettles(c) \/ Settles(c)
           \/ Waited \/ UNCHANGED vars
  BY <1>7, <1>5 DEF Starts, Crashes, Ages, Unsettles, Settles, Waited, vars
<1> QED  BY <1>3, <1>4, <1>6, <1>7 DEF Next

\* Live memory stays under its fixed capacity at every moment, whatever writes,
\* cleanups and bulk operations of several processes fall between each other's
\* steps: a write commits only when it fits, or together with a removal that
\* leaves no more than the target.
THEOREM UnderCapacityHolds == Spec => []UnderCapacity
BY RetentionInit, RetentionStep, CapacityInit, CapacityStep, PTL DEF Spec

----------------------------------------------------------------------------
\* What chats are removed for.

\* A write that adds something is of a chat that is neither removed nor purged:
\* a turn is refused there, and nothing derived is left to be added to.
LEMMA AddingIsToLive ==
    ASSUME NEW w \in Writers, FInv, job[w].pc # "rest", Adds(job[w]) # 0
    PROVE  job[w].chat \notin Frozen
<1>1. CASE job[w].kind = "turn"
  BY <1>1 DEF Adds
<1>2. CASE job[w].kind # "turn"
  <2>1. rows[job[w].chat] # 0
    BY <1>2 DEF Adds
  <2> QED  BY <2>1 DEF FInv, FrozenStaysEmpty
<1> QED  BY <1>1, <1>2

\* Without the removal the same step would have left Stored(rows, job[w]): what
\* is removed now held what it holds, and what was removed before held nothing.
LEMMA KeptIsStored ==
    ASSUME NEW w \in Writers, FInv, Removes(w)
    PROVE  Kept = Stored(rows, job[w])
<1> DEFINE j == job[w]
           f == Emptied(j)
           units == DOMAIN j.units
<1>1. /\ j.pc = "decide" /\ Unchanged(j) /\ Commit(w, f)
      /\ removed' = removed \cup units
  BY DEF Removes
<1>2. rows \in [Chats -> Nat] /\ units \subseteq Chats /\ removed \subseteq Chats
  BY <1>1 DEF FInv, TypeOK, JobTypeOK
<1>3. f \in [Chats -> Nat] /\ \A c \in Chats : f[c] = IF c \in units THEN 0 ELSE rows[c]
  BY <1>2 DEF Emptied
<1>4. Adds(j) \in Nat /\ j.chat \in Chats /\ j.chat \notin units
  BY <1>1, AddsType, TriggerKept DEF FInv
<1>5. rows' = Grown(f, j.chat, Adds(j))
  BY <1>1 DEF Commit, Stored
<1>6. Stored(rows, j) = Grown(rows, j.chat, Adds(j))
  BY DEF Stored
<1> HIDE DEF f, units
<1>7. ASSUME NEW c \in Chats
      PROVE  Grown(rows, j.chat, Adds(j))[c] = IF c \in removed' \ removed THEN rows[c] ELSE rows'[c]
  <2>1. CASE c \in removed' \ removed
    <3>1. c # j.chat
      BY <2>1, <1>1, <1>4
    <3> QED  BY <2>1, <3>1, <1>2 DEF Grown
  <2>2. CASE c \notin units
    <3>1. c \notin removed' \ removed /\ f[c] = rows[c]
      BY <2>2, <1>1, <1>3
    <3> QED  BY <3>1, <1>2, <1>3, <1>4, <1>5 DEF Grown
  <2>3. CASE c \in units /\ c \in removed
    <3>1. rows[c] = 0 /\ f[c] = 0 /\ c # j.chat
      BY <2>3, <1>3, <1>4 DEF FInv, FrozenStaysEmpty, Frozen
    <3> QED  BY <2>3, <3>1, <1>2, <1>3, <1>5 DEF Grown
  <2> QED  BY <2>1, <2>2, <2>3, <1>1
<1>8. Grown(rows, j.chat, Adds(j)) = [c \in Chats |-> Grown(rows, j.chat, Adds(j))[c]]
  BY <1>2 DEF Grown
<1> QED  BY <1>6, <1>7, <1>8 DEF Kept

LEMMA RemovalIsForAWrite ==
    ASSUME NEW w \in Writers, FInv, UnderCapacity, Removes(w)
    PROVE  /\ \E c \in Chats \ (removed' \cup purged') : rows'[c] > rows[c]
           /\ Measured(Kept) >= Capacity
<1> DEFINE j == job[w]
           f == Emptied(j)
<1>1. /\ j.pc = "decide" /\ Unchanged(j) /\ StillOver(j) /\ Commit(w, f)
      /\ removed' = removed \cup DOMAIN j.units /\ purged' = purged
  BY DEF Removes
<1>2. rows \in [Chats -> Nat] /\ Measured(rows) \in Nat /\ Capacity \in Nat
  BY MeasuredNat, RetentionAssumption DEF FInv, TypeOK
<1>3. Adds(j) \in Nat /\ j.chat \in Chats /\ j.chat \notin DOMAIN j.units
  BY <1>1, AddsType, TriggerKept DEF FInv
<1>4. Measured(rows) + Adds(j) >= Capacity /\ Measured(rows) < Capacity
  BY <1>1 DEF StillOver, used, UnderCapacity
<1>5. Measured(Kept) >= Capacity
  <2>1. Kept = Grown(rows, j.chat, Adds(j))
    BY KeptIsStored DEF Stored
  <2> QED  BY <1>2, <1>3, <1>4, <2>1, GrownMeasures
<1>6. Adds(j) > 0
  BY <1>2, <1>3, <1>4
<1>7. j.chat \notin removed' \cup purged'
  BY <1>1, <1>3, <1>6, AddingIsToLive DEF Frozen
<1>8. rows'[j.chat] > rows[j.chat]
  <2>1. f \in [Chats -> Nat] /\ f[j.chat] = rows[j.chat]
    BY <1>2, <1>3 DEF Emptied
  <2>2. rows' = Grown(f, j.chat, Adds(j))
    BY <1>1 DEF Commit, Stored
  <2> HIDE DEF f
  <2>3. rows'[j.chat] = rows[j.chat] + Adds(j)
    BY <2>1, <2>2, <1>3 DEF Grown
  <2> QED  BY <1>2, <1>3, <1>6, <2>3
<1> QED  BY <1>3, <1>5, <1>7, <1>8

\* No chat is removed in vain: the step that removes chats stores something of a
\* chat that stays and that had no room beside them, whatever was freed, purged
\* or written between the plan and the decisive transaction.
THEOREM RemovesOnlyForAWriteHolds == Spec => RemovesOnlyForAWrite
<1> DEFINE Good == removed' # removed =>
                     /\ \E c \in Chats \ (removed' \cup purged') : rows'[c] > rows[c]
                     /\ Measured(Kept) >= Capacity
<1>1. FInv /\ UnderCapacity /\ [Next]_vars => [Good]_vars
  <2>1. CASE removed' = removed
    BY <2>1
  <2>2. ASSUME FInv, UnderCapacity, NEW w \in Writers, Removes(w)
        PROVE  Good
    BY <2>2, RemovalIsForAWrite
  <2> QED  BY <2>1, <2>2, OnlyRemovesRemoves
<1>2. RemovesOnlyForAWrite <=> [][Good]_vars
  BY DEF RemovesOnlyForAWrite
<1> QED  BY RetentionInit, RetentionStep, CapacityInit, CapacityStep, <1>1, <1>2, PTL DEF Spec
=============================================================================
