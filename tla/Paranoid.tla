-------------------------------- MODULE Paranoid --------------------------------
(* The read gate of paranoid mode (storage/paranoid-gate.ts).  Two places hold *)
(* it, one row of the database and a signed file beside it, and reads are open *)
(* only while both say so.  `paranoid enable`, `unlock`, `lock`, `paranoid     *)
(* disable` (cli/commands/paranoid.ts) write one place after the other and may *)
(* stop between; every reader looks before and after it renders.  A process    *)
(* sees the two places at two moments.                                         *)
EXTENDS Naturals, Sequences

CONSTANTS
    Procs, Readers,   \* processes, and those that also read
    Phrases,          \* passphrases people type
    MaxOps, MaxStops  \* bounds

VARIABLES
    authority, \* the row of paranoid_authority
    file,      \* the gate file
    job,       \* what each process is doing
    answer,    \* what the last step answered a reader
    closed,    \* a lock returned, no passphrase was accepted since or is in use
    locks,     \* locks that returned
    ops, stops, earlier \* counted for the bounds; the last file replaced

paranoidVars == <<authority, file, job, answer, closed, locks, ops, stops, earlier>>

NoTag    == 0
Idle     == [op |-> "idle"]
Gate(mode, tag, phrase, epoch, state) ==
    [mode |-> mode, tag |-> tag, phrase |-> phrase, epoch |-> epoch, state |-> state,
     authentic |-> TRUE]
NoFile   == Gate("none", NoTag, 0, 0, "none")
Damaged  == [Gate("paranoid", NoTag, 0, 1, "locked") EXCEPT !.authentic = FALSE]

Row(enrolled, state, generation, tag) ==
    [enrolled |-> enrolled, state |-> state, generation |-> generation, tag |-> tag]
Pristine == Row(FALSE, "unlocked", 0, NoTag)
Quarantined == Row(TRUE, "locked", 0, NoTag)

----------------------------------------------------------------------------
\* When the two places agree.

RowFor(f) ==
    Row(f.mode = "paranoid", IF f.mode = "paranoid" THEN f.state ELSE "unlocked",
        f.epoch, f.tag)

FieldsMatch(a, f) == f # NoFile /\ f.authentic /\ a = [RowFor(f) EXCEPT !.tag = a.tag]
Matches(a, f)     == FieldsMatch(a, f) /\ a.tag = f.tag

Exact(a, f) == (a = Pristine /\ f = NoFile) \/ Matches(a, f)
Open(a, f)  == Exact(a, f) /\ a.state = "unlocked"

SameCredential(a, f) == f # NoFile /\ f.authentic /\ a.tag # NoTag /\ a.tag = f.tag

\* A lock that stopped after the row: only the file is missing.
LockPending(a, f) ==
    /\ SameCredential(a, f)
    /\ a.enrolled /\ a.state = "locked" /\ f.mode = "paranoid"
    /\ a.generation = f.epoch + 1

\* An unlock or a disable that stopped after the file: only the row is missing.
PermissivePending(a, f, mode) ==
    /\ SameCredential(a, f)
    /\ a.enrolled /\ f.mode = mode /\ f.state = "unlocked"
    /\ f.epoch = a.generation + 1

\* The reader's token against what it sees now.
UnlockedIsEnough(token, a) == token.enrolled = a.enrolled
SameGeneration(token, a) ==
    /\ token.enrolled = a.enrolled /\ token.generation = a.generation
    /\ token.tag = a.tag
Current(j, f) == Open(j.seen, f) /\ SameGeneration(j.token, j.seen)

ParanoidInit ==
    \* never enabled; of a version without the row; of one without its tag
    /\ \/ authority = Pristine
          /\ file \in {NoFile, Damaged, Gate("paranoid", 1, 1, 1, "locked"),
                       Gate("paranoid", 1, 1, 2, "unlocked")}
       \/ authority = Row(TRUE, "locked", 1, NoTag)
          /\ file = Gate("paranoid", 1, 1, 1, "locked")
    /\ job = [p \in Procs |-> Idle] /\ answer = "none"
    /\ closed = (file # NoFile /\ file.state = "locked")
    /\ locks = 0 /\ ops = 0 /\ stops = 0 /\ earlier = <<>>

----------------------------------------------------------------------------
\* A process looks at the row, then at the file.

Sees(p, from, to) ==
    /\ job[p].op # "idle" /\ job[p].stage = from
    /\ job' = [job EXCEPT ![p].stage = to, ![p].seen = authority]

Goes(p, stage) == job' = [job EXCEPT ![p].stage = stage]
Ends(p)        == job' = [job EXCEPT ![p] = Idle]

At(p, stage) == job[p].op # "idle" /\ job[p].stage = stage

\* The command has its passphrase from the terminal and opens the database.
\* A row with a tag has nothing left to take over, and keeps it.
Settled == authority # Pristine /\ authority.tag # NoTag

Types(p, op, phrase) ==
    /\ ops < MaxOps /\ job[p] = Idle /\ ops' = ops + 1
    /\ job' = [job EXCEPT ![p] = [op |-> op, phrase |-> phrase,
                                  stage |-> IF Settled THEN "deciding" ELSE "opening",
                                  seen |-> Pristine, file |-> NoFile, left |-> <<>>]]
    /\ answer' = "none"
    /\ UNCHANGED <<authority, file, closed, locks, stops, earlier>>

OpeningSeesRow(p) ==
    /\ Sees(p, "opening", "openingFile")
    /\ UNCHANGED <<authority, file, answer, closed, locks, ops, stops, earlier>>

\* What a database without a row of its own takes over from the file.
Adopted(f) == IF f.authentic THEN RowFor(f) ELSE Quarantined

MayTag(a, f) == a # Pristine /\ a.tag = NoTag /\ FieldsMatch(a, f)

OpeningSeesFile(p) ==
    /\ At(p, "openingFile")
    /\ job' = [job EXCEPT ![p].stage = "adopting", ![p].file = file]
    /\ UNCHANGED <<authority, file, answer, closed, locks, ops, stops, earlier>>

\* Its own statement: the row must still be what was seen.
Adopts(p) ==
    /\ At(p, "adopting") /\ Goes(p, "deciding")
    /\ authority' = CASE job[p].seen = Pristine /\ job[p].file # NoFile
                            /\ authority = Pristine -> Adopted(job[p].file)
                      [] MayTag(job[p].seen, job[p].file) /\ authority = job[p].seen ->
                            [authority EXCEPT !.tag = job[p].file.tag]
                      [] OTHER -> authority
    /\ UNCHANGED <<file, answer, closed, locks, ops, stops, earlier>>

DecidingSeesRow(p) ==
    /\ Sees(p, "deciding", "decidingFile")
    /\ UNCHANGED <<authority, file, answer, closed, locks, ops, stops, earlier>>

----------------------------------------------------------------------------
\* The decision of each command, on the row it saw and the file as it is.

Restrictive == <<"row", "file">>
Permissive  == <<"file", "row">>

Next_(a) == a.generation + 1

Plans(p, payload, writes) ==
    job' = [job EXCEPT ![p].stage = "writing", ![p].file = payload, ![p].left = writes]

Enrolled(p) == job[p].seen.enrolled /\ file # NoFile /\ file.mode = "paranoid"
Knows(p)    == file.phrase = job[p].phrase

Enables(p) ==
    /\ Exact(job[p].seen, file) /\ ~job[p].seen.enrolled
    /\ LET generation == Next_(job[p].seen)
       IN Plans(p, Gate("paranoid", generation, job[p].phrase, generation, "locked"),
                Restrictive)
    /\ UNCHANGED closed

Unlocks(p) ==
    /\ Knows(p) /\ closed' = FALSE
    /\ \/ Exact(job[p].seen, file) /\ Enrolled(p)
          /\ Plans(p, [file EXCEPT !.epoch = Next_(job[p].seen), !.state = "unlocked"],
                   Permissive)
       \/ PermissivePending(job[p].seen, file, "paranoid") /\ Plans(p, file, <<"row">>)

Locks(p) ==
    /\ \/ Exact(job[p].seen, file) /\ Enrolled(p)
          /\ Plans(p, [file EXCEPT !.epoch = Next_(job[p].seen), !.state = "locked"],
                   Restrictive)
       \/ LockPending(job[p].seen, file)
          /\ Plans(p, [file EXCEPT !.epoch = job[p].seen.generation, !.state = "locked"],
                   <<"file">>)
    /\ UNCHANGED closed

Disables(p) ==
    /\ Knows(p) /\ closed' = FALSE
    /\ \/ Exact(job[p].seen, file) /\ Enrolled(p)
          /\ Plans(p, [file EXCEPT !.mode = "default", !.epoch = Next_(job[p].seen),
                                   !.state = "unlocked"], Permissive)
       \/ PermissivePending(job[p].seen, file, "default") /\ Plans(p, file, <<"row">>)

\* What the command does not go on with: another agreement, another passphrase,
\* a mode that is not on.
Refused(p) ==
    LET a == job[p].seen
        agreed == \/ Exact(a, file)
                  \/ job[p].op = "lock" /\ LockPending(a, file)
                  \/ job[p].op = "unlock" /\ PermissivePending(a, file, "paranoid")
                  \/ job[p].op = "disable" /\ PermissivePending(a, file, "default")
    IN \/ ~agreed
       \/ job[p].op = "enable" /\ a.enrolled
       \/ job[p].op # "enable" /\ ~a.enrolled
       \/ job[p].op \in {"unlock", "disable"} /\ file # NoFile /\ ~Knows(p)

Decides(p) ==
    /\ At(p, "decidingFile")
    /\ \/ job[p].op = "enable"  /\ Enables(p)
       \/ job[p].op = "unlock"  /\ Unlocks(p)
       \/ job[p].op = "lock"    /\ Locks(p)
       \/ job[p].op = "disable" /\ Disables(p)
       \/ Refused(p) /\ Ends(p) /\ UNCHANGED closed
    /\ UNCHANGED <<authority, file, answer, locks, ops, stops, earlier>>

Opens == \E q \in Procs : At(q, "writing") /\ job[q].op \in {"unlock", "disable"}

\* A lock returns with the row locked, unless it only finished the file of
\* another lock and memory was unlocked in the meantime.
Locked(p) == job[p].op \in {"enable", "lock"} /\ authority.state = "locked"

\* The last write made, the command returns.
Returns(p) ==
    IF Len(job[p].left) > 1
    THEN /\ job' = [job EXCEPT ![p].left = Tail(@)] /\ UNCHANGED <<closed, locks>>
    ELSE /\ Ends(p)
         /\ closed' = (closed \/ (Locked(p) /\ ~Opens))
         /\ locks' = IF Locked(p) THEN locks + 1 ELSE locks

\* Compare and swap: the row must be the one the command saw.
Unmoved(p) == authority = job[p].seen

WritesRow(p) ==
    /\ At(p, "writing") /\ Head(job[p].left) = "row"
    /\ IF Unmoved(p)
       THEN authority' = RowFor(job[p].file) /\ Returns(p)
       ELSE Ends(p) /\ UNCHANGED <<authority, closed, locks>>
    /\ UNCHANGED <<file, answer, ops, stops, earlier>>

WritesFile(p) ==
    /\ At(p, "writing") /\ Head(job[p].left) = "file"
    /\ file' = job[p].file /\ earlier' = <<file>> /\ Returns(p)
    /\ UNCHANGED <<authority, answer, ops, stops>>

----------------------------------------------------------------------------
\* A reader: a token, the rendering, the same look again, the answer.

Begins(p) ==
    /\ ops < MaxOps /\ job[p] = Idle /\ ops' = ops + 1 /\ answer' = "none"
    /\ job' = [job EXCEPT ![p] = [op |-> "read", stage |-> "begin", seen |-> Pristine,
                                  token |-> Pristine, since |-> 0, late |-> FALSE]]
    /\ UNCHANGED <<authority, file, closed, locks, stops, earlier>>

ReaderSeesRow(p) ==
    /\ At(p, "begin")
    /\ job' = [job EXCEPT ![p].stage = "beginFile", ![p].seen = authority,
                          ![p].since = locks]
    /\ UNCHANGED <<authority, file, answer, closed, locks, ops, stops, earlier>>

TakesToken(p) ==
    /\ At(p, "beginFile")
    /\ IF Open(job[p].seen, file)
       THEN /\ job' = [job EXCEPT ![p].stage = "rendering", ![p].token = job[p].seen]
            /\ UNCHANGED answer
       ELSE Ends(p) /\ answer' = "locked"
    /\ UNCHANGED <<authority, file, closed, locks, ops, stops, earlier>>

\* What is late: a lock has returned since it began, and holds when it looks again.
Renders(p) ==
    /\ At(p, "rendering")
    /\ job' = [job EXCEPT ![p].stage = "checking", ![p].seen = authority,
                          ![p].late = closed \/ locks # job[p].since]
    /\ UNCHANGED <<authority, file, answer, closed, locks, ops, stops, earlier>>

Answers(p) ==
    /\ At(p, "checking")
    /\ \/ Current(job[p], file) /\ Ends(p) /\ answer' = "content"
       \/ ~Current(job[p], file) /\ Ends(p) /\ answer' = "locked"
       \/ Current(job[p], file) /\ Goes(p, "committing") /\ UNCHANGED answer
    /\ UNCHANGED <<authority, file, closed, locks, ops, stops, earlier>>

\* A reader that also writes asks the row once more in its transaction.
RowStillAllows(j) == authority.state = "unlocked" /\ SameGeneration(j.token, authority)

Commits(p) ==
    /\ At(p, "committing") /\ Ends(p)
    /\ answer' = IF RowStillAllows(job[p]) THEN "content" ELSE "locked"
    /\ UNCHANGED <<authority, file, closed, locks, ops, stops, earlier>>

----------------------------------------------------------------------------
\* A process is killed; between commands an earlier file is put back, or none.

Stops(p) ==
    /\ stops < MaxStops /\ job[p] # Idle /\ stops' = stops + 1 /\ Ends(p)
    /\ answer' = "none"
    /\ UNCHANGED <<authority, file, closed, locks, ops, earlier>>

FileReturns ==
    /\ stops < MaxStops /\ authority # Pristine /\ \A p \in Procs : job[p] = Idle
    /\ \E f \in {NoFile} \union {earlier[k] : k \in DOMAIN earlier} : file # f /\ file' = f
    /\ stops' = stops + 1 /\ answer' = "none"
    /\ UNCHANGED <<authority, job, closed, locks, ops, earlier>>

ParanoidNext ==
    \/ \E p \in Procs :
          \/ \E op \in {"enable", "unlock", "disable"}, w \in Phrases : Types(p, op, w)
          \/ Types(p, "lock", 0)
          \/ OpeningSeesRow(p) \/ OpeningSeesFile(p) \/ Adopts(p)
          \/ DecidingSeesRow(p) \/ Decides(p) \/ WritesRow(p) \/ WritesFile(p)
          \/ p \in Readers /\ Begins(p)
          \/ ReaderSeesRow(p) \/ TakesToken(p)
          \/ Renders(p) \/ Answers(p) \/ Commits(p) \/ Stops(p)
    \/ FileReturns

----------------------------------------------------------------------------
\* Once a lock has returned and left the row locked, nothing is served until a
\* passphrase is accepted, and nothing that began before it is served after it,
\* not even when memory has been unlocked again in between.  A reader looks at the
\* row and then at the file, and what happens between the two looks comes too late
\* for it: it is held to its last look at the row, and to the answer as well if the
\* row is still the same then.
ServesOpen ==
    answer' = "content" /\ job' # job =>
        \A p \in Procs : job[p].op = "read" /\ job'[p] = Idle =>
            /\ ~job[p].late
            /\ authority = job[p].seen => ~closed /\ job[p].since = locks
ServedWhileOpen == [][ServesOpen]_paranoidVars

=============================================================================
