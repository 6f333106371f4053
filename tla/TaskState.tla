------------------------------- MODULE TaskState -------------------------------
(* What the agent says its task is, asked for by a hook and kept as a manifest  *)
(* (serving/task-state-*.ts, daemon/task-state-manifests.ts).  A hook issues a  *)
(* request with an injection; the chat answers it inside a turn; a recovery     *)
(* pass finds the answer in the transcript, proves every quote against retained *)
(* turns and publishes; a later hook of the chat delivers the newest manifest.  *)
(* One chat; all of it happens between awaited reads.                           *)
EXTENDS Naturals, Sequences, FiniteSets

CONSTANTS MaxTurns, MaxChanges \* bounds

VARIABLES
    source,     \* the transcript's turns: [ver, report], ver 1 a prefix, 2 the whole turn
    retained,   \* the version of each captured turn, in order
    generation, \* source_generations
    consent,    \* the decision that approves the checkout, 0 for none
    decisions,  \* decisions taken
    barred,     \* the chat is incognito, purged or retention-removed
    checkout,   \* the directory behind the path
    request,    \* the chat's row of task_state_requests
    issued,     \* requests issued
    issuing,    \* a hook's prepared request
    manifests,  \* task_state_manifests
    pass,       \* the daemon's recovery pass
    delivery,   \* a hook's prepared continuation
    delivered   \* what the last hook delivered, until the next one prepares

chatVars   == <<source, retained, generation, consent, decisions, barred, checkout>>
memoryVars == <<request, issued, issuing, manifests, pass>>
taskVars   == <<chatVars, memoryVars, delivery, delivered>>

\* What a bound counts: decisions, requests, directories, generations.
MayChange == decisions + issued + checkout + generation < MaxChanges

None == [kind |-> "none"] \* no row, nothing prepared

TaskInit ==
    /\ source = <<>> /\ retained = <<>> /\ generation = 0
    /\ consent = 1 /\ decisions = 1 /\ barred = FALSE /\ checkout = 0
    /\ request = None /\ issued = 0 /\ issuing = None
    /\ manifests = {} /\ pass = None
    /\ delivery = None /\ delivered = None

----------------------------------------------------------------------------
\* The chat.  A turn may carry the report of any request it has been shown.

TakesTurn(report) ==
    /\ Len(source) < MaxTurns
    /\ source' = Append(source, [ver |-> 1, report |-> report])
    /\ UNCHANGED <<retained, generation, consent, decisions, barred, checkout, memoryVars, delivery, delivered>>

ContinuesTurn(report) ==
    LET n == Len(source) IN
    /\ n > 0 /\ source[n].ver = 1
    /\ source[n].report \in {0, report}
    /\ source' = [source EXCEPT ![n] = [ver |-> 2, report |-> report]]
    /\ UNCHANGED <<retained, generation, consent, decisions, barred, checkout, memoryVars, delivery, delivered>>

\* Live capture, the trailing turn possibly only a prefix of what it becomes.
CapturesTurn ==
    /\ Len(retained) < Len(source) /\ consent # 0 /\ ~barred
    /\ retained' = Append(retained, source[Len(retained) + 1].ver)
    /\ UNCHANGED <<source, generation, consent, decisions, barred, checkout, memoryVars, delivery, delivered>>

\* `elepha reingest` and source reconciliation.
Reingests(i) ==
    /\ i \in DOMAIN retained /\ retained[i] # source[i].ver /\ ~barred
    /\ retained' = [retained EXCEPT ![i] = source[i].ver]
    /\ manifests' = {m \in manifests : m.turn # i}
    /\ UNCHANGED <<source, generation, consent, decisions, barred, checkout,
                   request, issued, issuing, pass, delivery, delivered>>

Retracts(from) ==
    /\ from \in 1..(Len(retained) + 1) /\ MayChange
    /\ consent # 0 /\ ~barred
    /\ retained' = SubSeq(retained, 1, from - 1)
    /\ generation' = generation + 1
    /\ manifests' = {m \in manifests : m.turn < from}
    /\ UNCHANGED <<source, consent, decisions, barred, checkout,
                   request, issued, issuing, pass, delivery, delivered>>

Revokes ==
    /\ consent # 0 /\ consent' = 0
    /\ UNCHANGED <<source, retained, generation, decisions, barred, checkout, memoryVars, delivery, delivered>>

Grants ==
    /\ MayChange
    /\ decisions' = decisions + 1 /\ consent' = decisions + 1
    /\ UNCHANGED <<source, retained, generation, barred, checkout, memoryVars, delivery, delivered>>

Bars ==
    /\ ~barred /\ barred' = TRUE
    /\ manifests' = {}
    /\ UNCHANGED <<source, retained, generation, consent, decisions, checkout,
                   request, issued, issuing, pass, delivery, delivered>>

SwapsCheckout ==
    /\ MayChange /\ checkout' = checkout + 1
    /\ UNCHANGED <<source, retained, generation, consent, decisions, barred, memoryVars, delivery, delivered>>

----------------------------------------------------------------------------
\* A hook first authenticates the chat: its approved checkout, its transcript and
\* the last turn retained of it, all of which must be the same when it writes.

Chat == [consent |-> consent, checkout |-> checkout, source |-> source, last |-> Len(retained)]

Authentic == consent # 0 /\ ~barred

ChatCurrent(chat) == Authentic /\ chat = Chat

\* It asks for a report unless a request still stands.

ApprovedIsEnough(r, physical) ==
    r # None /\ ~barred /\ consent # 0 /\ ~r.consumed /\ r.checkout = physical /\ r.generation = generation

Stands(r, physical) ==
    /\ r # None /\ ~barred /\ consent # 0
    /\ ~r.consumed
    /\ r.consent = consent /\ r.checkout = physical /\ r.generation = generation

PreparesRequest ==
    /\ issuing = None /\ Authentic /\ MayChange
    /\ ~Stands(request, checkout)
    /\ issuing' = Chat
    /\ UNCHANGED <<chatVars, request, issued, manifests, pass, delivery, delivered>>

IssuesRequest ==
    /\ issuing # None /\ MayChange
    /\ ChatCurrent(issuing)
    /\ ~Stands(request, issuing.checkout)
    /\ issued' = issued + 1
    /\ request' = [id |-> issued + 1, after |-> Len(retained), consumed |-> FALSE, consent |-> consent,
                   checkout |-> issuing.checkout, generation |-> generation]
    /\ issuing' = None
    /\ UNCHANGED <<chatVars, manifests, pass, delivery, delivered>>

GivesUpRequest ==
    /\ issuing # None /\ issuing' = None
    /\ UNCHANGED <<chatVars, request, issued, manifests, pass, delivery, delivered>>

----------------------------------------------------------------------------
\* The recovery pass: one at a time, on the work queue.

Pending ==
    /\ request # None /\ ~request.consumed
    /\ \E i \in DOMAIN retained : i > request.after /\ ~\E m \in manifests : m.turn = i

Reporting(r) == {i \in DOMAIN source : i > r.after /\ source[i].report = r.id}

\* Reads the transcript up to the first turn that answers the request.
FindsReport ==
    /\ pass = None /\ Pending
    /\ \E i \in Reporting(request) :
        /\ \A j \in Reporting(request) : i <= j
        /\ i <= Len(retained)
        /\ pass' = [turn |-> i, ver |-> source[i].ver, request |-> request.id, manifest |-> None]
    /\ UNCHANGED <<chatVars, request, issued, issuing, manifests, delivery, delivered>>

\* What the answered turn and its request must be, before each awaited read and
\* again in the transaction that publishes.
Answers   == request.id = pass.request /\ pass.turn > request.after /\ Stands(request, checkout)
Unmoved   == source[pass.turn].ver = pass.ver
Covered   == pass.turn \in DOMAIN retained /\ retained[pass.turn] = pass.ver
Verifying == pass # None /\ pass.manifest = None

\* Capture retained a prefix of the turn: it is completed first.
CompletesTurn ==
    /\ Verifying /\ pass.turn \in DOMAIN retained /\ ~Covered
    /\ Unmoved /\ Answers
    /\ retained' = [retained EXCEPT ![pass.turn] = pass.ver]
    /\ manifests' = {m \in manifests : m.turn # pass.turn}
    /\ UNCHANGED <<source, generation, consent, decisions, barred, checkout,
                   request, issued, issuing, pass, delivery, delivered>>

\* Every quote of the report is found in a retained turn up to the reporting one.
Provable(quoted) == quoted \subseteq 1..pass.turn

Evidence(quoted) ==
    [turn |-> pass.turn, request |-> pass.request, generation |-> generation,
     digests |-> [i \in quoted \union {pass.turn} |-> retained[i]],
     asked |-> request.consent, given |-> consent]

VerifiesReport(quoted) ==
    /\ Verifying /\ Covered /\ Answers /\ Provable(quoted)
    /\ pass' = [pass EXCEPT !.manifest = Evidence(quoted)]
    /\ UNCHANGED <<chatVars, request, issued, issuing, manifests, delivery, delivered>>

\* The rows the proof rests on are as they were.
SourcesCurrent(m) ==
    /\ m.generation = generation
    /\ \A i \in DOMAIN m.digests : i \in DOMAIN retained /\ retained[i] = m.digests[i]

\* One transaction repeats the checks, inserts the manifest and consumes the request.
ForgetsToConsume(r) == r

Consumed(r) == [r EXCEPT !.consumed = TRUE]

Stored(m) == manifests \union {[m EXCEPT !.given = consent]}

PublishesManifest ==
    LET m == pass.manifest IN
    /\ pass # None /\ m # None
    /\ Answers /\ Unmoved /\ Covered /\ SourcesCurrent(m)
    /\ ~\E n \in manifests : n.turn = m.turn
    /\ manifests' = Stored(m)
    /\ request' = Consumed(request)
    /\ pass' = None
    /\ UNCHANGED <<chatVars, issued, issuing, delivery, delivered>>

GivesUpPass ==
    /\ pass # None /\ pass' = None
    /\ UNCHANGED <<chatVars, request, issued, issuing, manifests, delivery, delivered>>

----------------------------------------------------------------------------
\* The hook of a resumed or compacted chat delivers the newest manifest, as the
\* current task when nothing followed it in the transcript.

Newest == {m \in manifests : \A n \in manifests : n.turn <= m.turn}

\* The rest of the transcript holds nothing of substance.
NothingFollows(m) == m.turn = Len(source) /\ source[m.turn].ver = m.digests[m.turn]

SelectsManifest ==
    /\ delivery = None /\ Authentic
    /\ \E m \in Newest :
        /\ SourcesCurrent(m)
        /\ delivery' = [manifest |-> m, chat |-> Chat, current |-> NothingFollows(m)]
    /\ delivered' = None
    /\ UNCHANGED <<chatVars, memoryVars>>

\* Checked again inside the injection's transaction.
SelectedAnyhow(d) == consent = d.chat.consent /\ ~barred

StillSelected(d) ==
    /\ ChatCurrent(d.chat)
    /\ d.manifest \in Newest /\ SourcesCurrent(d.manifest)

DeliversManifest ==
    /\ delivery # None /\ StillSelected(delivery)
    /\ delivered' = [manifest |-> delivery.manifest, current |-> delivery.current]
    /\ delivery' = None
    /\ UNCHANGED <<chatVars, memoryVars>>

GivesUpDelivery ==
    /\ delivery # None /\ delivery' = None
    /\ UNCHANGED <<chatVars, memoryVars, delivered>>

TaskNext ==
    \/ \E r \in 0..issued : TakesTurn(r) \/ ContinuesTurn(r)
    \/ CapturesTurn \/ Revokes \/ Grants \/ Bars \/ SwapsCheckout
    \/ \E i \in 1..(MaxTurns + 1) : Reingests(i) \/ Retracts(i)
    \/ PreparesRequest \/ IssuesRequest \/ GivesUpRequest
    \/ FindsReport \/ CompletesTurn \/ PublishesManifest \/ GivesUpPass
    \/ \E quoted \in SUBSET (1..MaxTurns) : VerifiesReport(quoted)
    \/ SelectsManifest \/ DeliversManifest \/ GivesUpDelivery

TaskSpec == TaskInit /\ [][TaskNext]_taskVars

----------------------------------------------------------------------------
\* A request is answered by one turn at most, whatever later turns repeat of its
\* report, and by none while it is open.
OneReportPerRequest ==
    \A m \in manifests :
        /\ \A n \in manifests : n.request = m.request => n = m
        /\ request # None /\ request.id = m.request => request.consumed

\* A consent given again does not revive a request made under the one withdrawn.
RegrantRevivesNothing ==
    \A m \in manifests : m.asked = m.given

\* What is delivered as the current task is the last thing the chat said, of
\* turns as they are retained, however long the hook read before it delivered.
CurrentMeansLatest ==
    [][delivered' \notin {None, delivered} /\ delivered'.current =>
          /\ delivered'.manifest.turn = Len(source)
          /\ delivered'.manifest \in manifests
          /\ \A i \in DOMAIN delivered'.manifest.digests : retained[i] = delivered'.manifest.digests[i]]_taskVars
=============================================================================
