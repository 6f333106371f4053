--------------------------------- MODULE Setup ---------------------------------
(* Applying an onboarding (cli/init.ts, cli/init-apply.ts,                      *)
(* config/init-apply-journal.ts).  `elepha init` reviews settings and consent,  *)
(* writes config.json first and commits the consent rows last, and a journal    *)
(* beside config.json lets the next run resolve what an interruption left.      *)
(* Other commands decide about consent and settings meanwhile.                  *)
EXTENDS Naturals, FiniteSets, Functions

CONSTANTS
    Setups,      \* processes that run elepha init
    Commands,    \* processes that run elepha consent or elepha config
    Projects,    \* project roots, all of them inside of Folder
    Old,         \* those captured before there was consent
    Modes,       \* "folder", "individual": how roots are selected
    Searches,    \* "on", "off", or "unasked" by elepha consent
    Tools,       \* the capture settings of the tools that are detected
    MaxApplies,  \* bound: journals that are published
    MaxChanges,  \* bound: changes by the user and the system
    MaxStops     \* bound: processes that are killed

VARIABLES
    settings,  \* key -> [value, by]: config.json, and who changed the key last
    consent,   \* root -> [state, source, at, by]: its row of consent_roots
    place,     \* root -> the directory its path names, 0 for none
    broken,    \* config.json cannot be written
    journal,   \* init-apply.json
    latest,    \* what the journal published last is about, and if it was left as an overlap
    setup,     \* what a process that runs elepha init is doing
    command,   \* commands that found no journal and have not written yet
    changes, stops

worldVars == <<place, broken>>
boundVars == <<changes, stops>>
setupVars == <<settings, consent, worldVars, journal, latest, setup, command, boundVars>>

Folder == "folder"
Search == "memory-plus"
Roots  == Projects \union {Folder}
Keys   == Tools \union {Search}

NoRow     == [state |-> "none", source |-> "none", at |-> 0, by |-> "before"]
NoPlan    == [settings |-> <<>>, grants |-> {}, revokes |-> {}, places |-> <<>>, prepare |-> FALSE]
Idle      == [step |-> "idle", plan |-> NoPlan, seen |-> <<>>, since |-> 0, held |-> <<>>, import |-> {}]
NoJournal == [owner |-> "none", id |-> 0, plan |-> NoPlan, previous |-> <<>>, rows |-> <<>>]

\* Projects that were captured before there was consent start approved.
Grandfathered == [NoRow EXCEPT !.state = "approved", !.source = "grandfathered"]

SetupInit ==
    /\ settings = [k \in Keys |-> [value |-> "default", by |-> "before"]]
    /\ consent = [r \in Roots |-> IF r \in Old THEN Grandfathered ELSE NoRow]
    /\ place = [r \in Roots |-> 1] /\ broken = FALSE
    /\ journal = NoJournal /\ latest = [id |-> 0, keys |-> {}, roots |-> {}, overlaps |-> FALSE]
    /\ setup = [p \in Setups |-> Idle] /\ command = {}
    /\ changes = 0 /\ stops = 0

----------------------------------------------------------------------------
\* Consent: the closest decision counts, and a pending row is none.

Covers(a, r)  == a = r \/ a = Folder
Explicit(r)   == consent[r].state \in {"approved", "denied"}
State(r)      == IF Explicit(r) THEN consent[r].state
                 ELSE IF Explicit(Folder) THEN consent[Folder].state ELSE "pending"
Approved      == {r \in Roots : consent[r].state = "approved"}
Decided(state, by) ==
    [state |-> state, source |-> "cli", at |-> changes + 1, by |-> by]

\* Settings: what is not configured has its default; some tool stays captured.

Value(s, k)    == IF s[k] # "default" THEN s[k] ELSE IF k = Search THEN "off" ELSE "on"
Values         == [k \in Keys |-> settings[k].value]
Capturing(s)   == \E k \in Tools : Value(s, k) = "on"
Merged(update) == [k \in Keys |-> IF k \in DOMAIN update THEN update[k] ELSE Values[k]]
Writable(update) == ~broken /\ Capturing(Merged(update))

SetSettings(update, who) ==
    settings' = [k \in Keys |-> IF Merged(update)[k] = Values[k] THEN settings[k]
                                ELSE [value |-> update[k], by |-> who]]

\* What a preview pins.  The daemon records pending roots at any time.
ConsentFingerprint  == [r \in {s \in Roots : Explicit(s)} |-> [consent[r] EXCEPT !.by = "any"]]
SettingsFingerprint == [k \in Keys |-> <<Value(Values, k), Values[k] = "default">>]
PreviewState        == <<SettingsFingerprint, ConsentFingerprint>>

----------------------------------------------------------------------------
\* The review.  Apply refuses a plan unless consent and settings are what they
\* were at the first prompt, so what the prompts read in between is one state.

Candidates(mode) == IF mode = "folder" THEN {Folder} ELSE Projects

IsApproved(mode, r) ==
    \/ State(r) = "approved"
    \/ mode = "folder" /\ \A q \in Projects : State(q) = "approved"

Grants(mode, selected) == {r \in selected : ~IsApproved(mode, r)}

\* An individual selection is the whole list: a wider approval yields to it.
Paused(mode, selected) ==
    LET dropped == {r \in Candidates(mode) \ selected : IsApproved(mode, r)}
        inside  == {r \in Approved : \E d \in dropped : Covers(d, r)}
        wider   == {r \in Approved \ selected : mode = "individual" /\ r = Folder}
    IN (dropped \union inside \union wider) \ Grants(mode, selected)

\* Detected tools are written as selected, the search mode if it was asked for.
Targets(tools, search) ==
    LET t == [k \in Tools \union (IF search = "unasked" THEN {} ELSE {Search}) |->
                IF k = Search THEN search ELSE IF k \in tools THEN "on" ELSE "off"]
        isNew(k) == Value(Values, k) # t[k] \/ (k = Search /\ Values[k] = "default")
    IN IF \E k \in DOMAIN t : isNew(k) THEN t ELSE <<>>

Plan(mode, selected, tools, search) ==
    LET g == Grants(mode, selected)
        r == Paused(mode, selected)
    IN [settings |-> Targets(tools, search), grants |-> g, revokes |-> r,
        places |-> [x \in g \union r |-> place[x]],
        prepare |-> search = "on" /\ Value(Values, Search) = "off"]

IsEmptyPlan(plan) == DOMAIN plan.settings = {} /\ plan.grants = {} /\ plan.revokes = {}
Named(plan)       == plan.grants \union plan.revokes

\* With a journal there is no review.
Reviews(p, mode, selected, tools, search) ==
    LET plan == Plan(mode, selected, tools, search) IN
    /\ setup[p].step = "idle" /\ journal = NoJournal
    /\ latest.id < MaxApplies
    /\ selected \subseteq Candidates(mode) /\ tools \in SUBSET Tools \ {{}}
    /\ ~IsEmptyPlan(plan)
    /\ setup' = [setup EXCEPT ![p] = [Idle EXCEPT !.step = "reviewed", !.plan = plan,
                                                  !.seen = PreviewState, !.since = changes]]
    /\ UNCHANGED <<settings, consent, worldVars, journal, latest, command, boundVars>>

----------------------------------------------------------------------------
\* applyInitPlan.

Goes(p, step)      == setup' = [setup EXCEPT ![p].step = step]
Stops(p)           == setup' = [setup EXCEPT ![p] = Idle]
StateIsFresh(p)    == setup[p].seen = PreviewState
RootsUnchanged(p)  == \A r \in Named(setup[p].plan) : place[r] = setup[p].plan.places[r]
IsValid(p)         == Capturing(Merged(setup[p].plan.settings))
WritesSettings(p)  == DOMAIN setup[p].plan.settings # {}

Begins(p) ==
    /\ setup[p].step = "reviewed"
    /\ IF StateIsFresh(p) /\ RootsUnchanged(p) /\ (WritesSettings(p) => IsValid(p))
       THEN Goes(p, IF setup[p].plan.prepare THEN "preparing" ELSE "prepared")
       ELSE Stops(p)
    /\ UNCHANGED <<settings, consent, worldVars, journal, latest, command, boundVars>>

\* Minutes may pass until the model is there, or it cannot be had.
Prepares(p) ==
    /\ setup[p].step = "preparing"
    /\ \/ StateIsFresh(p) /\ RootsUnchanged(p) /\ Goes(p, "prepared")
       \/ Stops(p)
    /\ UNCHANGED <<settings, consent, worldVars, journal, latest, command, boundVars>>

NewJournal(p) ==
    LET plan == setup[p].plan
    IN [owner |-> p, id |-> latest.id + 1, plan |-> plan,
        previous |-> [k \in DOMAIN plan.settings |-> Values[k]],
        rows |-> [r \in Named(plan) |-> consent[r]]]

Captures(p) ==
    /\ setup[p].step = "prepared"
    /\ setup' = [setup EXCEPT ![p].step = "captured", ![p].held = NewJournal(p)]
    /\ UNCHANGED <<settings, consent, worldVars, journal, latest, command, boundVars>>

\* A key that was changed and changed back between capture and publication is
\* left out: what was captured of it is stale, and undoing puts that back.  No number
\* is given twice (the code takes a random operation id).
About(j) ==
    [id |-> IF j.id > latest.id THEN j.id ELSE latest.id,
     roots |-> DOMAIN j.rows, overlaps |-> FALSE,
     keys |-> {k \in DOMAIN j.previous : j.previous[k] = Values[k] /\ Values[k] # j.plan.settings[k]}]

\* From here on `by` tells who changed what since this apply began.
Publishes(p) ==
    /\ setup[p].step = "captured"
    /\ IF journal # NoJournal
       THEN Stops(p) /\ UNCHANGED <<journal, latest, settings, consent>>
       ELSE /\ Goes(p, "published")
            /\ journal' = setup[p].held /\ latest' = About(setup[p].held)
            /\ settings' = [k \in Keys |-> [settings[k] EXCEPT !.by = "before"]]
            /\ consent' = [r \in Roots |-> [consent[r] EXCEPT !.by = "before"]]
    /\ UNCHANGED <<worldVars, command, boundVars>>

\* Only the journal that is held is removed.
Releases(j) == journal' = IF journal = j THEN NoJournal ELSE journal

\* A command that found no journal may have written before it was published.
Rechecks(p) ==
    /\ setup[p].step = "published"
    /\ IF StateIsFresh(p) THEN Goes(p, "fresh") /\ journal' = journal
       ELSE Stops(p) /\ Releases(setup[p].held)
    /\ UNCHANGED <<settings, consent, worldVars, latest, command, boundVars>>

\* Only keys that still hold the target go back.
Own(j)    == {k \in DOMAIN j.previous : Values[k] # j.previous[k] /\ Values[k] = j.plan.settings[k]}
Revert(j) == [k \in Own(j) |-> j.previous[k]]

RevertOwnSettings(j) ==
    \/ Own(j) = {} /\ UNCHANGED settings
    \/ Own(j) # {} /\ Writable(Revert(j)) /\ SetSettings(Revert(j), "before")

CannotRevert(j) == Own(j) # {} /\ ~Writable(Revert(j))

\* If its own write cannot be taken back the journal stays.
Undo(p) ==
    \/ RevertOwnSettings(journal) /\ Goes(p, "undone")
    \/ CannotRevert(journal) /\ Stops(p) /\ UNCHANGED settings

WritesConfig(p) ==
    /\ setup[p].step = "fresh"
    /\ IF ~WritesSettings(p) THEN Goes(p, "written") /\ UNCHANGED settings
       ELSE IF ~Writable(setup[p].plan.settings) THEN Undo(p)
       ELSE Goes(p, "written") /\ SetSettings(setup[p].plan.settings, "apply")
    /\ UNCHANGED <<consent, worldVars, journal, latest, command, boundVars>>

ChecksRoots(p) ==
    /\ setup[p].step = "written"
    /\ IF RootsUnchanged(p) THEN Goes(p, "checked") /\ UNCHANGED settings ELSE Undo(p)
    /\ UNCHANGED <<consent, worldVars, journal, latest, command, boundVars>>

CommitsUnchecked(p) ==
    LET plan == setup[p].plan IN
    /\ setup[p].step = "checked" /\ Goes(p, "committed") /\ changes' = changes + 1
    /\ consent' = [r \in Roots |-> IF r \in plan.grants THEN Decided("approved", "apply")
                                   ELSE IF r \in plan.revokes THEN Decided("denied", "apply")
                                   ELSE consent[r]]
    /\ UNCHANGED <<settings, worldVars, journal, latest, command, stops>>

\* One transaction; the check that decides is inside of it.
Commits(p) ==
    LET plan == setup[p].plan IN
    /\ setup[p].step = "checked"
    /\ IF ConsentFingerprint # setup[p].seen[2] THEN Undo(p) /\ UNCHANGED consent
       ELSE /\ Goes(p, "committed") /\ UNCHANGED settings
            /\ consent' = [r \in Roots |-> IF r \in plan.grants THEN Decided("approved", "apply")
                                           ELSE IF r \in plan.revokes THEN Decided("denied", "apply")
                                           ELSE consent[r]]
    /\ changes' = changes + (IF consent' = consent THEN 0 ELSE 1)
    /\ UNCHANGED <<worldVars, journal, latest, command, stops>>

ReleasesUndone(p) ==
    /\ setup[p].step = "undone"
    /\ Releases(setup[p].held) /\ Stops(p)
    /\ UNCHANGED <<settings, consent, worldVars, latest, command, boundVars>>

\* A journal that cannot be removed is left to the next run.
ReleasesCommitted(p) ==
    /\ setup[p].step = "committed"
    /\ Releases(setup[p].held) \/ journal' = journal
    /\ setup' = [setup EXCEPT ![p] = [Idle EXCEPT !.step = "importing", !.import = setup[p].plan.grants]]
    /\ UNCHANGED <<settings, consent, worldVars, latest, command, boundVars>>

\* Backfill and service run after the commit; what fails is reported as a gap.
RunsPostCommitJobs(p) ==
    /\ setup[p].step = "importing" /\ Stops(p)
    /\ UNCHANGED <<settings, consent, worldVars, journal, latest, command, boundVars>>

----------------------------------------------------------------------------
\* recoverInterruptedInitApply, at the start of every elepha init.

OwnerIsLive == setup[journal.owner].step # "idle"
Target(r)   == IF r \in journal.plan.grants THEN "approved" ELSE "denied"

SameRow(r) == [consent[r] EXCEPT !.by = "any"] = [journal.rows[r] EXCEPT !.by = "any"]
Untouched  == {r \in DOMAIN journal.rows :
                 SameRow(r) \/ (journal.rows[r].state = "none" /\ consent[r].state = "pending")}
Committed  == {r \in DOMAIN journal.rows \ Untouched :
                 consent[r].state = Target(r) /\ consent[r].source = "cli"}
Overlaps   == \/ DOMAIN journal.rows \ (Untouched \union Committed) # {}
              \/ Committed # {} /\ Untouched # {}

\* Without consent changes the write of config.json is the commit point.
SettingsCommitted == \A k \in DOMAIN journal.previous : Values[k] = journal.plan.settings[k]

PlanCommitted ==
    IF DOMAIN journal.rows # {} THEN Committed = DOMAIN journal.rows
    ELSE SettingsCommitted

Recovers(p) == setup[p].step = "idle" /\ journal # NoJournal /\ ~OwnerIsLive

FindsConflict(p) ==
    /\ Recovers(p) /\ Overlaps
    /\ latest' = [latest EXCEPT !.overlaps = TRUE] /\ journal' = NoJournal
    /\ UNCHANGED <<settings, consent, worldVars, setup, command, boundVars>>

\* Only the directory that was confirmed is imported.
Confirmed == {r \in journal.plan.grants : journal.plan.places[r] # 0 /\ place[r] = journal.plan.places[r]}

FindsCommitted(p) ==
    /\ Recovers(p) /\ ~Overlaps /\ PlanCommitted
    /\ journal' = NoJournal
    /\ setup' = [setup EXCEPT ![p] = [Idle EXCEPT !.step = "importing", !.import = Confirmed]]
    /\ UNCHANGED <<settings, consent, worldVars, latest, command, boundVars>>

FindsUndone(p) ==
    /\ Recovers(p) /\ ~Overlaps /\ ~PlanCommitted
    /\ RevertOwnSettings(journal)
    /\ setup' = [setup EXCEPT ![p] = [Idle EXCEPT !.step = "undone", !.held = journal]]
    /\ UNCHANGED <<consent, worldVars, journal, latest, command, boundVars>>

----------------------------------------------------------------------------
\* Other commands.  They look for a journal, open the database, and then write.

Changed == changes < MaxChanges /\ changes' = changes + 1 /\ stops' = stops

ChecksForJournal(c) ==
    /\ c \notin command /\ journal = NoJournal /\ changes < MaxChanges
    /\ command' = command \union {c}
    /\ UNCHANGED <<settings, consent, worldVars, journal, latest, setup, boundVars>>

Answers(c, row, r) ==
    /\ c \in command /\ command' = command \ {c} /\ Changed
    /\ consent' = [consent EXCEPT ![r] = row]
    /\ UNCHANGED <<settings, worldVars, journal, latest, setup>>

GrantsConsent(c, r)  == Answers(c, Decided("approved", "user"), r)
RevokesConsent(c, r) == Answers(c, Decided("denied", "user"), r)

\* elepha consent prune forgets a root without a directory.
IsStale(r) == consent[r].state # "none" /\ place[r] = 0
Prunes(c, r) == IsStale(r) /\ Answers(c, [NoRow EXCEPT !.by = "user"], r)

Configures(c, k, value) ==
    /\ c \in command /\ command' = command \ {c} /\ Changed
    /\ ~broken /\ settings' = [settings EXCEPT ![k] = [value |-> value, by |-> "user"]]
    /\ UNCHANGED <<consent, worldVars, journal, latest, setup>>

\* elepha config set and disable refuse to turn the last tool off; a missing key
\* has its default; a failed setup turns the search off.
SetsSetting(c, k, value) == Capturing(Merged([x \in {k} |-> value])) /\ Configures(c, k, value)
UnsetsSetting(c, k)      == Values[k] # "default" /\ Configures(c, k, "default")
EnablesSearch(c) ==
    \/ Configures(c, Search, "on")
    \/ Value(Values, Search) = "on" /\ Configures(c, Search, "off")

\* The daemon records a root it has not seen, which decides nothing.
RecordsPending(r) ==
    /\ consent[r].state = "none" /\ place[r] # 0 /\ State(r) = "pending" /\ Changed
    /\ consent' = [consent EXCEPT ![r] = [state |-> "pending", source |-> "discovery",
                                         at |-> changes + 1, by |-> consent[r].by]]
    /\ UNCHANGED <<settings, worldVars, journal, latest, setup, command>>

Replaces(r, directory) ==
    /\ directory # place[r] /\ Changed
    /\ place' = [place EXCEPT ![r] = directory]
    /\ UNCHANGED <<settings, consent, broken, journal, latest, setup, command>>

Breaks ==
    /\ ~broken /\ broken' = TRUE /\ Changed
    /\ UNCHANGED <<settings, consent, place, journal, latest, setup, command>>

IsMended ==
    /\ broken /\ broken' = FALSE
    /\ UNCHANGED <<settings, consent, place, journal, latest, setup, command, boundVars>>

\* A process that is killed before it has published leaves no more than one whose
\* preparation fails.
Crashes(p) ==
    /\ setup[p].held # <<>> /\ Stops(p)
    /\ stops < MaxStops /\ stops' = stops + 1
    /\ UNCHANGED <<settings, consent, worldVars, journal, latest, command, changes>>

----------------------------------------------------------------------------

Applies(p) ==
    \/ Begins(p) \/ Prepares(p) \/ Captures(p) \/ Publishes(p) \/ Rechecks(p)
    \/ WritesConfig(p) \/ ChecksRoots(p) \/ Commits(p)
    \/ ReleasesUndone(p) \/ ReleasesCommitted(p) \/ RunsPostCommitJobs(p)

SetupNext ==
    \/ \E p \in Setups :
          \/ \E mode \in Modes, selected \in SUBSET Roots, tools \in SUBSET Tools, search \in Searches :
                Reviews(p, mode, selected, tools, search)
          \/ Applies(p) \/ Crashes(p)
          \/ FindsConflict(p) \/ FindsCommitted(p) \/ FindsUndone(p)
    \/ \E c \in Commands :
          \/ ChecksForJournal(c)
          \/ EnablesSearch(c)
          \/ \E r \in Roots : GrantsConsent(c, r) \/ RevokesConsent(c, r) \/ Prunes(c, r)
          \/ \E k \in Keys : UnsetsSetting(c, k) \/ \E value \in {"on", "off"} : SetsSetting(c, k, value)
    \/ \E r \in Roots : RecordsPending(r) \/ Replaces(r, 0) \/ Replaces(r, 2)
    \/ Breaks \/ IsMended

----------------------------------------------------------------------------

\* When no journal is left, the settings and the consent rows of the last apply
\* are in effect together, or neither is, wherever it was interrupted; a key or a
\* root that someone decided about meanwhile counts for both.  What a recovery
\* reports as an overlap is left as it is (init-apply.ts:3, :237, :311).
AllOrNothing ==
    (journal = NoJournal /\ ~latest.overlaps) =>
        \E others \in {"before", "apply"} :
            /\ \A k \in latest.keys : settings[k].by \in {others, "user"}
            /\ \A r \in latest.roots : consent[r].by \in {others, "user"}

\* An apply commits consent only if every decision in effect was taken before its
\* review, whatever landed between its checks (init-apply.ts:266).
CommitsReviewed ==
    (\E r \in Roots : consent'[r] # consent[r] /\ consent'[r].by = "apply")
      => \A r \in Roots : Explicit(r) => consent[r].at <= setup[journal.owner].since
CommitsWhatWasReviewed == [][CommitsReviewed]_setupVars
=============================================================================
