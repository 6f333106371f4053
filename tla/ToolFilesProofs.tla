---------------------------- MODULE ToolFilesProofs ----------------------------
(* What Elepha reads and writes of the files of the AI tools, as parts of MCParts. *)
(* The apply of a reviewed plan ("setup"): it overwrites no decision the user has  *)
(* not seen, and what was interrupted is done or not done, for any setups, roots   *)
(* and settings, and any history of stops.                                         *)
(* The change of the tools' settings together ("install"): no edit is lost, and    *)
(* an entry is in every file or in none.                                           *)
(* And the transcripts that capture reads, whose turns TurnProofs is about: the    *)
(* parts "openTurn" and "source" take the steps of its components and no others.   *)
EXTENDS MCParts, Integers, Sequences, FiniteSets, FiniteSetTheorems, SetLemmas, TLAPS

------------------------------------------------------------------------------
\* The apply of a plan (Setup).  Who has published a journal holds it until it is released;
\* who undoes the journal of a process that was killed holds an older one than what that
\* process may have published since.
Holding     == {"published", "fresh", "written", "checked", "committed"}
Reviewed    == {"reviewed", "preparing", "prepared", "captured"} \union Holding
Authors     == {"before", "user", "apply"}
ConsentRows == [state : {"none", "pending", "approved", "denied"},
                source : {"none", "grandfathered", "cli", "discovery"},
                at : Nat, by : Authors]

IsSetup(x, now) ==
    /\ x = [step |-> x.step, plan |-> x.plan, seen |-> x.seen, since |-> x.since,
            held |-> x.held, import |-> x.import]
    /\ x.since \in Nat /\ x.since <= now
    /\ U!Named(x.plan) \subseteq U!Roots /\ DOMAIN x.plan.settings \subseteq U!Keys
SetupShape ==
    /\ setup = [p \in Setups |-> setup[p]]
    /\ \A p \in Setups : IsSetup(setup[p], setupChanges)

LatestShape ==
    /\ latest.id \in Nat
    /\ latest = [id |-> latest.id, roots |-> latest.roots, overlaps |-> latest.overlaps,
                 keys |-> latest.keys]
ConsentShape ==
    /\ setupConsent \in [U!Roots -> ConsentRows]
    /\ \A r \in U!Roots :
          /\ setupConsent[r].at <= setupChanges
          /\ setupConsent[r].by = "apply" => U!Explicit(r)
SettingsShape ==
    /\ settings = [k \in U!Keys |-> settings[k]]
    /\ \A k \in U!Keys : /\ settings[k] = [value |-> settings[k].value, by |-> settings[k].by]
                         /\ settings[k].by \in Authors
WorldShape == setupChanges \in Nat /\ LatestShape /\ ConsentShape /\ SettingsShape

SetupTypes == SetupShape /\ WorldShape

JournalIsWhole(j, now) ==
    /\ j.id \in Nat \ {0}
    /\ DOMAIN j.previous = DOMAIN j.plan.settings /\ DOMAIN j.previous \subseteq U!Keys
    /\ DOMAIN j.rows = U!Named(j.plan) /\ DOMAIN j.rows \subseteq U!Roots
    /\ \A r \in DOMAIN j.rows : j.rows[r] \in ConsentRows /\ j.rows[r].at <= now

HoldsJournal(p) ==
    /\ setup[p].step \in Holding \union {"captured"} =>
          /\ JournalIsWhole(setup[p].held, setupChanges)
          /\ setup[p].held.owner = p /\ setup[p].held.plan = setup[p].plan
    /\ setup[p].step \in Holding => setupJournal = setup[p].held
    /\ setup[p].step = "undone" => setup[p].held.id \in 1 .. latest.id
HoldsNewer(p, q) ==
    (/\ p # q /\ setup[q].step = "undone" /\ setup[q].held.owner = p
     /\ setup[p].step \in Holding \union {"captured"})
      => setup[p].held.id > setup[q].held.id
JournalInv ==
    /\ setupJournal # U!NoJournal =>
          /\ JournalIsWhole(setupJournal, setupChanges)
          /\ setupJournal.owner \in Setups /\ setupJournal.id <= latest.id
    /\ \A p \in Setups : HoldsJournal(p)
    /\ \A p, q \in Setups : HoldsNewer(p, q)

\* What a review has seen was decided before it, and a row that is captured was not
\* decided about since, unless it tells that itself.
SameAs(row, given) ==
    row.state = given.state /\ row.source = given.source /\ row.at = given.at
ReviewedBefore(p) ==
    setup[p].step \in Reviewed =>
        \A r \in DOMAIN setup[p].seen[2] : setup[p].seen[2][r].at <= setup[p].since
CapturedBefore(p) ==
    setup[p].step \in {"captured", "published"} =>
        \A r \in DOMAIN setup[p].held.rows :
            U!Explicit(r) /\ setupConsent[r].at <= setup[p].since
                => SameAs(setup[p].held.rows[r], setupConsent[r])
ReviewedInv == \A p \in Setups : ReviewedBefore(p) /\ CapturedBefore(p)

\* How far the apply is that the journal is about.  Settings are written together and
\* before consent is committed; a row that was not decided about since is as captured
\* when settings are written.
NoKeyApplied      == \A k \in latest.keys : settings[k].by # "apply"
EveryKeyApplied   == \A k \in latest.keys : settings[k].by # "before"
NoRowCommitted    == \A r \in latest.roots : setupConsent[r].by # "apply"
EveryRowCommitted == \A r \in latest.roots : setupConsent[r].by # "before"
RowsAreCaptured   == \A r \in latest.roots :
                        U!Explicit(r) /\ setupConsent[r].by = "before" => U!SameRow(r)

KeysAreKnown ==
    /\ latest.keys \subseteq DOMAIN setupJournal.previous
    /\ \A k \in latest.keys :
          /\ setupJournal.previous[k] # setupJournal.plan.settings[k]
          /\ settings[k].by = "before" => settings[k].value = setupJournal.previous[k]
          /\ settings[k].by = "apply" => settings[k].value = setupJournal.plan.settings[k]
RowsAreKnown ==
    /\ latest.roots = DOMAIN setupJournal.rows
    /\ \A r \in latest.roots :
          setupConsent[r].by = "apply" => setupConsent[r].at > setupJournal.rows[r].at

PhaseOf(p) ==
    /\ setup[p].step \in {"published", "fresh"} => NoKeyApplied /\ NoRowCommitted
    /\ setup[p].step \in {"written", "checked"} => EveryKeyApplied /\ NoRowCommitted
    /\ setup[p].step \in {"fresh", "written", "checked"} => RowsAreCaptured
    /\ setup[p].step = "committed" => EveryKeyApplied /\ EveryRowCommitted
    /\ setup[p].step = "undone" /\ setup[p].held = setupJournal =>
          NoKeyApplied /\ NoRowCommitted

Whole == (NoKeyApplied /\ NoRowCommitted) \/ (EveryKeyApplied /\ EveryRowCommitted)
Underway ==
    /\ KeysAreKnown /\ RowsAreKnown
    /\ NoKeyApplied \/ EveryKeyApplied
    /\ NoRowCommitted \/ (EveryKeyApplied /\ EveryRowCommitted)
    /\ NoKeyApplied \/ RowsAreCaptured
    /\ \A p \in Setups : PhaseOf(p)
ProgressInv ==
    /\ latest.keys \subseteq U!Keys /\ latest.roots \subseteq U!Roots
    /\ setupJournal = U!NoJournal => latest.overlaps \/ Whole
    /\ setupJournal # U!NoJournal => Underway

SetupInv == SetupTypes /\ JournalInv /\ ReviewedInv /\ ProgressInv

LEMMA SetupStarts == U!SetupInit => SetupInv
<1> SUFFICES ASSUME U!SetupInit PROVE SetupInv
  OBVIOUS
<1>1. /\ setupJournal = U!NoJournal /\ setup = [p \in Setups |-> U!Idle] /\ setupChanges = 0
      /\ setupConsent = [r \in U!Roots |-> IF r \in Old THEN U!Grandfathered ELSE U!NoRow]
      /\ settings = [k \in U!Keys |-> [value |-> "default", by |-> "before"]]
      /\ latest = [id |-> 0, keys |-> {}, roots |-> {}, overlaps |-> FALSE]
  BY DEF U!SetupInit
<1>2. SetupShape
  BY <1>1 DEF SetupShape, IsSetup, U!Idle, U!NoPlan, U!Named
<1>3. WorldShape
  <2>1. U!NoRow \in ConsentRows /\ U!Grandfathered \in ConsentRows
        /\ U!NoRow.at = 0 /\ U!Grandfathered.at = 0
    BY DEF ConsentRows, Authors, U!Grandfathered, U!NoRow
  <2>2. /\ setupConsent \in [U!Roots -> ConsentRows]
        /\ \A r \in U!Roots : setupConsent[r].at <= setupChanges /\ setupConsent[r].by = "before"
    BY <1>1, <2>1 DEF U!NoRow, U!Grandfathered
  <2> QED  BY <1>1, <2>2 DEF WorldShape, LatestShape, ConsentShape, SettingsShape, Authors
<1>4. JournalInv /\ ReviewedInv
  BY <1>1 DEF JournalInv, HoldsJournal, HoldsNewer, ReviewedInv, ReviewedBefore,
     CapturedBefore, U!Idle, Holding, Reviewed
<1>5. ProgressInv
  BY <1>1 DEF ProgressInv, Whole, NoKeyApplied, NoRowCommitted
<1> QED  BY <1>2, <1>3, <1>4, <1>5 DEF SetupInv, SetupTypes

\* What others do: commands that found no journal, the daemon and the disk.
OthersStep ==
    \/ \E c \in Commands :
          \/ U!ChecksForJournal(c) \/ U!EnablesSearch(c)
          \/ \E r \in U!Roots : U!GrantsConsent(c, r) \/ U!RevokesConsent(c, r) \/ U!Prunes(c, r)
          \/ \E k \in U!Keys : \/ U!UnsetsSetting(c, k)
                               \/ \E value \in {"on", "off"} : U!SetsSetting(c, k, value)
    \/ \E r \in U!Roots : U!RecordsPending(r) \/ U!Replaces(r, 0) \/ U!Replaces(r, 2)
    \/ U!Breaks \/ U!IsMended

\* Their decisions are later than every decision before, and are the user's, or none.
DecidedSince(r) ==
    /\ setupConsent'[r] \in ConsentRows /\ setupConsent'[r].at <= setupChanges'
    /\ \/ setupConsent'[r].by = "user" /\ setupConsent'[r].at > setupChanges
       \/ setupConsent'[r].by = "user" /\ setupConsent'[r].state = "none"
       \/ /\ setupConsent'[r].state = "pending" /\ setupConsent'[r].at > setupChanges
          /\ setupConsent'[r].by = setupConsent[r].by /\ setupConsent[r].state = "none"
OthersOnly ==
    /\ UNCHANGED <<setupJournal, latest, setup>>
    /\ setupChanges' \in {setupChanges, setupChanges + 1}
    /\ setupConsent' = [r \in U!Roots |-> setupConsent'[r]]
    /\ \A r \in U!Roots : setupConsent'[r] = setupConsent[r] \/ DecidedSince(r)
    /\ settings' = [k \in U!Keys |-> settings'[k]]
    /\ \A k \in U!Keys : \/ settings'[k] = settings[k]
                         \/ settings'[k] = [value |-> settings'[k].value, by |-> "user"]

LEMMA OthersDecide ==
    ASSUME SetupTypes, OthersStep
    PROVE  OthersOnly
<1>1. WorldShape
  BY DEF SetupTypes
<1>2. ASSUME NEW c, NEW r \in U!Roots, NEW given \in ConsentRows, U!Answers(c, given, r),
             given.by = "user", given.at <= setupChanges + 1,
             given.at > setupChanges \/ given.state = "none"
      PROVE  OthersOnly
  <2>1. /\ UNCHANGED <<setupJournal, latest, setup, settings>>
        /\ setupChanges' = setupChanges + 1 /\ setupConsent' = [setupConsent EXCEPT ![r] = given]
    BY <1>2 DEF U!Answers, U!Changed
  <2> QED  BY <1>1, <1>2, <2>1 DEF OthersOnly, DecidedSince, WorldShape, LatestShape,
                                   ConsentShape, SettingsShape
<1>3. ASSUME NEW c, NEW r \in U!Roots,
             U!GrantsConsent(c, r) \/ U!RevokesConsent(c, r) \/ U!Prunes(c, r)
      PROVE  OthersOnly
  <2>1. U!Decided("approved", "user") \in ConsentRows /\ U!Decided("denied", "user") \in ConsentRows
        /\ [U!NoRow EXCEPT !.by = "user"] \in ConsentRows
    BY <1>1 DEF U!Decided, U!NoRow, ConsentRows, Authors, WorldShape, LatestShape,
                ConsentShape, SettingsShape
  <2> QED  BY <1>1, <1>2, <1>3, <2>1
           DEF U!GrantsConsent, U!RevokesConsent, U!Prunes, U!Decided, U!NoRow, WorldShape,
               LatestShape, ConsentShape, SettingsShape
<1>4. ASSUME NEW c, NEW k \in U!Keys, NEW value, U!Configures(c, k, value)
      PROVE  OthersOnly
  <2>1. /\ UNCHANGED <<setupJournal, latest, setup, setupConsent>>
        /\ setupChanges' = setupChanges + 1
        /\ settings' = [settings EXCEPT ![k] = [value |-> value, by |-> "user"]]
    BY <1>4 DEF U!Configures, U!Changed
  <2> QED  BY <1>1, <2>1 DEF OthersOnly, WorldShape, LatestShape, ConsentShape, SettingsShape
<1>5. ASSUME NEW c, U!EnablesSearch(c)
      PROVE  OthersOnly
  BY <1>4, <1>5 DEF U!EnablesSearch, U!Keys
<1>6. ASSUME NEW c, NEW k \in U!Keys, NEW value, U!UnsetsSetting(c, k) \/ U!SetsSetting(c, k, value)
      PROVE  OthersOnly
  BY <1>4, <1>6 DEF U!UnsetsSetting, U!SetsSetting
<1>7. ASSUME NEW r \in U!Roots, U!RecordsPending(r)
      PROVE  OthersOnly
  <2> DEFINE given == [state |-> "pending", source |-> "discovery",
                       at |-> setupChanges + 1, by |-> setupConsent[r].by]
  <2>1. /\ UNCHANGED <<setupJournal, latest, setup, settings>> /\ setupConsent[r].state = "none"
        /\ setupChanges' = setupChanges + 1 /\ setupConsent' = [setupConsent EXCEPT ![r] = given]
    BY <1>7 DEF U!RecordsPending, U!Changed
  <2>2. given \in ConsentRows
    <3>1. setupConsent[r] \in ConsentRows /\ setupChanges + 1 \in Nat
      BY <1>1 DEF WorldShape, LatestShape, ConsentShape, SettingsShape
    <3> QED  BY <3>1 DEF ConsentRows
  <2>3. given.at <= setupChanges' /\ given.at > setupChanges
    BY <1>1, <2>1 DEF WorldShape, LatestShape, ConsentShape, SettingsShape
  <2>4. \A q \in U!Roots : setupConsent'[q] = IF q = r THEN given ELSE setupConsent[q]
    BY <1>1, <2>1 DEF WorldShape, ConsentShape
  <2> QED  BY <1>1, <2>1, <2>2, <2>3, <2>4 DEF OthersOnly, DecidedSince, WorldShape,
     LatestShape, ConsentShape, SettingsShape
<1>8. ASSUME UNCHANGED <<setupJournal, latest, setup, setupConsent, settings>>,
             setupChanges' \in {setupChanges, setupChanges + 1}
      PROVE  OthersOnly
  BY <1>1, <1>8 DEF OthersOnly, WorldShape, LatestShape, ConsentShape, SettingsShape
<1>9. ASSUME NEW r, NEW directory, U!Replaces(r, directory)
      PROVE  OthersOnly
  BY <1>8, <1>9 DEF U!Replaces, U!Changed
<1>10. ASSUME NEW c, U!ChecksForJournal(c)
       PROVE  OthersOnly
  BY <1>8, <1>10 DEF U!ChecksForJournal, U!boundVars
<1>11. ASSUME U!Breaks \/ U!IsMended
       PROVE  OthersOnly
  BY <1>8, <1>11 DEF U!Breaks, U!IsMended, U!Changed, U!boundVars
<1> QED  BY <1>3, <1>5, <1>6, <1>7, <1>9, <1>10, <1>11 DEF OthersStep

\* A step of one process that runs elepha init.
Becomes(p, x) == setup' = [q \in Setups |-> IF q = p THEN x ELSE setup[q]]
At(p, s)      == [setup[p] EXCEPT !.step = s]

LEMMA StepsOfOne ==
    ASSUME SetupShape, NEW p \in Setups
    PROVE  /\ \A s : U!Goes(p, s) => Becomes(p, At(p, s))
           /\ U!Stops(p) => Becomes(p, U!Idle)
           /\ \A x : setup' = [setup EXCEPT ![p] = x] => Becomes(p, x)
           /\ \A s : At(p, s) = [step |-> s, plan |-> setup[p].plan, seen |-> setup[p].seen,
                                since |-> setup[p].since, held |-> setup[p].held,
                                import |-> setup[p].import]
<1>1. setup = [q \in Setups |-> setup[q]]
      /\ setup[p] = [step |-> setup[p].step, plan |-> setup[p].plan, seen |-> setup[p].seen,
                     since |-> setup[p].since, held |-> setup[p].held,
                     import |-> setup[p].import]
  BY DEF SetupShape, IsSetup
<1>2. \A x : setup' = [setup EXCEPT ![p] = x] => Becomes(p, x)
  BY <1>1 DEF Becomes
<1>3. \A s : U!Goes(p, s) => Becomes(p, At(p, s))
  BY <1>2 DEF U!Goes, At
<1>4. U!Stops(p) => Becomes(p, U!Idle)
  BY <1>2 DEF U!Stops
<1> QED  BY <1>1, <1>2, <1>3, <1>4 DEF At

LEMMA ShapeIsKept ==
    ASSUME SetupShape, NEW p \in Setups, NEW x, Becomes(p, x), IsSetup(x, setupChanges'),
           setupChanges \in Nat, setupChanges' \in {setupChanges, setupChanges + 1}
    PROVE  SetupShape'
<1>1. ASSUME NEW q \in Setups
      PROVE  IsSetup(setup'[q], setupChanges')
  <2>1. CASE q = p
    BY <2>1 DEF Becomes
  <2>2. CASE q # p
    <3>1. setup'[q] = setup[q]
      BY <2>2 DEF Becomes
    <3>2. IsSetup(setup[q], setupChanges)
      BY DEF SetupShape
    <3> QED  BY <3>1, <3>2 DEF IsSetup
  <2> QED  BY <2>1, <2>2
<1>2. setup' = [q \in Setups |-> setup'[q]]
  BY DEF Becomes
<1> QED  BY <1>1, <1>2 DEF SetupShape

\* What config.json holds after a write.
LEMMA SettingsAreWritten ==
    ASSUME WorldShape, NEW update, NEW who \in Authors, U!SetSettings(update, who)
    PROVE  /\ settings' = [k \in U!Keys |-> settings'[k]]
           /\ \A k \in U!Keys :
                 /\ settings'[k] = [value |-> settings'[k].value, by |-> settings'[k].by]
                 /\ settings'[k].by \in Authors
           /\ \A k \in U!Keys : IF k \in DOMAIN update /\ update[k] # settings[k].value
                                 THEN settings'[k] = [value |-> update[k], by |-> who]
                                 ELSE settings'[k] = settings[k]
<1>1. settings' = [k \in U!Keys |-> IF U!Merged(update)[k] = U!Values[k] THEN settings[k]
                                    ELSE [value |-> update[k], by |-> who]]
  BY DEF U!SetSettings
<1>2. \A k \in U!Keys :
         /\ U!Values[k] = settings[k].value
         /\ U!Merged(update)[k] = IF k \in DOMAIN update THEN update[k] ELSE settings[k].value
  BY DEF U!Values, U!Merged
<1>3. \A k \in U!Keys : IF k \in DOMAIN update /\ update[k] # settings[k].value
                         THEN settings'[k] = [value |-> update[k], by |-> who]
                         ELSE settings'[k] = settings[k]
  BY <1>1, <1>2
<1>4. settings' = [k \in U!Keys |-> settings'[k]]
  BY <1>1
<1> QED  BY <1>3, <1>4 DEF WorldShape, LatestShape, ConsentShape, SettingsShape

\* Undoing puts back what still holds the target.
LEMMA SettingsAreReverted ==
    ASSUME WorldShape, NEW j, DOMAIN j.previous \subseteq U!Keys, U!RevertOwnSettings(j)
    PROVE  /\ settings' = [k \in U!Keys |-> settings'[k]]
           /\ \A k \in U!Keys :
                 /\ settings'[k] = [value |-> settings'[k].value, by |-> settings'[k].by]
                 /\ settings'[k].by \in Authors
           /\ \A k \in U!Keys :
                 IF /\ k \in DOMAIN j.previous /\ settings[k].value # j.previous[k]
                    /\ settings[k].value = j.plan.settings[k]
                 THEN settings'[k] = [value |-> j.previous[k], by |-> "before"]
                 ELSE settings'[k] = settings[k]
<1>1. \A k \in U!Keys : U!Values[k] = settings[k].value
  BY DEF U!Values
<1>2. U!Own(j) = {k \in DOMAIN j.previous : /\ settings[k].value # j.previous[k]
                                           /\ settings[k].value = j.plan.settings[k]}
  BY <1>1 DEF U!Own
<1>3. CASE UNCHANGED settings /\ U!Own(j) = {}
  BY <1>2, <1>3 DEF WorldShape, LatestShape, ConsentShape, SettingsShape
<1>4. CASE U!SetSettings(U!Revert(j), "before")
  <2>1. U!Revert(j) = [k \in U!Own(j) |-> j.previous[k]]
    BY DEF U!Revert
  <2>2. "before" \in Authors
    BY DEF Authors
  <2>3. /\ settings' = [k \in U!Keys |-> settings'[k]]
        /\ \A k \in U!Keys :
              /\ settings'[k] = [value |-> settings'[k].value, by |-> settings'[k].by]
              /\ settings'[k].by \in Authors
        /\ \A k \in U!Keys :
              IF k \in DOMAIN U!Revert(j) /\ U!Revert(j)[k] # settings[k].value
              THEN settings'[k] = [value |-> U!Revert(j)[k], by |-> "before"]
              ELSE settings'[k] = settings[k]
    BY <1>4, <2>2, SettingsAreWritten
  <2> QED  BY <1>2, <2>1, <2>3
<1> QED  BY <1>3, <1>4 DEF U!RevertOwnSettings

LEMMA PlansAreOfRoots ==
    ASSUME NEW mode, NEW selected \in SUBSET U!Candidates(mode), NEW tools, NEW search
    PROVE  /\ U!Named(U!Plan(mode, selected, tools, search)) \subseteq U!Roots
           /\ DOMAIN U!Plan(mode, selected, tools, search).settings \subseteq U!Keys
<1> DEFINE plan == U!Plan(mode, selected, tools, search)
<1>1. /\ plan.settings = U!Targets(tools, search) /\ plan.grants = U!Grants(mode, selected)
      /\ plan.revokes = U!Paused(mode, selected)
  BY DEF U!Plan
<1>2. U!Candidates(mode) \subseteq U!Roots
  BY DEF U!Candidates, U!Roots
<1>3. U!Grants(mode, selected) \subseteq U!Roots /\ U!Paused(mode, selected) \subseteq U!Roots
  BY <1>2 DEF U!Grants, U!Paused, U!Approved
<1>4. DOMAIN U!Targets(tools, search) \subseteq U!Keys
  <2> DEFINE asked == Tools \union (IF search = "unasked" THEN {} ELSE {U!Search})
             t == [k \in asked |-> IF k = U!Search THEN search
                                   ELSE IF k \in tools THEN "on" ELSE "off"]
  <2>1. U!Targets(tools, search) \in {t, <<>>}
    BY DEF U!Targets
  <2>2. DOMAIN t \subseteq U!Keys
    BY DEF U!Keys
  <2> HIDE DEF t
  <2> QED  BY <2>1, <2>2
<1> QED  BY <1>1, <1>3, <1>4 DEF U!Named

SetupFields == {"step", "plan", "seen", "since", "held", "import"}
LEMMA HeldChanges ==
    ASSUME NEW x, NEW s, NEW h,
           x = [step |-> x.step, plan |-> x.plan, seen |-> x.seen, since |-> x.since,
                held |-> x.held, import |-> x.import]
    PROVE  [x EXCEPT !.step = s, !.held = h] =
             [step |-> s, plan |-> x.plan, seen |-> x.seen, since |-> x.since, held |-> h,
              import |-> x.import]
<1> DEFINE y == [x EXCEPT !.step = s, !.held = h]
<1>1. /\ y.step = s /\ y.held = h /\ y.plan = x.plan /\ y.seen = x.seen /\ y.since = x.since
      /\ y.import = x.import
  OBVIOUS
<1>2. DOMAIN y = SetupFields
  BY DEF SetupFields
<1>3. y = [f \in SetupFields |-> y[f]]
  BY <1>2
<1> HIDE DEF y
<1>4. y = [step |-> s, plan |-> x.plan, seen |-> x.seen, since |-> x.since, held |-> h,
           import |-> x.import]
  BY <1>1, <1>3 DEF SetupFields
<1> QED  BY <1>4 DEF y

LEMMA ImportChanges ==
    ASSUME NEW x, NEW s, NEW i,
           x = [step |-> x.step, plan |-> x.plan, seen |-> x.seen, since |-> x.since,
                held |-> x.held, import |-> x.import]
    PROVE  [x EXCEPT !.step = s, !.import = i] =
             [step |-> s, plan |-> x.plan, seen |-> x.seen, since |-> x.since,
              held |-> x.held, import |-> i]
<1> DEFINE y == [x EXCEPT !.step = s, !.import = i]
<1>1. /\ y.step = s /\ y.import = i /\ y.plan = x.plan /\ y.seen = x.seen
      /\ y.since = x.since /\ y.held = x.held
  OBVIOUS
<1>2. DOMAIN y = SetupFields
  BY DEF SetupFields
<1>3. y = [f \in SetupFields |-> y[f]]
  BY <1>2
<1> HIDE DEF y
<1>4. y = [step |-> s, plan |-> x.plan, seen |-> x.seen, since |-> x.since,
           held |-> x.held, import |-> i]
  BY <1>1, <1>3 DEF SetupFields
<1> QED  BY <1>4 DEF y

LEMMA ShapesOfOne ==
    ASSUME SetupTypes, NEW p \in Setups, NEW now \in Nat, setupChanges <= now
    PROVE  /\ IsSetup(U!Idle, now) /\ \A s : IsSetup(At(p, s), now)
           /\ \A s, i, h : /\ IsSetup([U!Idle EXCEPT !.step = s, !.import = i], now)
                           /\ IsSetup([U!Idle EXCEPT !.step = s, !.held = h], now)
                           /\ IsSetup([setup[p] EXCEPT !.step = s, !.held = h], now)
<1>1. /\ setup[p] = [step |-> setup[p].step, plan |-> setup[p].plan, seen |-> setup[p].seen,
                     since |-> setup[p].since, held |-> setup[p].held,
                     import |-> setup[p].import]
      /\ setup[p].since \in Nat /\ setup[p].since <= setupChanges /\ setupChanges \in Nat
      /\ U!Named(setup[p].plan) \subseteq U!Roots /\ DOMAIN setup[p].plan.settings \subseteq U!Keys
  <2>1. IsSetup(setup[p], setupChanges) /\ setupChanges \in Nat
    BY DEF SetupTypes, SetupShape, WorldShape, LatestShape, ConsentShape, SettingsShape
  <2> QED  BY <2>1 DEF IsSetup
<1>2. IsSetup(U!Idle, now)
  BY DEF IsSetup, U!Idle, U!NoPlan, U!Named
<1>3. ASSUME NEW s, NEW i, NEW h
      PROVE  /\ IsSetup([U!Idle EXCEPT !.step = s, !.import = i], now)
             /\ IsSetup([U!Idle EXCEPT !.step = s, !.held = h], now)
  <2>0. PICK x : x = U!Idle
    OBVIOUS
  <2>1. /\ x = [step |-> x.step, plan |-> x.plan, seen |-> x.seen, since |-> x.since,
                held |-> x.held, import |-> x.import]
        /\ x.plan = U!NoPlan /\ x.since = 0
    BY <2>0 DEF U!Idle
  <2>2. [x EXCEPT !.step = s, !.held = h] =
          [step |-> s, plan |-> x.plan, seen |-> x.seen, since |-> x.since, held |-> h,
           import |-> x.import]
    BY <2>1, HeldChanges
  <2>5. [x EXCEPT !.step = s, !.import = i] =
          [step |-> s, plan |-> x.plan, seen |-> x.seen, since |-> x.since,
           held |-> x.held, import |-> i]
    BY <2>1, ImportChanges
  <2>3. U!Named(U!NoPlan) \subseteq U!Roots /\ DOMAIN U!NoPlan.settings \subseteq U!Keys
    BY DEF U!NoPlan, U!Named
  <2>4. /\ IsSetup([x EXCEPT !.step = s, !.import = i], now)
        /\ IsSetup([x EXCEPT !.step = s, !.held = h], now)
    BY <2>1, <2>2, <2>3, <2>5 DEF IsSetup
  <2> QED  BY <2>0, <2>4
<1>4. ASSUME NEW s, NEW h
      PROVE  IsSetup([setup[p] EXCEPT !.step = s, !.held = h], now)
  <2>1. [setup[p] EXCEPT !.step = s, !.held = h] =
          [step |-> s, plan |-> setup[p].plan, seen |-> setup[p].seen,
           since |-> setup[p].since, held |-> h, import |-> setup[p].import]
    <3> DEFINE x == setup[p]
    <3>1. x = [step |-> x.step, plan |-> x.plan, seen |-> x.seen, since |-> x.since,
               held |-> x.held, import |-> x.import]
      BY <1>1
    <3> HIDE DEF x
    <3>2. [x EXCEPT !.step = s, !.held = h] =
            [step |-> s, plan |-> x.plan, seen |-> x.seen, since |-> x.since, held |-> h,
             import |-> x.import]
      BY <3>1, HeldChanges
    <3> QED  BY <3>2 DEF x
  <2> QED  BY <1>1, <2>1 DEF IsSetup
<1>5. ASSUME NEW s
      PROVE  IsSetup(At(p, s), now)
  <2>1. At(p, s) =
          [step |-> s, plan |-> setup[p].plan, seen |-> setup[p].seen,
           since |-> setup[p].since, held |-> setup[p].held, import |-> setup[p].import]
    BY <1>1 DEF At
  <2> QED  BY <1>1, <2>1 DEF IsSetup
<1> QED  BY <1>2, <1>3, <1>4, <1>5

LEMMA NextNumber == \A n \in Nat : n + 1 \in Nat /\ n <= n + 1 /\ n <= n
OBVIOUS

\* Where a process goes in a step of its own.
LEMMA StepsKeepShape ==
    ASSUME SetupTypes, NEW p \in Setups, setupChanges' \in {setupChanges, setupChanges + 1},
           \/ \E s : U!Goes(p, s)
           \/ U!Stops(p)
           \/ \E s, i : setup' = [setup EXCEPT ![p] = [U!Idle EXCEPT !.step = s, !.import = i]]
           \/ \E s, h : setup' = [setup EXCEPT ![p] = [U!Idle EXCEPT !.step = s, !.held = h]]
           \/ \E s, h : setup' = [setup EXCEPT ![p] = [setup[p] EXCEPT !.step = s, !.held = h]]
    PROVE  SetupShape'
<1>1. SetupShape /\ setupChanges \in Nat /\ setupChanges' \in Nat /\ setupChanges <= setupChanges'
  <2>1. SetupShape /\ setupChanges \in Nat
    BY ZenonT(40) DEF SetupTypes, WorldShape, LatestShape, ConsentShape, SettingsShape
  <2> QED  BY <2>1, NextNumber
<1>2. PICK x : Becomes(p, x) /\ IsSetup(x, setupChanges')
  BY <1>1, StepsOfOne, ShapesOfOne
<1> QED  BY <1>1, <1>2, ShapeIsKept

LEMMA WorldIsSame ==
    ASSUME WorldShape, UNCHANGED <<latest, settings, setupConsent, setupChanges>>
    PROVE  WorldShape'
BY DEF WorldShape, LatestShape, ConsentShape, SettingsShape, U!Explicit

LEMMA WorldIsKept ==
    ASSUME WorldShape, UNCHANGED <<setupConsent, setupChanges>>,
           latest' = latest \/ latest' = [latest EXCEPT !.overlaps = TRUE],
           settings' = [k \in U!Keys |-> settings'[k]],
           \A k \in U!Keys :
              /\ settings'[k] = [value |-> settings'[k].value, by |-> settings'[k].by]
              /\ settings'[k].by \in Authors
    PROVE  WorldShape'
<1>1. latest' = [id |-> latest.id, roots |-> latest.roots, overlaps |-> latest'.overlaps,
                 keys |-> latest.keys]
  BY DEF WorldShape, LatestShape
<1> QED  BY <1>1 DEF WorldShape, LatestShape, ConsentShape, SettingsShape, U!Explicit

\* What a review leaves.
Review(plan, seen) == [U!Idle EXCEPT !.step = "reviewed", !.plan = plan, !.seen = seen,
                                     !.since = setupChanges]
LEMMA ReviewIs ==
    ASSUME NEW plan, NEW seen
    PROVE  Review(plan, seen) = [step |-> "reviewed", plan |-> plan, seen |-> seen,
                                 since |-> setupChanges, held |-> <<>>, import |-> {}]
<1> DEFINE y == Review(plan, seen)
<1>1. /\ y.step = "reviewed" /\ y.plan = plan /\ y.seen = seen /\ y.since = setupChanges
      /\ y.held = <<>> /\ y.import = {}
  BY DEF Review, U!Idle
<1>2. DOMAIN y = SetupFields
  BY DEF Review, U!Idle, SetupFields
<1>3. y = [f \in SetupFields |-> y[f]]
  BY <1>2 DEF Review
<1> HIDE DEF y
<1>4. y = [step |-> "reviewed", plan |-> plan, seen |-> seen, since |-> setupChanges,
           held |-> <<>>, import |-> {}]
  BY <1>1, <1>3 DEF SetupFields
<1> QED  BY <1>4 DEF y

LEMMA ReviewsAre ==
    ASSUME SetupTypes, NEW p \in Setups, NEW mode, NEW selected, NEW tools, NEW search,
           U!Reviews(p, mode, selected, tools, search)
    PROVE  \E plan : /\ Becomes(p, Review(plan, U!PreviewState))
                     /\ U!Named(plan) \subseteq U!Roots /\ DOMAIN plan.settings \subseteq U!Keys
                     /\ UNCHANGED <<settings, setupConsent, setupJournal, latest, setupChanges>>
<1> DEFINE plan == U!Plan(mode, selected, tools, search)
<1>1. /\ selected \subseteq U!Candidates(mode)
      /\ setup' = [setup EXCEPT ![p] = Review(plan, U!PreviewState)]
      /\ UNCHANGED <<settings, setupConsent, setupJournal, latest, setupChanges>>
  BY DEF U!Reviews, Review, U!boundVars
<1>2. Becomes(p, Review(plan, U!PreviewState))
  BY <1>1, StepsOfOne DEF SetupTypes
<1>3. U!Named(plan) \subseteq U!Roots /\ DOMAIN plan.settings \subseteq U!Keys
  BY <1>1, PlansAreOfRoots
<1> QED  BY <1>1, <1>2, <1>3

\* The steps that change nothing but where one process is.
QuietStep(p) ==
    \/ U!Begins(p) \/ U!Prepares(p) \/ U!Captures(p) \/ U!RunsPostCommitJobs(p) \/ U!Crashes(p)

LEMMA QuietIs ==
    ASSUME NEW p, QuietStep(p)
    PROVE  /\ UNCHANGED <<settings, setupConsent, setupJournal, latest, setupChanges>>
           /\ \/ U!Stops(p)
              \/ /\ setup[p].step \in {"reviewed", "preparing"}
                 /\ U!Goes(p, "preparing") \/ U!Goes(p, "prepared")
              \/ /\ setup[p].step = "prepared"
                 /\ setup' = [setup EXCEPT ![p] = [setup[p] EXCEPT !.step = "captured",
                                                                  !.held = U!NewJournal(p)]]
<1>1. CASE U!Begins(p)
  BY <1>1 DEF U!Begins, U!boundVars
<1>2. CASE U!Prepares(p)
  BY <1>2 DEF U!Prepares, U!boundVars
<1>3. CASE U!Captures(p)
  BY <1>3 DEF U!Captures, U!boundVars
<1>4. CASE U!RunsPostCommitJobs(p)
  BY <1>4 DEF U!RunsPostCommitJobs, U!boundVars
<1>5. CASE U!Crashes(p)
  BY <1>5 DEF U!Crashes
<1> QED  BY <1>1, <1>2, <1>3, <1>4, <1>5 DEF QuietStep

\* The journal that a process holds.
LEMMA HeldJournal ==
    ASSUME JournalInv, NEW p \in Setups, setup[p].step \in Holding
    PROVE  /\ setupJournal = setup[p].held /\ setupJournal # U!NoJournal
           /\ JournalIsWhole(setupJournal, setupChanges)
           /\ setupJournal.owner = p /\ setupJournal.plan = setup[p].plan
<1>1. /\ setupJournal = setup[p].held /\ JournalIsWhole(setup[p].held, setupChanges)
      /\ setup[p].held.owner = p /\ setup[p].held.plan = setup[p].plan
  BY DEF JournalInv, HoldsJournal, HoldsNewer
<1>2. U!NoJournal.id = 0
  BY DEF U!NoJournal
<1>3. setupJournal # U!NoJournal
  BY <1>1, <1>2 DEF JournalIsWhole
<1> QED  BY <1>1, <1>3

\* The steps between the publication of a journal and its release.
WritingStep(p) == U!WritesConfig(p) \/ U!ChecksRoots(p) \/ U!Commits(p)
Undoes(p) ==
    /\ UNCHANGED <<setupConsent, setupChanges>>
    /\ \/ U!RevertOwnSettings(setupJournal) /\ U!Goes(p, "undone")
       \/ UNCHANGED settings /\ U!Stops(p)
Writes(p) ==
    /\ setup[p].step = "fresh" /\ U!Goes(p, "written")
    /\ \/ UNCHANGED settings /\ ~U!WritesSettings(p)
       \/ U!SetSettings(setup[p].plan.settings, "apply")
    /\ UNCHANGED <<setupConsent, setupChanges>>
Checks(p) ==
    /\ setup[p].step = "written" /\ U!Goes(p, "checked")
    /\ UNCHANGED <<settings, setupConsent, setupChanges>>
CommitsRows(p) ==
    /\ setup[p].step = "checked" /\ U!Goes(p, "committed") /\ UNCHANGED settings
    /\ U!ConsentFingerprint = setup[p].seen[2]
    /\ setupConsent' = [r \in U!Roots |->
          IF r \in setup[p].plan.grants THEN U!Decided("approved", "apply")
          ELSE IF r \in setup[p].plan.revokes THEN U!Decided("denied", "apply")
          ELSE setupConsent[r]]
    /\ setupChanges' = setupChanges + (IF UNCHANGED setupConsent THEN 0 ELSE 1)

LEMMA WritingIs ==
    ASSUME NEW p, WritingStep(p), setupChanges \in Nat
    PROVE  /\ UNCHANGED <<setupJournal, latest>>
           /\ setup[p].step \in {"fresh", "written", "checked"}
           /\ Undoes(p) \/ Writes(p) \/ Checks(p) \/ CommitsRows(p)
<1>1. CASE U!WritesConfig(p)
  BY <1>1 DEF U!WritesConfig, U!Undo, U!boundVars, Undoes, Writes
<1>2. CASE U!ChecksRoots(p)
  BY <1>2 DEF U!ChecksRoots, U!Undo, U!boundVars, Undoes, Checks
<1>3. CASE U!Commits(p) /\ U!ConsentFingerprint # setup[p].seen[2]
  BY <1>3 DEF U!Commits, U!Undo, Undoes
<1>4. CASE U!Commits(p) /\ U!ConsentFingerprint = setup[p].seen[2]
  BY <1>4 DEF U!Commits, CommitsRows
<1> QED  BY <1>1, <1>2, <1>3, <1>4 DEF WritingStep

\* Rows that are committed are decided now.
LEMMA RowsAreCommitted ==
    ASSUME SetupTypes, NEW p \in Setups, CommitsRows(p)
    PROVE  /\ setupChanges' \in {setupChanges, setupChanges + 1}
           /\ setupConsent' \in [U!Roots -> ConsentRows]
           /\ \A r \in U!Roots :
                 IF r \in U!Named(setup[p].plan)
                 THEN /\ setupConsent'[r].by = "apply" /\ setupConsent'[r].at = setupChanges + 1
                      /\ setupConsent'[r].state \in {"approved", "denied"}
                 ELSE setupConsent'[r] = setupConsent[r]
           /\ \A r \in U!Roots : setupConsent'[r].at <= setupChanges'
           /\ setup[p].plan.grants \union setup[p].plan.revokes # {}
                => setupChanges' = setupChanges + 1
<1>1. /\ setupChanges \in Nat /\ setupConsent \in [U!Roots -> ConsentRows]
      /\ \A r \in U!Roots : setupConsent[r].at <= setupChanges
      /\ U!Named(setup[p].plan) \subseteq U!Roots
  BY DEF SetupTypes, WorldShape, LatestShape, ConsentShape, SettingsShape, SetupShape, IsSetup
<1>2. U!Decided("approved", "apply") \in ConsentRows /\ U!Decided("denied", "apply") \in ConsentRows
  BY <1>1 DEF U!Decided, ConsentRows, Authors
<1>3. setupConsent' \in [U!Roots -> ConsentRows]
  BY <1>1, <1>2 DEF CommitsRows
<1>4. \A r \in U!Roots :
         IF r \in U!Named(setup[p].plan)
         THEN /\ setupConsent'[r].by = "apply" /\ setupConsent'[r].at = setupChanges + 1
              /\ setupConsent'[r].state \in {"approved", "denied"}
         ELSE setupConsent'[r] = setupConsent[r]
  BY DEF CommitsRows, U!Named, U!Decided
<1>5. setupChanges' \in {setupChanges, setupChanges + 1}
  BY <1>1 DEF CommitsRows
<1>6. U!Named(setup[p].plan) # {} => setupChanges' = setupChanges + 1
  <2> SUFFICES ASSUME NEW r \in U!Named(setup[p].plan) PROVE setupChanges' = setupChanges + 1
    OBVIOUS
  <2>1. setupConsent'[r].at = setupChanges + 1 /\ setupConsent[r].at <= setupChanges
        /\ setupConsent[r].at \in Nat
    BY <1>1, <1>4 DEF ConsentRows
  <2>2. setupConsent' # setupConsent
    BY <1>1, <2>1
  <2> QED  BY <1>1, <2>2 DEF CommitsRows
<1>7. \A r \in U!Roots : setupConsent'[r].at <= setupChanges'
  <2> SUFFICES ASSUME NEW r \in U!Roots PROVE setupConsent'[r].at <= setupChanges'
    OBVIOUS
  <2>1. setupConsent[r].at \in Nat
    BY <1>1 DEF ConsentRows
  <2>2. CASE r \in U!Named(setup[p].plan)
    BY <1>1, <1>4, <1>6, <2>2
  <2>3. CASE r \notin U!Named(setup[p].plan)
    BY <1>1, <1>4, <1>5, <2>1, <2>3
  <2> QED  BY <2>2, <2>3
<1> QED  BY <1>3, <1>4, <1>5, <1>6, <1>7 DEF U!Named

\* Before the writing and after it.
ReleaseStep(p) ==
    \/ U!Rechecks(p) \/ U!ReleasesUndone(p) \/ U!ReleasesCommitted(p)
RecoveryStep(p) == U!FindsConflict(p) \/ U!FindsCommitted(p) \/ U!FindsUndone(p)

LEMMA StepsOfSetup ==
    U!SetupNext =>
        \/ OthersStep
        \/ \E p \in Setups :
              \/ \E mode, selected, tools, search : U!Reviews(p, mode, selected, tools, search)
              \/ QuietStep(p) \/ U!Publishes(p) \/ ReleaseStep(p) \/ WritingStep(p)
              \/ RecoveryStep(p)
BY DEF U!SetupNext, U!Applies, OthersStep, QuietStep, ReleaseStep, WritingStep, RecoveryStep

LEMMA ReleaseIs ==
    ASSUME NEW p, ReleaseStep(p)
    PROVE  /\ UNCHANGED <<settings, setupConsent, latest, setupChanges>>
           /\ setup[p].step \in {"published", "undone", "committed"}
           /\ \/ UNCHANGED setupJournal
              \/ setupJournal = setup[p].held /\ setupJournal' = U!NoJournal
           /\ \/ U!Goes(p, "fresh") /\ U!StateIsFresh(p) /\ UNCHANGED setupJournal
                 /\ setup[p].step = "published"
              \/ U!Stops(p)
              \/ /\ setup[p].step = "committed"
                 /\ setup' = [setup EXCEPT ![p] = [U!Idle EXCEPT !.step = "importing",
                                                   !.import = setup[p].plan.grants]]
<1>1. CASE U!Rechecks(p)
  BY <1>1 DEF U!Rechecks, U!Releases, U!boundVars
<1>2. CASE U!ReleasesUndone(p)
  BY <1>2 DEF U!ReleasesUndone, U!Releases, U!boundVars
<1>3. CASE U!ReleasesCommitted(p)
  BY <1>3 DEF U!ReleasesCommitted, U!Releases, U!boundVars
<1> QED  BY <1>1, <1>2, <1>3 DEF ReleaseStep

\* A number that was not given before.
LEMMA AboutIs ==
    ASSUME latest.id \in Nat, NEW j, j.id \in Nat
    PROVE  /\ U!About(j) = [id |-> U!About(j).id, roots |-> DOMAIN j.rows, overlaps |-> FALSE,
                            keys |-> U!About(j).keys]
           /\ U!About(j).id \in Nat /\ latest.id <= U!About(j).id /\ j.id <= U!About(j).id
BY DEF U!About

LEMMA TypesOfPublication ==
    ASSUME SetupTypes, JournalInv, NEW p \in Setups, U!Publishes(p)
    PROVE  SetupTypes'
<1>1. SetupShape /\ WorldShape
  BY DEF SetupTypes
<1>2. setup[p].step = "captured" /\ UNCHANGED setupChanges
  BY DEF U!Publishes, U!boundVars
<1>3. setupChanges' \in {setupChanges, setupChanges + 1}
  BY <1>2
<1>4. U!Goes(p, "published") \/ U!Stops(p)
  BY DEF U!Publishes
<1>5. SetupShape'
  BY <1>3, <1>4, StepsKeepShape
<1>6. ASSUME UNCHANGED <<latest, settings, setupConsent>>
      PROVE  WorldShape'
  BY <1>1, <1>2, <1>6, WorldIsSame
<1>7. ASSUME latest' = U!About(setup[p].held),
             settings' = [k \in U!Keys |-> [settings[k] EXCEPT !.by = "before"]],
             setupConsent' = [r \in U!Roots |-> [setupConsent[r] EXCEPT !.by = "before"]]
      PROVE  WorldShape'
  <2>1. setup[p].held.id \in Nat
    BY <1>2 DEF JournalInv, HoldsJournal, HoldsNewer, JournalIsWhole
  <2>2. LatestShape'
    BY <1>1, <1>7, <2>1, AboutIs DEF WorldShape, LatestShape
  <2>3. ASSUME NEW r \in U!Roots
        PROVE  setupConsent'[r] \in ConsentRows /\ setupConsent'[r].at = setupConsent[r].at
               /\ setupConsent'[r].by = "before"
    <3>1. setupConsent[r] \in ConsentRows
      BY <1>1 DEF WorldShape, ConsentShape
    <3>2. setupConsent'[r] = [setupConsent[r] EXCEPT !.by = "before"]
      BY <1>7
    <3> QED  BY <3>1, <3>2 DEF ConsentRows, Authors
  <2>4. ConsentShape'
    <3>1. setupConsent' \in [U!Roots -> ConsentRows]
      BY <1>7, <2>3
    <3>2. setupChanges \in Nat /\ \A r \in U!Roots : setupConsent[r].at <= setupChanges
      BY <1>1 DEF WorldShape, ConsentShape
    <3> QED  BY <1>2, <2>3, <3>1, <3>2 DEF ConsentShape
  <2>5. ASSUME NEW k \in U!Keys
        PROVE  settings'[k] = [value |-> settings'[k].value, by |-> settings'[k].by]
               /\ settings'[k].by \in Authors
    <3>1. settings[k] = [value |-> settings[k].value, by |-> settings[k].by]
      BY <1>1 DEF WorldShape, SettingsShape
    <3>2. settings'[k] = [settings[k] EXCEPT !.by = "before"]
      BY <1>7
    <3> QED  BY <3>1, <3>2 DEF Authors
  <2>6. SettingsShape'
    BY <1>7, <2>5 DEF SettingsShape
  <2> QED  BY <1>1, <1>2, <2>2, <2>4, <2>6 DEF WorldShape
<1>8. WorldShape'
  <2>1. CASE setupJournal # U!NoJournal
    BY <1>6, <2>1 DEF U!Publishes
  <2>2. CASE setupJournal = U!NoJournal
    BY <1>7, <2>2 DEF U!Publishes
  <2> QED  BY <2>1, <2>2
<1> QED  BY <1>5, <1>8 DEF SetupTypes

\* What the undoing or the writing of one process leaves of config.json.
LEMMA SettingsOfWriting ==
    ASSUME SetupTypes, JournalInv, NEW p \in Setups, WritingStep(p)
    PROVE  SettingsShape'
<1>1. WorldShape /\ setupChanges \in Nat
  BY DEF SetupTypes, WorldShape
<1>2. setup[p].step \in Holding
  BY <1>1, WritingIs DEF Holding
<1>3. DOMAIN setupJournal.previous \subseteq U!Keys
  BY <1>2, HeldJournal DEF JournalIsWhole
<1>4. CASE UNCHANGED settings
  BY <1>1, <1>4 DEF WorldShape, SettingsShape
<1>5. CASE U!RevertOwnSettings(setupJournal)
  BY <1>1, <1>3, <1>5, SettingsAreReverted DEF SettingsShape
<1>6. CASE U!SetSettings(setup[p].plan.settings, "apply")
  BY <1>1, <1>6, SettingsAreWritten DEF SettingsShape, Authors
<1> QED  BY <1>1, <1>4, <1>5, <1>6, WritingIs DEF Undoes, Writes, Checks, CommitsRows

LEMMA SetupTypesAreKept ==
    ASSUME SetupTypes, JournalInv, U!SetupNext
    PROVE  SetupTypes'
<1>1. SetupShape /\ WorldShape /\ setupChanges \in Nat
  BY DEF SetupTypes, WorldShape
<1>2. ASSUME OthersStep
      PROVE  SetupTypes'
  <2>1. OthersOnly
    BY <1>2, OthersDecide
  <2>2. setupChanges' \in Nat /\ setupChanges <= setupChanges' /\ UNCHANGED <<latest, setup>>
    BY <1>1, <2>1, NextNumber DEF OthersOnly
  <2>3. LatestShape'
    BY <1>1, <2>2 DEF WorldShape, LatestShape
  <2>4. ASSUME NEW r \in U!Roots
        PROVE  /\ setupConsent'[r] \in ConsentRows /\ setupConsent'[r].at <= setupChanges'
               /\ setupConsent'[r].by = "apply" => U!Explicit(r)'
    <3>1. setupConsent[r] \in ConsentRows /\ setupConsent[r].at <= setupChanges
          /\ setupConsent[r].at \in Nat /\ (setupConsent[r].by = "apply" => U!Explicit(r))
      BY <1>1 DEF WorldShape, ConsentShape, ConsentRows
    <3>2. setupConsent'[r] = setupConsent[r] \/ DecidedSince(r)
      BY <2>1 DEF OthersOnly
    <3> QED  BY <1>1, <2>2, <3>1, <3>2 DEF DecidedSince, U!Explicit
  <2>5. ConsentShape'
    BY <2>1, <2>4 DEF OthersOnly, ConsentShape
  <2>6. SettingsShape'
    BY <1>1, <2>1 DEF OthersOnly, WorldShape, SettingsShape, Authors
  <2>7. ASSUME NEW p \in Setups
        PROVE  IsSetup(setup[p], setupChanges')
    <3>1. IsSetup(setup[p], setupChanges)
      BY <1>1 DEF SetupShape
    <3> QED  BY <1>1, <2>2, <3>1 DEF IsSetup
  <2>8. SetupShape'
    BY <1>1, <2>2, <2>7 DEF SetupShape
  <2> QED  BY <2>2, <2>3, <2>5, <2>6, <2>8 DEF SetupTypes, WorldShape
<1>3. ASSUME NEW p \in Setups, NEW mode, NEW selected, NEW tools, NEW search,
             U!Reviews(p, mode, selected, tools, search)
      PROVE  SetupTypes'
  <2>1. PICK plan : /\ Becomes(p, Review(plan, U!PreviewState))
                    /\ U!Named(plan) \subseteq U!Roots /\ DOMAIN plan.settings \subseteq U!Keys
                    /\ UNCHANGED <<settings, setupConsent, setupJournal, latest, setupChanges>>
    BY <1>3, ReviewsAre
  <2>2. IsSetup(Review(plan, U!PreviewState), setupChanges')
    BY <1>1, <2>1, ReviewIs, NextNumber DEF IsSetup
  <2>3. SetupShape'
    BY <1>1, <2>1, <2>2, ShapeIsKept
  <2> QED  BY <1>1, <2>1, <2>3, WorldIsSame DEF SetupTypes
<1>4. ASSUME NEW p \in Setups, QuietStep(p)
      PROVE  SetupTypes'
  <2>1. UNCHANGED <<settings, setupConsent, setupJournal, latest, setupChanges>>
    BY <1>4, QuietIs
  <2>2. setupChanges' \in {setupChanges, setupChanges + 1}
    BY <2>1
  <2>3. CASE U!Stops(p) \/ U!Goes(p, "preparing") \/ U!Goes(p, "prepared")
    <3>1. SetupShape'
      BY <2>2, <2>3, StepsKeepShape
    <3> QED  BY <1>1, <2>1, <3>1, WorldIsSame DEF SetupTypes
  <2>4. CASE setup' = [setup EXCEPT ![p] = [setup[p] EXCEPT !.step = "captured",
                                                           !.held = U!NewJournal(p)]]
    <3>1. \E s, h : setup' = [setup EXCEPT ![p] = [setup[p] EXCEPT !.step = s, !.held = h]]
      BY <2>4, Zenon
    <3>2. SetupShape'
      BY <2>2, <3>1, StepsKeepShape
    <3> QED  BY <1>1, <2>1, <3>2, WorldIsSame DEF SetupTypes
  <2> QED  BY <1>4, <2>3, <2>4, QuietIs
<1>5. ASSUME NEW p \in Setups, ReleaseStep(p)
      PROVE  SetupTypes'
  <2>1. UNCHANGED <<settings, setupConsent, latest, setupChanges>>
    BY <1>5, ReleaseIs
  <2>2. setupChanges' \in {setupChanges, setupChanges + 1}
    BY <2>1
  <2>3. CASE U!Stops(p) \/ U!Goes(p, "fresh")
    <3>1. SetupShape'
      BY <2>2, <2>3, StepsKeepShape
    <3> QED  BY <1>1, <2>1, <3>1, WorldIsSame DEF SetupTypes
  <2>4. CASE setup' = [setup EXCEPT ![p] = [U!Idle EXCEPT !.step = "importing",
                                                         !.import = setup[p].plan.grants]]
    <3>1. \E s, i : setup' = [setup EXCEPT ![p] = [U!Idle EXCEPT !.step = s, !.import = i]]
      BY <2>4, Zenon
    <3>2. SetupShape'
      BY <2>2, <3>1, StepsKeepShape
    <3> QED  BY <1>1, <2>1, <3>2, WorldIsSame DEF SetupTypes
  <2> QED  BY <1>5, <2>3, <2>4, ReleaseIs
<1>6. ASSUME NEW p \in Setups, WritingStep(p)
      PROVE  SetupTypes'
  <2>1. SettingsShape' /\ UNCHANGED <<setupJournal, latest>>
    BY <1>1, <1>6, SettingsOfWriting, WritingIs
  <2>2. LatestShape'
    BY <1>1, <2>1 DEF WorldShape, LatestShape
  <2>3. setupChanges' \in {setupChanges, setupChanges + 1} /\ ConsentShape'
    <3>1. CASE CommitsRows(p)
      <4>1. ASSUME NEW r \in U!Roots
            PROVE  setupConsent'[r].at <= setupChanges'
                   /\ (setupConsent'[r].by = "apply" => U!Explicit(r)')
        <5>1. setupConsent[r].by = "apply" => U!Explicit(r)
          BY <1>1 DEF WorldShape, ConsentShape
        <5> QED  BY <3>1, <5>1, RowsAreCommitted DEF U!Explicit
      <4> QED  BY <3>1, <4>1, RowsAreCommitted DEF ConsentShape
    <3>2. CASE UNCHANGED <<setupConsent, setupChanges>>
      BY <1>1, <3>2 DEF WorldShape, ConsentShape, U!Explicit
    <3> QED  BY <1>1, <1>6, <3>1, <3>2, WritingIs DEF Undoes, Writes, Checks
  <2>4. U!Stops(p) \/ \E s : U!Goes(p, s)
    BY <1>1, <1>6, WritingIs DEF Undoes, Writes, Checks, CommitsRows
  <2>5. SetupShape'
    BY <2>3, <2>4, StepsKeepShape
  <2> QED  BY <1>1, <2>1, <2>2, <2>3, <2>5, NextNumber DEF SetupTypes, WorldShape
<1>7. ASSUME NEW p \in Setups, U!FindsConflict(p)
      PROVE  SetupTypes'
  <2>1. /\ UNCHANGED <<settings, setupConsent, setup, setupChanges>>
        /\ latest' = [latest EXCEPT !.overlaps = TRUE]
    BY <1>7 DEF U!FindsConflict, U!boundVars
  <2>2. WorldShape'
    BY <1>1, <2>1, WorldIsKept DEF WorldShape, SettingsShape
  <2>3. SetupShape'
    BY <1>1, <2>1 DEF SetupShape
  <2> QED  BY <2>2, <2>3 DEF SetupTypes
<1>8. ASSUME NEW p \in Setups, U!FindsCommitted(p)
      PROVE  SetupTypes'
  <2>1. /\ UNCHANGED <<settings, setupConsent, latest, setupChanges>>
        /\ setup' = [setup EXCEPT ![p] = [U!Idle EXCEPT !.step = "importing",
                                                       !.import = U!Confirmed]]
    BY <1>8 DEF U!FindsCommitted, U!boundVars
  <2>2. SetupShape'
    BY <2>1, StepsKeepShape
  <2> QED  BY <1>1, <2>1, <2>2, WorldIsSame DEF SetupTypes
<1>9. ASSUME NEW p \in Setups, U!FindsUndone(p)
      PROVE  SetupTypes'
  <2>1. /\ UNCHANGED <<setupConsent, latest, setupChanges>> /\ setupJournal # U!NoJournal
        /\ U!RevertOwnSettings(setupJournal)
        /\ setup' = [setup EXCEPT ![p] = [U!Idle EXCEPT !.step = "undone",
                                                       !.held = setupJournal]]
    BY <1>9 DEF U!FindsUndone, U!Recovers, U!boundVars
  <2>2. DOMAIN setupJournal.previous \subseteq U!Keys
    BY <2>1 DEF JournalInv, HoldsJournal, HoldsNewer, JournalIsWhole
  <2>3. WorldShape'
    BY <1>1, <2>1, <2>2, SettingsAreReverted, WorldIsKept
  <2>4. SetupShape'
    BY <2>1, StepsKeepShape
  <2> QED  BY <2>3, <2>4 DEF SetupTypes
<1> QED
  BY <1>2, <1>3, <1>4, <1>5, <1>6, <1>7, <1>8, <1>9, TypesOfPublication, StepsOfSetup
  DEF RecoveryStep

LEMMA WholeIsKept ==
    ASSUME SetupTypes, setupChanges' \in {setupChanges, setupChanges + 1}, NEW j,
           JournalIsWhole(j, setupChanges)
    PROVE  JournalIsWhole(j, setupChanges')
<1>1. setupChanges \in Nat
  BY DEF SetupTypes, WorldShape
<1> QED  BY <1>1 DEF JournalIsWhole, ConsentRows

LEMMA FieldsOfIdle ==
    /\ U!Idle.step = "idle" /\ U!Idle.held = <<>>
    /\ \A s, i : [U!Idle EXCEPT !.step = s, !.import = i].step = s
    /\ \A s, h : /\ [U!Idle EXCEPT !.step = s, !.held = h].step = s
                 /\ [U!Idle EXCEPT !.step = s, !.held = h].held = h
BY DEF U!Idle

LEMMA ImportsFromIdle ==
    ASSUME SetupShape, NEW p \in Setups, NEW s, NEW i,
           setup' = [setup EXCEPT ![p] = [U!Idle EXCEPT !.step = s, !.import = i]]
    PROVE  \E x : Becomes(p, x) /\ x.step = s
<1> DEFINE x == [U!Idle EXCEPT !.step = s, !.import = i]
<1>1. Becomes(p, x) /\ x.step = s
  BY StepsOfOne, FieldsOfIdle
<1> HIDE DEF x
<1> QED  BY <1>1

LEMMA UndoesFromIdle ==
    ASSUME SetupShape, NEW p \in Setups, NEW s, NEW h,
           setup' = [setup EXCEPT ![p] = [U!Idle EXCEPT !.step = s, !.held = h]]
    PROVE  \E x : Becomes(p, x) /\ x.step = s
<1> DEFINE x == [U!Idle EXCEPT !.step = s, !.held = h]
<1>1. Becomes(p, x)
  BY StepsOfOne
<1>2. x.step = s
  BY FieldsOfIdle
<1> HIDE DEF x
<1> QED  BY <1>1, <1>2

\* A process that holds no journal and undoes none cannot break the invariant, as long
\* as the journal stays or is of no one who holds it.
LEMMA JournalStays ==
    ASSUME SetupTypes, JournalInv, NEW p \in Setups, NEW x, Becomes(p, x),
           x.step \notin Holding \union {"captured", "undone"},
           setupChanges' \in {setupChanges, setupChanges + 1},
           latest'.id = latest.id,
           \/ UNCHANGED setupJournal
           \/ /\ setupJournal' = U!NoJournal
              /\ \A q \in Setups : setup[q].step \in Holding => q = p
    PROVE  JournalInv'
<1>1. /\ setupJournal' # U!NoJournal =>
            /\ JournalIsWhole(setupJournal', setupChanges')
            /\ setupJournal'.owner \in Setups /\ setupJournal'.id <= latest'.id
  BY WholeIsKept DEF JournalInv
<1>2. ASSUME NEW q \in Setups
      PROVE  HoldsJournal(q)'
  <2>1. CASE q = p
    <3>1. setup'[q] = x
      BY <2>1 DEF Becomes
    <3> QED  BY <3>1 DEF HoldsJournal
  <2>2. CASE q # p
    <3>1. setup'[q] = setup[q] /\ HoldsJournal(q)
      BY <2>2 DEF Becomes, JournalInv
    <3>2. setup[q].step \in Holding => UNCHANGED setupJournal
      BY <2>2
    <3> QED  BY <3>1, <3>2, WholeIsKept DEF HoldsJournal
  <2> QED  BY <2>1, <2>2
<1>3. ASSUME NEW q \in Setups, NEW o \in Setups
      PROVE  HoldsNewer(q, o)'
  <2>1. CASE q = p
    <3>1. setup'[q] = x
      BY <2>1 DEF Becomes
    <3> QED  BY <3>1 DEF HoldsNewer
  <2>2. CASE o = p
    <3>1. setup'[o] = x
      BY <2>2 DEF Becomes
    <3> QED  BY <3>1 DEF HoldsNewer
  <2>3. CASE q # p /\ o # p
    <3>1. setup'[q] = setup[q] /\ setup'[o] = setup[o] /\ HoldsNewer(q, o)
      BY <2>3 DEF Becomes, JournalInv
    <3> QED  BY <3>1 DEF HoldsNewer
  <2> QED  BY <2>1, <2>2, <2>3
<1> QED  BY <1>1, <1>2, <1>3 DEF JournalInv

\* What a process that holds a journal, or undoes one, has to keep.
LEMMA JournalMoves ==
    ASSUME SetupTypes, JournalInv, NEW p \in Setups, NEW x, Becomes(p, x),
           setupChanges' \in {setupChanges, setupChanges + 1},
           latest'.id \in Nat, latest.id <= latest'.id,
           setupJournal' # U!NoJournal =>
              /\ JournalIsWhole(setupJournal', setupChanges')
              /\ setupJournal'.owner \in Setups /\ setupJournal'.id <= latest'.id,
           x.step \in Holding \union {"captured"} =>
              /\ JournalIsWhole(x.held, setupChanges') /\ x.held.owner = p /\ x.held.plan = x.plan,
           x.step \in Holding => setupJournal' = x.held,
           x.step = "undone" => x.held.id \in 1 .. latest'.id,
           \A q \in Setups : q # p /\ setup[q].step \in Holding => UNCHANGED setupJournal,
           \A q \in Setups :
              q # p /\ setup[q].step = "undone" /\ setup[q].held.owner = p =>
                  (x.step \in Holding \union {"captured"} => x.held.id > setup[q].held.id),
           \A q \in Setups :
              q # p /\ x.step = "undone" /\ x.held.owner = q =>
                  (setup[q].step \in Holding \union {"captured"} => setup[q].held.id > x.held.id)
    PROVE  JournalInv'
<1>1. setup'[p] = x /\ \A q \in Setups : q # p => setup'[q] = setup[q]
  BY DEF Becomes
<1>2. ASSUME NEW q \in Setups
      PROVE  HoldsJournal(q)'
  <2>1. CASE q = p
    <3>1. setup'[q] = x
      BY <1>1, <2>1
    <3> QED  BY <2>1, <3>1 DEF HoldsJournal
  <2>2. CASE q # p
    <3>1. setup'[q] = setup[q] /\ HoldsJournal(q) /\ latest.id \in Nat
      BY <1>1, <2>2 DEF JournalInv, SetupTypes, WorldShape, LatestShape
    <3>2. setup[q].step \in Holding => UNCHANGED setupJournal
      BY <2>2
    <3> QED  BY <3>1, <3>2, WholeIsKept DEF HoldsJournal
  <2> QED  BY <2>1, <2>2
<1>3. ASSUME NEW q \in Setups, NEW o \in Setups
      PROVE  HoldsNewer(q, o)'
  <2>1. CASE q = p /\ o = p
    BY <2>1 DEF HoldsNewer
  <2>2. CASE q = p /\ o # p
    BY <1>1, <2>2 DEF HoldsNewer
  <2>3. CASE q # p /\ o = p
    BY <1>1, <2>3 DEF HoldsNewer
  <2>4. CASE q # p /\ o # p
    <3>1. setup'[q] = setup[q] /\ setup'[o] = setup[o] /\ HoldsNewer(q, o)
      BY <1>1, <2>4 DEF JournalInv
    <3> QED  BY <3>1 DEF HoldsNewer
  <2> QED  BY <2>1, <2>2, <2>3, <2>4
<1> QED  BY <1>2, <1>3 DEF JournalInv

\* Only one process holds a journal, and who undoes another's does not hold what it holds.
LEMMA OneHolds ==
    ASSUME JournalInv, NEW p \in Setups, NEW q \in Setups, setup[q].step \in Holding
    PROVE  /\ setup[p].step \in Holding => p = q
           /\ setup[p].step = "undone" => setupJournal # setup[p].held
<1>1. setupJournal = setup[q].held /\ setup[q].held.owner = q
  BY DEF JournalInv, HoldsJournal
<1>2. ASSUME setup[p].step \in Holding
      PROVE  p = q
  <2>1. setupJournal = setup[p].held /\ setup[p].held.owner = p
    BY <1>2 DEF JournalInv, HoldsJournal
  <2> QED  BY <1>1, <2>1
<1>3. ASSUME setup[p].step = "undone", setupJournal = setup[p].held
      PROVE  FALSE
  <2>1. p # q
    BY <1>3 DEF Holding
  <2>2. setup[p].held.owner = q
    BY <1>1, <1>3
  <2>3. setup[q].held.id > setup[p].held.id
    BY <1>3, <2>1, <2>2 DEF JournalInv, HoldsNewer
  <2>4. setup[q].held.id \in Nat
    BY DEF JournalInv, HoldsJournal, JournalIsWhole
  <2> QED  BY <1>1, <1>3, <2>3, <2>4
<1> QED  BY <1>2, <1>3

\* The journal that is captured is of the plan and newer than every other.
LEMMA CapturedIsWhole ==
    ASSUME SetupTypes, NEW p \in Setups
    PROVE  /\ JournalIsWhole(U!NewJournal(p), setupChanges)
           /\ U!NewJournal(p).owner = p /\ U!NewJournal(p).plan = setup[p].plan
           /\ U!NewJournal(p).id = latest.id + 1
           /\ \A r \in U!Named(setup[p].plan) : U!NewJournal(p).rows[r] = setupConsent[r]
           /\ DOMAIN U!NewJournal(p).rows = U!Named(setup[p].plan)
<1> DEFINE j == U!NewJournal(p)
<1>1. /\ j.owner = p /\ j.plan = setup[p].plan /\ j.id = latest.id + 1
      /\ j.previous = [k \in DOMAIN setup[p].plan.settings |-> U!Values[k]]
      /\ j.rows = [r \in U!Named(setup[p].plan) |-> setupConsent[r]]
  BY DEF U!NewJournal
<1>2. U!Named(setup[p].plan) \subseteq U!Roots /\ DOMAIN setup[p].plan.settings \subseteq U!Keys
  BY DEF SetupTypes, SetupShape, IsSetup
<1>3. /\ latest.id \in Nat /\ setupConsent \in [U!Roots -> ConsentRows]
      /\ \A r \in U!Roots : setupConsent[r].at <= setupChanges
  BY DEF SetupTypes, WorldShape, LatestShape, ConsentShape
<1> HIDE DEF j
<1>4. \A r \in DOMAIN j.rows : j.rows[r] \in ConsentRows /\ j.rows[r].at <= setupChanges
  BY <1>1, <1>2, <1>3
<1>5. JournalIsWhole(j, setupChanges)
  BY <1>1, <1>2, <1>3, <1>4 DEF JournalIsWhole
<1> QED  BY <1>1, <1>5 DEF j

LEMMA JournalIsKept ==
    ASSUME SetupTypes, JournalInv, U!SetupNext
    PROVE  JournalInv'
<1>1. /\ SetupShape /\ setupChanges \in Nat /\ latest.id \in Nat
      /\ setupJournal # U!NoJournal =>
            /\ JournalIsWhole(setupJournal, setupChanges)
            /\ setupJournal.owner \in Setups /\ setupJournal.id <= latest.id
  BY DEF SetupTypes, WorldShape, LatestShape, JournalInv
<1>2. ASSUME OthersStep
      PROVE  JournalInv'
  <2>1. UNCHANGED <<setupJournal, latest, setup>>
        /\ setupChanges' \in {setupChanges, setupChanges + 1}
    BY <1>2, OthersDecide DEF OthersOnly
  <2>2. \A q \in Setups : HoldsJournal(q)'
    BY <2>1, WholeIsKept DEF JournalInv, HoldsJournal
  <2> QED  BY <1>1, <2>1, <2>2, WholeIsKept DEF JournalInv, HoldsNewer
<1>3. ASSUME NEW p \in Setups, NEW mode, NEW selected, NEW tools, NEW search,
             U!Reviews(p, mode, selected, tools, search)
      PROVE  JournalInv'
  <2>1. PICK plan : /\ Becomes(p, Review(plan, U!PreviewState))
                    /\ UNCHANGED <<settings, setupConsent, setupJournal, latest, setupChanges>>
    BY <1>3, ReviewsAre
  <2>2. Review(plan, U!PreviewState).step = "reviewed"
    BY ReviewIs
  <2> QED  BY <2>1, <2>2, JournalStays DEF Holding
<1>4. ASSUME NEW p \in Setups, NEW x, Becomes(p, x),
             x.step \notin Holding \union {"captured", "undone"},
             UNCHANGED <<setupJournal, latest, setupChanges>>
      PROVE  JournalInv'
  BY <1>4, JournalStays
<1>5. ASSUME NEW p \in Setups, QuietStep(p)
      PROVE  JournalInv'
  <2>1. UNCHANGED <<setupJournal, latest, setupChanges>>
    BY <1>5, QuietIs
  <2>2. CASE U!Stops(p)
    BY <1>1, <1>4, <2>1, <2>2, StepsOfOne, FieldsOfIdle DEF Holding
  <2>3. ASSUME NEW s \in {"preparing", "prepared"}, U!Goes(p, s)
        PROVE  JournalInv'
    <3>1. Becomes(p, At(p, s)) /\ At(p, s).step = s
      BY <1>1, <2>3, StepsOfOne
    <3> QED  BY <1>4, <2>1, <3>1 DEF Holding
  <2>4. CASE setup' = [setup EXCEPT ![p] = [setup[p] EXCEPT !.step = "captured",
                                                           !.held = U!NewJournal(p)]]
    <3> DEFINE j == U!NewJournal(p)
               x == [setup[p] EXCEPT !.step = "captured", !.held = j]
    <3>1. JournalIsWhole(j, setupChanges) /\ j.owner = p /\ j.plan = setup[p].plan
          /\ j.id = latest.id + 1
      BY CapturedIsWhole
    <3>2. Becomes(p, x)
      BY <1>1, <2>4, StepsOfOne
    <3>3. setup[p] = [step |-> setup[p].step, plan |-> setup[p].plan, seen |-> setup[p].seen,
                      since |-> setup[p].since, held |-> setup[p].held,
                      import |-> setup[p].import]
      BY <1>1 DEF SetupShape, IsSetup
    <3> HIDE DEF j
    <3>4. x.step = "captured" /\ x.held = j /\ x.plan = setup[p].plan
      BY <3>3
    <3> HIDE DEF x
    <3>5. \A q \in Setups : setup[q].step = "undone" => j.id > setup[q].held.id
      BY <1>1, <3>1 DEF JournalInv, HoldsJournal
    <3> QED  BY <1>1, <2>1, <3>1, <3>2, <3>4, <3>5, JournalMoves DEF Holding
  <2> QED  BY <1>5, <2>2, <2>3, <2>4, QuietIs
<1>6. ASSUME NEW p \in Setups, U!Publishes(p)
      PROVE  JournalInv'
  <2> DEFINE j == setup[p].held
  <2>1. setup[p].step = "captured" /\ UNCHANGED setupChanges
    BY <1>6 DEF U!Publishes, U!boundVars
  <2>2. JournalIsWhole(j, setupChanges) /\ j.owner = p /\ j.plan = setup[p].plan
    BY <2>1 DEF JournalInv, HoldsJournal
  <2>3. CASE U!Stops(p) /\ UNCHANGED <<setupJournal, latest>>
    BY <1>1, <1>4, <2>1, <2>3, StepsOfOne, FieldsOfIdle DEF Holding
  <2>4. CASE /\ setupJournal = U!NoJournal /\ U!Goes(p, "published")
             /\ setupJournal' = j /\ latest' = U!About(j)
    <3>1. Becomes(p, At(p, "published")) /\ At(p, "published").step = "published"
          /\ At(p, "published").held = j /\ At(p, "published").plan = setup[p].plan
      BY <1>1, <2>4, StepsOfOne
    <3>2. j.id \in Nat
      BY <2>2 DEF JournalIsWhole
    <3>3. latest'.id \in Nat /\ latest.id <= latest'.id /\ j.id <= latest'.id
      BY <1>1, <2>4, <3>2, AboutIs
    <3>4. \A q \in Setups : setup[q].step \notin Holding
      BY <2>4, HeldJournal
    <3>5. \A q \in Setups :
             q # p /\ setup[q].step = "undone" /\ setup[q].held.owner = p => j.id > setup[q].held.id
      BY <2>1 DEF JournalInv, HoldsNewer
    <3> HIDE DEF j
    <3> QED  BY <2>1, <2>2, <2>4, <3>1, <3>3, <3>4, <3>5, JournalMoves
  <2>5. CASE setupJournal # U!NoJournal
    BY <1>6, <2>3, <2>5 DEF U!Publishes
  <2>6. CASE setupJournal = U!NoJournal
    BY <1>6, <2>4, <2>6 DEF U!Publishes
  <2> QED  BY <2>5, <2>6
<1>7. ASSUME NEW p \in Setups, ReleaseStep(p)
      PROVE  JournalInv'
  <2>1. /\ UNCHANGED <<latest, setupChanges>> /\ setup[p].step \in {"published", "undone", "committed"}
        /\ \/ UNCHANGED setupJournal
           \/ setupJournal = setup[p].held /\ setupJournal' = U!NoJournal
    BY <1>7, ReleaseIs
  <2>2. \A q \in Setups : setup[q].step \in Holding =>
           q = p \/ (setup[p].step = "undone" /\ setupJournal # setup[p].held)
    BY <2>1, OneHolds DEF Holding
  <2>3. \/ UNCHANGED setupJournal
        \/ /\ setupJournal' = U!NoJournal
           /\ \A q \in Setups : setup[q].step \in Holding => q = p
    BY <2>1, <2>2
  <2>4. CASE U!Goes(p, "fresh") /\ UNCHANGED setupJournal /\ setup[p].step = "published"
    <3>1. Becomes(p, At(p, "fresh")) /\ At(p, "fresh").step = "fresh"
          /\ At(p, "fresh").held = setup[p].held /\ At(p, "fresh").plan = setup[p].plan
      BY <1>1, <2>4, StepsOfOne
    <3>2. /\ setup[p].step \in Holding /\ HoldsJournal(p)
      BY <2>4 DEF Holding, JournalInv
    <3>3. \A q \in Setups : HoldsNewer(p, q)
      BY DEF JournalInv
    <3>4. /\ JournalIsWhole(setup[p].held, setupChanges) /\ setupJournal = setup[p].held
          /\ setup[p].held.owner = p /\ setup[p].held.plan = setup[p].plan
      BY <3>2 DEF HoldsJournal
    <3> QED  BY <1>1, <2>1, <2>4, <3>1, <3>2, <3>3, <3>4, JournalMoves DEF HoldsNewer
  <2>5. ASSUME NEW x, Becomes(p, x), x.step \in {"idle", "importing"}
        PROVE  JournalInv'
    BY <1>1, <2>1, <2>3, <2>5, JournalStays DEF Holding
  <2>6. CASE U!Stops(p)
    BY <1>1, <2>5, <2>6, StepsOfOne, FieldsOfIdle
  <2>7. CASE setup' = [setup EXCEPT ![p] = [U!Idle EXCEPT !.step = "importing",
                                                         !.import = setup[p].plan.grants]]
    <3>1. \E x : Becomes(p, x) /\ x.step = "importing"
      BY <1>1, <2>7, ImportsFromIdle
    <3> QED  BY <2>5, <3>1
  <2> QED  BY <1>7, <2>4, <2>6, <2>7, ReleaseIs
<1>8. ASSUME NEW p \in Setups, WritingStep(p)
      PROVE  JournalInv'
  <2>1. /\ UNCHANGED <<setupJournal, latest>> /\ setup[p].step \in {"fresh", "written", "checked"}
        /\ Undoes(p) \/ Writes(p) \/ Checks(p) \/ CommitsRows(p)
    BY <1>1, <1>8, WritingIs
  <2>2. setup[p].step \in Holding
    BY <2>1 DEF Holding
  <2>3. /\ JournalIsWhole(setup[p].held, setupChanges) /\ setupJournal = setup[p].held
        /\ setup[p].held.owner = p /\ setup[p].held.plan = setup[p].plan
        /\ setup[p].held.id \in Nat \ {0} /\ setup[p].held.id <= latest.id
    BY <1>1, <2>2, HeldJournal DEF JournalIsWhole
  <2>4. setupChanges' \in {setupChanges, setupChanges + 1}
    BY <1>1, <2>1, RowsAreCommitted DEF Undoes, Writes, Checks
  <2>5. \A q \in Setups : HoldsNewer(p, q)
    BY DEF JournalInv
  <2>6. ASSUME NEW s \in {"undone", "written", "checked", "committed"}, U!Goes(p, s)
        PROVE  JournalInv'
    <3>1. Becomes(p, At(p, s)) /\ At(p, s).step = s
          /\ At(p, s).held = setup[p].held /\ At(p, s).plan = setup[p].plan
      BY <1>1, <2>6, StepsOfOne
    <3>2. JournalIsWhole(setup[p].held, setupChanges')
      BY <2>3, <2>4, WholeIsKept
    <3>3. setup[p].held.id \in 1 .. latest.id
      BY <1>1, <2>3
    <3>4. \A q \in Setups : q # p /\ setup[q].step = "undone" /\ setup[q].held.owner = p
             => setup[p].held.id > setup[q].held.id
      BY <2>2, <2>5 DEF HoldsNewer
    <3> QED  BY <1>1, <2>1, <2>3, <2>4, <3>1, <3>2, <3>3, <3>4, JournalMoves
  <2>7. CASE U!Stops(p)
    BY <1>1, <2>1, <2>4, <2>7, StepsOfOne, FieldsOfIdle, JournalStays DEF Holding
  <2> QED  BY <2>1, <2>6, <2>7 DEF Undoes, Writes, Checks, CommitsRows
<1>9. ASSUME NEW p \in Setups, RecoveryStep(p)
      PROVE  JournalInv'
  <2>1. U!Recovers(p)
    BY <1>9 DEF RecoveryStep, U!FindsConflict, U!FindsCommitted, U!FindsUndone
  <2>2. /\ setup[p].step = "idle" /\ setupJournal # U!NoJournal
        /\ setup[setupJournal.owner].step = "idle"
    BY <2>1 DEF U!Recovers, U!OwnerIsLive
  <2>3. \A q \in Setups : setup[q].step \notin Holding
    BY <2>2, HeldJournal DEF Holding
  <2>4. CASE U!FindsConflict(p)
    <3>1. /\ UNCHANGED <<setup, setupChanges>> /\ setupJournal' = U!NoJournal
          /\ latest'.id = latest.id
      BY <1>1, <2>4 DEF U!FindsConflict, U!boundVars, SetupTypes, WorldShape, LatestShape
    <3>2. Becomes(p, setup[p])
      BY <1>1, <3>1 DEF Becomes, SetupShape
    <3> QED  BY <1>1, <2>2, <2>3, <3>1, <3>2, JournalStays DEF Holding
  <2>5. CASE U!FindsCommitted(p)
    <3>1. /\ UNCHANGED <<latest, setupChanges>> /\ setupJournal' = U!NoJournal
          /\ setup' = [setup EXCEPT ![p] = [U!Idle EXCEPT !.step = "importing",
                                                         !.import = U!Confirmed]]
      BY <2>5 DEF U!FindsCommitted, U!boundVars
    <3>2. \E x : Becomes(p, x) /\ x.step = "importing"
      BY <1>1, <3>1, ImportsFromIdle
    <3> QED  BY <1>1, <2>3, <3>1, <3>2, JournalStays DEF Holding
  <2>6. CASE U!FindsUndone(p)
    <3>1. /\ UNCHANGED <<latest, setupChanges, setupJournal>>
          /\ setup' = [setup EXCEPT ![p] = [U!Idle EXCEPT !.step = "undone",
                                                         !.held = setupJournal]]
      BY <2>6 DEF U!FindsUndone, U!boundVars
    <3> DEFINE undoing == [U!Idle EXCEPT !.step = "undone", !.held = setupJournal]
    <3>5. Becomes(p, undoing)
      BY <1>1, <3>1, StepsOfOne
    <3>6. undoing.step = "undone" /\ undoing.held = setupJournal
      BY FieldsOfIdle
    <3> HIDE DEF undoing
    <3>2. PICK x : Becomes(p, x) /\ x.step = "undone" /\ x.held = setupJournal
      BY <3>5, <3>6
    <3>3. setupJournal.id \in 1 .. latest.id
      BY <1>1, <2>2 DEF JournalIsWhole
    <3>4. \A q \in Setups : x.held.owner = q => setup[q].step \notin Holding \union {"captured"}
      BY <2>2, <3>2 DEF Holding
    <3> QED  BY <1>1, <2>3, <3>1, <3>2, <3>3, <3>4, JournalMoves DEF Holding
  <2> QED  BY <1>9, <2>4, <2>5, <2>6 DEF RecoveryStep
<1> QED
  BY <1>2, <1>3, <1>5, <1>6, <1>7, <1>8, <1>9, StepsOfSetup

\* A row without who decided about it.
LEMMA WithoutAuthor ==
    ASSUME NEW a \in ConsentRows, NEW b \in ConsentRows
    PROVE  /\ [a EXCEPT !.by = "any"] = [b EXCEPT !.by = "any"] <=> SameAs(a, b)
           /\ [a EXCEPT !.by = "any"].at = a.at
<1>1. /\ a = [state |-> a.state, source |-> a.source, at |-> a.at, by |-> a.by]
      /\ b = [state |-> b.state, source |-> b.source, at |-> b.at, by |-> b.by]
  BY DEF ConsentRows
<1>2. /\ [a EXCEPT !.by = "any"]
           = [state |-> a.state, source |-> a.source, at |-> a.at, by |-> "any"]
      /\ [b EXCEPT !.by = "any"]
           = [state |-> b.state, source |-> b.source, at |-> b.at, by |-> "any"]
  BY <1>1
<1> QED  BY <1>2 DEF SameAs

\* A decision is as before, or it is new.
Stays(r) ==
    \/ SameAs(setupConsent'[r], setupConsent[r])
    \/ setupConsent'[r].at > setupChanges
    \/ setupConsent'[r].state \notin {"approved", "denied"}

LEMMA DecisionsAreNew ==
    ASSUME SetupTypes, U!SetupNext, NEW CONSTANT r \in U!Roots
    PROVE  Stays(r)
<1>1. WorldShape /\ setupChanges \in Nat /\ setupConsent \in [U!Roots -> ConsentRows]
  BY DEF SetupTypes, WorldShape, ConsentShape
<1>2. UNCHANGED setupConsent => Stays(r)
  BY DEF Stays, SameAs
<1>3. ASSUME OthersStep
      PROVE  Stays(r)
  <2>1. setupConsent'[r] = setupConsent[r] \/ DecidedSince(r)
    BY <1>3, OthersDecide DEF OthersOnly
  <2> QED  BY <2>1 DEF Stays, SameAs, DecidedSince
<1>4. ASSUME NEW p \in Setups, U!Publishes(p)
      PROVE  Stays(r)
  <2>1. \/ UNCHANGED setupConsent
        \/ setupConsent' = [q \in U!Roots |-> [setupConsent[q] EXCEPT !.by = "before"]]
    BY <1>4 DEF U!Publishes
  <2>2. setupConsent[r] \in ConsentRows
    BY <1>1
  <2>3. CASE setupConsent'[r] = [setupConsent[r] EXCEPT !.by = "before"]
    BY <2>2, <2>3 DEF Stays, SameAs, ConsentRows
  <2> QED  BY <1>2, <2>1, <2>3
<1>5. ASSUME NEW p \in Setups, WritingStep(p)
      PROVE  Stays(r)
  <2>1. CASE CommitsRows(p)
    <3>1. IF r \in U!Named(setup[p].plan) THEN setupConsent'[r].at = setupChanges + 1
          ELSE setupConsent'[r] = setupConsent[r]
      BY <2>1, RowsAreCommitted
    <3> QED  BY <1>1, <3>1 DEF Stays, SameAs
  <2> QED  BY <1>1, <1>2, <1>5, <2>1, WritingIs DEF Undoes, Writes, Checks
<1>6. ASSUME NEW p \in Setups, NEW mode, NEW selected, NEW tools, NEW search,
             U!Reviews(p, mode, selected, tools, search)
      PROVE  UNCHANGED setupConsent
  BY <1>6, ReviewsAre
<1>7. ASSUME NEW p \in Setups, QuietStep(p) \/ ReleaseStep(p)
      PROVE  UNCHANGED setupConsent
  BY <1>7, QuietIs, ReleaseIs
<1>8. ASSUME NEW p \in Setups, RecoveryStep(p)
      PROVE  UNCHANGED setupConsent
  BY <1>8 DEF RecoveryStep, U!FindsConflict, U!FindsCommitted, U!FindsUndone
<1> QED  BY <1>2, <1>3, <1>4, <1>5, <1>6, <1>7, <1>8, StepsOfSetup

\* What was captured stays as it was for who stays where it is.
LEMMA ReviewStays ==
    ASSUME SetupTypes, JournalInv, ReviewedInv, U!SetupNext, NEW p \in Setups, NEW x, setup'[p] = x,
           x.step \in Reviewed => setup[p].step \in Reviewed /\ x.seen = setup[p].seen
                                  /\ x.since = setup[p].since,
           x.step \in {"captured", "published"} =>
              setup[p].step \in {"captured", "published"} /\ x.held = setup[p].held
    PROVE  ReviewedBefore(p)' /\ CapturedBefore(p)'
<1>1. ReviewedBefore(p) /\ CapturedBefore(p)
  BY DEF ReviewedInv
<1>2. ReviewedBefore(p)'
  BY <1>1 DEF ReviewedBefore
<1>3. ASSUME x.step \in {"captured", "published"}, NEW r \in DOMAIN x.held.rows,
             setupConsent'[r].state \in {"approved", "denied"},
             setupConsent'[r].at <= x.since
      PROVE  SameAs(x.held.rows[r], setupConsent'[r])
  <2>1. /\ setup[p].step \in {"captured", "published"} /\ x.held = setup[p].held
        /\ x.since = setup[p].since
    BY <1>3 DEF Reviewed, Holding
  <2>2. /\ r \in U!Roots /\ setup[p].since \in Nat /\ setup[p].since <= setupChanges
        /\ setupChanges \in Nat
    BY <1>3, <2>1 DEF JournalInv, HoldsJournal, JournalIsWhole, SetupTypes, SetupShape, IsSetup,
       WorldShape, Holding
  <2>3. Stays(r)
    BY <2>2, DecisionsAreNew
  <2>4. setupConsent' \in [U!Roots -> ConsentRows]
    BY SetupTypesAreKept DEF SetupTypes, WorldShape, ConsentShape
  <2>5. setupConsent'[r].at \in Nat
    BY <2>2, <2>4 DEF ConsentRows
  <2>6. SameAs(setupConsent'[r], setupConsent[r])
    BY <1>3, <2>1, <2>2, <2>3, <2>5 DEF Stays
  <2>7. SameAs(setup[p].held.rows[r], setupConsent[r])
    BY <1>1, <1>3, <2>1, <2>6 DEF CapturedBefore, U!Explicit, SameAs
  <2> QED  BY <2>1, <2>6, <2>7 DEF SameAs
<1>4. CapturedBefore(p)'
  BY <1>3 DEF CapturedBefore, U!Explicit
<1> QED  BY <1>2, <1>4

LEMMA ReviewedIsKept ==
    ASSUME SetupTypes, JournalInv, ReviewedInv, U!SetupNext
    PROVE  ReviewedInv'
<1>1. SetupShape /\ setupChanges \in Nat
  BY DEF SetupTypes, WorldShape
<1>2. ASSUME NEW q \in Setups, setup'[q] = setup[q]
      PROVE  ReviewedBefore(q)' /\ CapturedBefore(q)'
  BY <1>2, ReviewStays
<1>3. ASSUME NEW p \in Setups, NEW x, Becomes(p, x),
             ReviewedBefore(p)' /\ CapturedBefore(p)'
      PROVE  ReviewedInv'
  BY <1>2, <1>3 DEF Becomes, ReviewedInv
<1>4. ASSUME NEW p \in Setups, NEW x, Becomes(p, x),
             x.step \notin Reviewed
      PROVE  ReviewedInv'
  <2>1. setup'[p] = x
    BY <1>4 DEF Becomes
  <2>2. x.step \notin {"captured", "published"}
    BY <1>4 DEF Reviewed, Holding
  <2> QED  BY <1>3, <1>4, <2>1, <2>2 DEF ReviewedBefore, CapturedBefore
<1>5. ASSUME NEW p \in Setups, NEW s, U!Goes(p, s), setup[p].step \in Reviewed,
             s \in {"captured", "published"} => setup[p].step \in {"captured", "published"}
      PROVE  ReviewedInv'
  <2> DEFINE x == At(p, s)
  <2>1. /\ Becomes(p, x) /\ x.step = s /\ x.seen = setup[p].seen /\ x.since = setup[p].since
        /\ x.held = setup[p].held
    BY <1>1, <1>5, StepsOfOne
  <2> HIDE DEF x
  <2>2. setup'[p] = x
    BY <2>1 DEF Becomes
  <2>3. ReviewedBefore(p)' /\ CapturedBefore(p)'
    BY <1>5, <2>1, <2>2, ReviewStays
  <2> QED  BY <1>3, <2>1, <2>3
<1>6. ASSUME NEW p \in Setups, U!Stops(p)
      PROVE  ReviewedInv'
  BY <1>1, <1>4, <1>6, StepsOfOne, FieldsOfIdle DEF Reviewed, Holding
<1>7. ASSUME OthersStep
      PROVE  ReviewedInv'
  BY <1>2, <1>7, OthersDecide DEF OthersOnly, ReviewedInv
<1>8. ASSUME NEW p \in Setups, NEW mode, NEW selected, NEW tools, NEW search,
             U!Reviews(p, mode, selected, tools, search)
      PROVE  ReviewedInv'
  <2>1. PICK plan : Becomes(p, Review(plan, U!PreviewState))
    BY <1>8, ReviewsAre
  <2> DEFINE x == Review(plan, U!PreviewState)
  <2>2. x.step = "reviewed" /\ x.seen = U!PreviewState /\ x.since = setupChanges
    BY ReviewIs
  <2> HIDE DEF x
  <2>3. x.seen[2] = U!ConsentFingerprint
    BY <2>2 DEF U!PreviewState
  <2>4. ASSUME NEW r \in DOMAIN U!ConsentFingerprint
        PROVE  U!ConsentFingerprint[r].at <= setupChanges
    <3>1. r \in U!Roots /\ U!ConsentFingerprint[r] = [setupConsent[r] EXCEPT !.by = "any"]
      BY DEF U!ConsentFingerprint
    <3>2. setupConsent[r] \in ConsentRows /\ setupConsent[r].at <= setupChanges
      BY <3>1 DEF SetupTypes, WorldShape, ConsentShape
    <3> QED  BY <3>1, <3>2, WithoutAuthor
  <2>5. setup'[p] = x
    BY <2>1 DEF Becomes, x
  <2>6. ReviewedBefore(p)' /\ CapturedBefore(p)'
    BY <2>2, <2>3, <2>4, <2>5 DEF ReviewedBefore, CapturedBefore
  <2> QED  BY <1>3, <2>1, <2>6
<1>9. ASSUME NEW p \in Setups, QuietStep(p)
      PROVE  ReviewedInv'
  <2>1. CASE /\ setup[p].step = "prepared"
             /\ setup' = [setup EXCEPT ![p] = [setup[p] EXCEPT !.step = "captured",
                                                              !.held = U!NewJournal(p)]]
    <3> DEFINE j == U!NewJournal(p)
               x == [setup[p] EXCEPT !.step = "captured", !.held = j]
    <3>1. Becomes(p, x)
      BY <1>1, <2>1, StepsOfOne
    <3>2. setup[p] = [step |-> setup[p].step, plan |-> setup[p].plan, seen |-> setup[p].seen,
                      since |-> setup[p].since, held |-> setup[p].held,
                      import |-> setup[p].import]
      BY <1>1 DEF SetupShape, IsSetup
    <3>3. \A r \in DOMAIN j.rows : j.rows[r] = setupConsent[r]
      BY CapturedIsWhole
    <3> HIDE DEF j
    <3>4. x.step = "captured" /\ x.held = j /\ x.seen = setup[p].seen /\ x.since = setup[p].since
      BY <3>2
    <3> HIDE DEF x
    <3>5. setup'[p] = x /\ UNCHANGED setupConsent
      BY <1>9, <3>1, QuietIs DEF Becomes
    <3>6. ReviewedBefore(p)
      BY DEF ReviewedInv
    <3>7. ReviewedBefore(p)'
      BY <2>1, <3>4, <3>5, <3>6 DEF ReviewedBefore, Reviewed
    <3>8. CapturedBefore(p)'
      BY <3>3, <3>4, <3>5 DEF CapturedBefore, SameAs
    <3> QED  BY <1>3, <3>1, <3>7, <3>8
  <2>2. ASSUME NEW s \in {"preparing", "prepared"}, U!Goes(p, s),
               setup[p].step \in {"reviewed", "preparing"}
        PROVE  ReviewedInv'
    BY <1>5, <2>2 DEF Reviewed
  <2> QED  BY <1>6, <1>9, <2>1, <2>2, QuietIs
<1>10. ASSUME NEW p \in Setups, U!Publishes(p)
       PROVE  ReviewedInv'
  <2>1. setup[p].step = "captured" /\ (U!Stops(p) \/ U!Goes(p, "published"))
    BY <1>10 DEF U!Publishes
  <2> QED  BY <1>5, <1>6, <2>1 DEF Reviewed
<1>11. ASSUME NEW p \in Setups, ReleaseStep(p)
       PROVE  ReviewedInv'
  <2>1. CASE U!Goes(p, "fresh") /\ setup[p].step = "published"
    BY <1>5, <2>1 DEF Reviewed, Holding
  <2>2. CASE setup' = [setup EXCEPT ![p] = [U!Idle EXCEPT !.step = "importing",
                                                         !.import = setup[p].plan.grants]]
    <3>1. \E x : Becomes(p, x) /\ x.step = "importing"
      BY <1>1, <2>2, ImportsFromIdle
    <3> QED  BY <1>4, <3>1 DEF Reviewed, Holding
  <2> QED  BY <1>6, <1>11, <2>1, <2>2, ReleaseIs
<1>12. ASSUME NEW p \in Setups, WritingStep(p)
       PROVE  ReviewedInv'
  <2>1. /\ setup[p].step \in {"fresh", "written", "checked"}
        /\ Undoes(p) \/ Writes(p) \/ Checks(p) \/ CommitsRows(p)
    BY <1>1, <1>12, WritingIs
  <2>2. ASSUME NEW s \in {"undone", "written", "checked", "committed"}, U!Goes(p, s)
        PROVE  ReviewedInv'
    BY <1>5, <2>1, <2>2 DEF Reviewed, Holding
  <2> QED  BY <1>6, <2>1, <2>2 DEF Undoes, Writes, Checks, CommitsRows
<1>13. ASSUME NEW p \in Setups, RecoveryStep(p)
       PROVE  ReviewedInv'
  <2>1. CASE U!FindsConflict(p)
    BY <1>2, <2>1 DEF U!FindsConflict, ReviewedInv
  <2>2. CASE U!FindsCommitted(p)
    <3>1. setup' = [setup EXCEPT ![p] = [U!Idle EXCEPT !.step = "importing",
                                                      !.import = U!Confirmed]]
      BY <2>2 DEF U!FindsCommitted
    <3>2. \E x : Becomes(p, x) /\ x.step = "importing"
      BY <1>1, <3>1, ImportsFromIdle
    <3> QED  BY <1>4, <3>2 DEF Reviewed, Holding
  <2>3. CASE U!FindsUndone(p)
    <3>1. setup' = [setup EXCEPT ![p] = [U!Idle EXCEPT !.step = "undone",
                                                      !.held = setupJournal]]
      BY <2>3 DEF U!FindsUndone
    <3>2. \E x : Becomes(p, x) /\ x.step = "undone"
      BY <1>1, <3>1, UndoesFromIdle
    <3> QED  BY <1>4, <3>2 DEF Reviewed, Holding
  <2> QED  BY <1>13, <2>1, <2>2, <2>3 DEF RecoveryStep
<1> QED
  BY <1>7, <1>8, <1>9, <1>10, <1>11, <1>12, <1>13, StepsOfSetup

\* A step that marks a row as committed is a commit of what was reviewed.
LEMMA CommitsAreReviewed ==
    ASSUME SetupTypes, JournalInv, ReviewedInv, U!SetupNext
    PROVE  U!CommitsReviewed
<1>1. /\ setupChanges \in Nat /\ setupConsent \in [U!Roots -> ConsentRows] /\ WorldShape
  BY DEF SetupTypes, WorldShape, ConsentShape
<1> DEFINE Marks(r) == setupConsent'[r] # setupConsent[r] /\ setupConsent'[r].by = "apply"
<1> SUFFICES ASSUME NEW CONSTANT r \in U!Roots, Marks(r),
                    NEW CONSTANT q \in U!Roots, U!Explicit(q)
             PROVE  setupConsent[q].at <= setup[setupJournal.owner].since
  BY DEF U!CommitsReviewed
<1>2. ASSUME NEW p \in Setups, CommitsRows(p)
      PROVE  setupConsent[q].at <= setup[setupJournal.owner].since
  <2>1. setup[p].step \in Holding /\ setup[p].step \in Reviewed
        /\ U!ConsentFingerprint = setup[p].seen[2]
    BY <1>2 DEF CommitsRows, Holding, Reviewed
  <2>2. setupJournal.owner = p
    BY <2>1, HeldJournal
  <2>3. /\ q \in DOMAIN U!ConsentFingerprint
        /\ U!ConsentFingerprint[q] = [setupConsent[q] EXCEPT !.by = "any"]
    BY DEF U!ConsentFingerprint
  <2>4. setup[p].seen[2][q].at <= setup[p].since
    BY <2>1, <2>3 DEF ReviewedInv, ReviewedBefore
  <2>5. [setupConsent[q] EXCEPT !.by = "any"].at = setupConsent[q].at
    BY <1>1, WithoutAuthor
  <2> QED  BY <2>1, <2>2, <2>3, <2>4, <2>5
<1>3. ASSUME UNCHANGED setupConsent
      PROVE  FALSE
  BY <1>3
<1>4. ASSUME OthersStep
      PROVE  FALSE
  <2>1. setupConsent'[r] = setupConsent[r] \/ DecidedSince(r)
    BY <1>4, OthersDecide DEF OthersOnly
  <2>2. setupConsent[r].by = "apply" => setupConsent[r].state # "none"
    BY <1>1 DEF WorldShape, ConsentShape, U!Explicit
  <2> QED  BY <2>1, <2>2 DEF DecidedSince
<1>5. ASSUME NEW p \in Setups, U!Publishes(p)
      PROVE  FALSE
  <2>1. \/ UNCHANGED setupConsent
        \/ setupConsent'[r] = [setupConsent[r] EXCEPT !.by = "before"]
    BY <1>5 DEF U!Publishes
  <2>2. setupConsent[r] \in ConsentRows
    BY <1>1
  <2> QED  BY <1>3, <2>1, <2>2 DEF ConsentRows
<1>6. ASSUME NEW p \in Setups, WritingStep(p)
      PROVE  CommitsRows(p) \/ UNCHANGED setupConsent
  BY <1>1, <1>6, WritingIs DEF Undoes, Writes, Checks
<1>7. ASSUME NEW p \in Setups, NEW mode, NEW selected, NEW tools, NEW search,
             U!Reviews(p, mode, selected, tools, search)
      PROVE  UNCHANGED setupConsent
  BY <1>7, ReviewsAre
<1>8. ASSUME NEW p \in Setups, QuietStep(p) \/ ReleaseStep(p)
      PROVE  UNCHANGED setupConsent
  BY <1>8, QuietIs, ReleaseIs
<1>9. ASSUME NEW p \in Setups, RecoveryStep(p)
      PROVE  UNCHANGED setupConsent
  BY <1>9 DEF RecoveryStep, U!FindsConflict, U!FindsCommitted, U!FindsUndone
<1> QED  BY <1>2, <1>3, <1>4, <1>5, <1>6, <1>7, <1>8, <1>9, StepsOfSetup

------------------------------------------------------------------------------
\* What a step that leaves settings and consent alone leaves of the progress.
LEMMA ProgressIsSame ==
    ASSUME UNCHANGED <<settings, setupConsent, latest>>
    PROVE  /\ NoKeyApplied' <=> NoKeyApplied
           /\ EveryKeyApplied' <=> EveryKeyApplied
           /\ NoRowCommitted' <=> NoRowCommitted
           /\ EveryRowCommitted' <=> EveryRowCommitted
           /\ UNCHANGED setupJournal => (RowsAreCaptured' <=> RowsAreCaptured)
           /\ UNCHANGED setupJournal => (KeysAreKnown' <=> KeysAreKnown)
           /\ UNCHANGED setupJournal => (RowsAreKnown' <=> RowsAreKnown)
           /\ Whole' <=> Whole
<1>1. /\ NoKeyApplied' <=> NoKeyApplied
      /\ EveryKeyApplied' <=> EveryKeyApplied
  BY DEF NoKeyApplied, EveryKeyApplied
<1>2. /\ NoRowCommitted' <=> NoRowCommitted
      /\ EveryRowCommitted' <=> EveryRowCommitted
  BY DEF NoRowCommitted, EveryRowCommitted
<1>3. UNCHANGED setupJournal => (RowsAreCaptured' <=> RowsAreCaptured)
  BY DEF RowsAreCaptured, U!Explicit, U!SameRow
<1>4. UNCHANGED setupJournal => (KeysAreKnown' <=> KeysAreKnown)
  BY DEF KeysAreKnown
<1>5. UNCHANGED setupJournal => (RowsAreKnown' <=> RowsAreKnown)
  BY DEF RowsAreKnown
<1> QED  BY <1>1, <1>2, <1>3, <1>4, <1>5 DEF Whole

\* The phases of who does not take the step, when none of them holds the journal.
LEMMA PhasesOfOthers ==
    ASSUME NEW p \in Setups, NEW x, Becomes(p, x),
           \A q \in Setups : q # p => setup[q].step \notin Holding,
           \A q \in Setups : q # p /\ setup[q].step = "undone" /\ setup[q].held = setupJournal'
                             => NoKeyApplied' /\ NoRowCommitted',
           PhaseOf(p)'
    PROVE  \A q \in Setups : PhaseOf(q)'
<1> SUFFICES ASSUME NEW q \in Setups, q # p PROVE PhaseOf(q)'
  OBVIOUS
<1>1. setup'[q] = setup[q] /\ setup[q].step \notin Holding
  BY DEF Becomes
<1>2. setup[q].step = "undone" /\ setup[q].held = setupJournal' => NoKeyApplied' /\ NoRowCommitted'
  OBVIOUS
<1> QED  BY <1>1, <1>2 DEF PhaseOf, Holding

LEMMA ProgressOfOne ==
    ASSUME ProgressInv, UNCHANGED <<settings, setupConsent, setupJournal, latest>>,
           NEW p \in Setups, NEW x, Becomes(p, x),
           setupJournal # U!NoJournal => PhaseOf(p)'
    PROVE  ProgressInv'
<1>1. CASE setupJournal = U!NoJournal
  BY <1>1, ProgressIsSame DEF ProgressInv
<1>2. CASE setupJournal # U!NoJournal
  <2>1. ASSUME NEW q \in Setups, q # p
        PROVE  PhaseOf(q)'
    <3>1. setup'[q] = setup[q] /\ PhaseOf(q)
      BY <1>2, <2>1 DEF Becomes, ProgressInv, Underway
    <3> QED  BY <3>1, ProgressIsSame DEF PhaseOf
  <2>2. Underway'
    BY <1>2, <2>1, ProgressIsSame DEF ProgressInv, Underway
  <2> QED  BY <1>2, <2>2 DEF ProgressInv
<1> QED  BY <1>1, <1>2

\* A step after which a process is nowhere in an apply.
LEMMA ProgressOfIdle ==
    ASSUME ProgressInv, UNCHANGED <<settings, setupConsent, setupJournal, latest>>,
           NEW p \in Setups, NEW x, Becomes(p, x), x.step \notin Holding \union {"undone"}
    PROVE  ProgressInv'
<1>1. setup'[p] = x
  BY DEF Becomes
<1>2. PhaseOf(p)'
  BY <1>1 DEF PhaseOf, Holding
<1> QED  BY <1>2, ProgressOfOne

\* The user's decisions count for both.
LEMMA ProgressWithOthers ==
    ASSUME SetupTypes, ProgressInv, OthersStep
    PROVE  ProgressInv'
<1>1. OthersOnly
  BY OthersDecide
<1>2. /\ UNCHANGED <<setupJournal, latest, setup>>
      /\ latest.keys \subseteq U!Keys /\ latest.roots \subseteq U!Roots
  BY <1>1 DEF OthersOnly, ProgressInv
<1>3. \A k \in latest.keys : settings'[k] = settings[k] \/ settings'[k].by = "user"
  BY <1>1, <1>2 DEF OthersOnly
<1>4. ASSUME NEW r \in latest.roots
      PROVE  \/ setupConsent'[r] = setupConsent[r]
             \/ setupConsent'[r].by = "user"
             \/ /\ setupConsent'[r].by = setupConsent[r].by /\ setupConsent[r].by # "apply"
                /\ setupConsent'[r].state = "pending"
  <2>1. setupConsent'[r] = setupConsent[r] \/ DecidedSince(r)
    BY <1>1, <1>2 DEF OthersOnly
  <2>2. setupConsent[r].by = "apply" => setupConsent[r].state # "none"
    BY <1>2 DEF SetupTypes, WorldShape, ConsentShape, U!Explicit
  <2> QED  BY <2>1, <2>2 DEF DecidedSince
<1>5. (NoKeyApplied => NoKeyApplied') /\ (EveryKeyApplied => EveryKeyApplied')
  BY <1>2, <1>3 DEF NoKeyApplied, EveryKeyApplied
<1>6. (NoRowCommitted => NoRowCommitted') /\ (EveryRowCommitted => EveryRowCommitted')
  BY <1>2, <1>4 DEF NoRowCommitted, EveryRowCommitted
<1>7. CASE setupJournal = U!NoJournal
  BY <1>2, <1>5, <1>6, <1>7 DEF ProgressInv, Whole
<1>8. CASE setupJournal # U!NoJournal
  <2>1. Underway
    BY <1>8 DEF ProgressInv
  <2>2. RowsAreCaptured => RowsAreCaptured'
    BY <1>2, <1>4 DEF RowsAreCaptured, U!Explicit, U!SameRow
  <2>3. KeysAreKnown'
    BY <1>2, <1>3, <2>1 DEF Underway, KeysAreKnown
  <2>4. RowsAreKnown'
    BY <1>2, <1>4, <2>1 DEF Underway, RowsAreKnown
  <2>5. ASSUME NEW p \in Setups
        PROVE  PhaseOf(p)'
    BY <1>2, <1>5, <1>6, <2>1, <2>2 DEF Underway, PhaseOf
  <2> QED  BY <1>2, <1>5, <1>6, <1>8, <2>1, <2>2, <2>3, <2>4, <2>5 DEF ProgressInv, Underway
<1> QED  BY <1>7, <1>8

\* A journal that is published is about nothing that was done yet.
LEMMA ProgressOfPublication ==
    ASSUME SetupTypes, JournalInv, ProgressInv, NEW p \in Setups, U!Publishes(p)
    PROVE  ProgressInv'
<1> DEFINE j == setup[p].held
<1>1. setup[p].step = "captured" /\ SetupShape
  BY DEF U!Publishes, SetupTypes
<1>2. CASE setupJournal # U!NoJournal
  <2>1. U!Stops(p) /\ UNCHANGED <<setupJournal, latest, settings, setupConsent>>
    BY <1>2 DEF U!Publishes
  <2> QED  BY <1>1, <2>1, StepsOfOne, FieldsOfIdle, ProgressOfIdle DEF Holding
<1>3. CASE setupJournal = U!NoJournal
  <2>1. /\ U!Goes(p, "published") /\ setupJournal' = j /\ latest' = U!About(j)
        /\ settings' = [k \in U!Keys |-> [settings[k] EXCEPT !.by = "before"]]
        /\ setupConsent' = [r \in U!Roots |-> [setupConsent[r] EXCEPT !.by = "before"]]
    BY <1>3 DEF U!Publishes
  <2>2. JournalIsWhole(j, setupChanges)
    BY <1>1 DEF JournalInv, HoldsJournal
  <2>3. /\ latest'.roots = DOMAIN j.rows
        /\ latest'.keys = {k \in DOMAIN j.previous :
                             j.previous[k] = U!Values[k] /\ U!Values[k] # j.plan.settings[k]}
    BY <2>1 DEF U!About
  <2>4. latest'.keys \subseteq U!Keys /\ latest'.roots \subseteq U!Roots
    BY <2>2, <2>3 DEF JournalIsWhole
  <2>5. ASSUME NEW k \in U!Keys
        PROVE  settings'[k].by = "before" /\ settings'[k].value = U!Values[k]
    <3>1. settings[k] = [value |-> settings[k].value, by |-> settings[k].by]
      BY DEF SetupTypes, WorldShape, SettingsShape
    <3>2. settings'[k] = [settings[k] EXCEPT !.by = "before"] /\ U!Values[k] = settings[k].value
      BY <2>1 DEF U!Values
    <3> QED  BY <3>1, <3>2
  <2>6. ASSUME NEW r \in U!Roots
        PROVE  setupConsent'[r].by = "before"
    <3>1. setupConsent[r] \in ConsentRows
      BY DEF SetupTypes, WorldShape, ConsentShape
    <3> QED  BY <2>1, <3>1 DEF ConsentRows
  <2>7. NoKeyApplied' /\ NoRowCommitted'
    BY <2>4, <2>5, <2>6 DEF NoKeyApplied, NoRowCommitted
  <2>8. KeysAreKnown'
    BY <2>1, <2>3, <2>4, <2>5 DEF KeysAreKnown
  <2>9. RowsAreKnown'
    BY <2>1, <2>3, <2>4, <2>6 DEF RowsAreKnown
  <2>10. PICK x : Becomes(p, x) /\ x.step = "published"
    BY <1>1, <2>1, StepsOfOne
  <2>11. PhaseOf(p)'
    BY <2>7, <2>10 DEF PhaseOf, Becomes
  <2>12. \A q \in Setups : setup[q].step \notin Holding
    BY <1>3, HeldJournal
  <2>13. \A q \in Setups : PhaseOf(q)'
    BY <2>7, <2>10, <2>11, <2>12, PhasesOfOthers
  <2>14. setupJournal' # U!NoJournal
    BY <2>1, <2>2 DEF JournalIsWhole, U!NoJournal
  <2> QED  BY <2>4, <2>7, <2>8, <2>9, <2>13, <2>14 DEF ProgressInv, Underway
<1> QED  BY <1>2, <1>3

\* The check after the publication finds what was captured; what is released is whole.
LEMMA ProgressOfRelease ==
    ASSUME SetupTypes, JournalInv, ReviewedInv, ProgressInv, NEW p \in Setups, ReleaseStep(p)
    PROVE  ProgressInv'
<1>1. /\ UNCHANGED <<settings, setupConsent, latest, setupChanges>> /\ SetupShape
      /\ setup[p].step \in {"published", "undone", "committed"}
  BY ReleaseIs DEF SetupTypes
<1>2. CASE U!Goes(p, "fresh") /\ U!StateIsFresh(p) /\ UNCHANGED setupJournal
           /\ setup[p].step = "published"
  <2>1. setup[p].step \in Holding \intersect Reviewed
    BY <1>2 DEF Holding, Reviewed
  <2>2. setupJournal = setup[p].held /\ setupJournal # U!NoJournal
        /\ JournalIsWhole(setupJournal, setupChanges)
    BY <2>1, HeldJournal
  <2>3. Underway /\ PhaseOf(p)
    BY <2>2 DEF ProgressInv, Underway
  <2>4. ASSUME NEW r \in latest.roots, U!Explicit(r)
        PROVE  U!SameRow(r)
    <3>1. r \in DOMAIN setupJournal.rows /\ r \in U!Roots
      BY <2>3 DEF Underway, RowsAreKnown, ProgressInv
    <3>2. setup[p].seen[2] = U!ConsentFingerprint
      BY <1>2 DEF U!StateIsFresh, U!PreviewState
    <3>3. r \in DOMAIN U!ConsentFingerprint
          /\ U!ConsentFingerprint[r] = [setupConsent[r] EXCEPT !.by = "any"]
      BY <2>4, <3>1 DEF U!ConsentFingerprint
    <3>4. setupConsent[r] \in ConsentRows /\ setupJournal.rows[r] \in ConsentRows
      BY <2>2, <3>1 DEF SetupTypes, WorldShape, ConsentShape, JournalIsWhole
    <3>5. [setupConsent[r] EXCEPT !.by = "any"].at = setupConsent[r].at
      BY <3>4, WithoutAuthor
    <3>6. setupConsent[r].at <= setup[p].since
      BY <2>1, <3>2, <3>3, <3>5 DEF ReviewedInv, ReviewedBefore
    <3>7. SameAs(setupJournal.rows[r], setupConsent[r])
      BY <1>2, <2>2, <2>4, <3>1, <3>6 DEF ReviewedInv, CapturedBefore
    <3>8. [setupConsent[r] EXCEPT !.by = "any"] = [setupJournal.rows[r] EXCEPT !.by = "any"]
      BY <3>4, <3>7, WithoutAuthor DEF SameAs
    <3> QED  BY <3>8 DEF U!SameRow
  <2>5. RowsAreCaptured
    BY <2>4 DEF RowsAreCaptured
  <2>6. PICK x : Becomes(p, x) /\ x.step = "fresh"
    BY <1>1, <1>2, StepsOfOne
  <2>7. NoKeyApplied /\ NoRowCommitted
    BY <1>2, <2>3 DEF PhaseOf
  <2>8. PhaseOf(p)'
    BY <1>1, <1>2, <2>5, <2>6, <2>7, ProgressIsSame DEF PhaseOf, Becomes
  <2> QED  BY <1>1, <1>2, <2>6, <2>8, ProgressOfOne
<1>3. ASSUME NEW x, Becomes(p, x), x.step \in {"idle", "importing"}
      PROVE  ProgressInv'
  <2>1. CASE UNCHANGED setupJournal
    BY <1>1, <1>3, <2>1, ProgressOfIdle DEF Holding
  <2>2. CASE setupJournal = setup[p].held /\ setupJournal' = U!NoJournal
             /\ setupJournal # U!NoJournal
    <3>1. PhaseOf(p)
      BY <2>2 DEF ProgressInv, Underway
    <3>2. Whole
      BY <1>1, <2>2, <3>1 DEF PhaseOf, Whole
    <3> QED  BY <1>1, <2>2, <3>2, ProgressIsSame DEF ProgressInv
  <2> QED  BY <2>1, <2>2, ReleaseIs
<1>4. CASE U!Stops(p)
  BY <1>1, <1>3, <1>4, StepsOfOne, FieldsOfIdle
<1>5. CASE setup' = [setup EXCEPT ![p] = [U!Idle EXCEPT !.step = "importing",
                                                       !.import = setup[p].plan.grants]]
  <2>1. \E x : Becomes(p, x) /\ x.step = "importing"
    BY <1>1, <1>5, ImportsFromIdle
  <2> QED  BY <1>3, <2>1
<1> QED  BY <1>2, <1>4, <1>5, ReleaseIs

\* After an undo no key is left as the apply wrote it.
LEMMA RevertedAreKnown ==
    ASSUME WorldShape, latest.keys \subseteq U!Keys, DOMAIN setupJournal.previous \subseteq U!Keys,
           KeysAreKnown, U!RevertOwnSettings(setupJournal), UNCHANGED <<setupJournal, latest>>
    PROVE  NoKeyApplied' /\ KeysAreKnown'
<1>1. ASSUME NEW k \in latest.keys
      PROVE  /\ settings'[k].by # "apply"
             /\ settings'[k].by = "before" => settings'[k].value = setupJournal.previous[k]
  <2>1. /\ k \in DOMAIN setupJournal.previous /\ k \in U!Keys
        /\ setupJournal.previous[k] # setupJournal.plan.settings[k]
        /\ settings[k].by = "before" => settings[k].value = setupJournal.previous[k]
        /\ settings[k].by = "apply" => settings[k].value = setupJournal.plan.settings[k]
    BY DEF KeysAreKnown
  <2>2. IF /\ settings[k].value # setupJournal.previous[k]
           /\ settings[k].value = setupJournal.plan.settings[k]
        THEN settings'[k] = [value |-> setupJournal.previous[k], by |-> "before"]
        ELSE settings'[k] = settings[k]
    BY <2>1, SettingsAreReverted
  <2> QED  BY <2>1, <2>2
<1> QED  BY <1>1 DEF NoKeyApplied, KeysAreKnown

\* A plan is written, checked, committed or undone as a whole.
LEMMA ProgressOfWriting ==
    ASSUME SetupTypes, JournalInv, ProgressInv, NEW p \in Setups, WritingStep(p)
    PROVE  ProgressInv'
<1>1. /\ SetupShape /\ WorldShape /\ setupChanges \in Nat
      /\ latest.keys \subseteq U!Keys /\ latest.roots \subseteq U!Roots
  BY DEF SetupTypes, WorldShape, ProgressInv
<1>2. /\ UNCHANGED <<setupJournal, latest>> /\ setup[p].step \in {"fresh", "written", "checked"}
      /\ Undoes(p) \/ Writes(p) \/ Checks(p) \/ CommitsRows(p)
  BY <1>1, WritingIs
<1>3. setup[p].step \in Holding
  BY <1>2 DEF Holding
<1>4. /\ setupJournal # U!NoJournal /\ JournalIsWhole(setupJournal, setupChanges)
      /\ setupJournal.plan = setup[p].plan
  BY <1>3, HeldJournal
<1>5. Underway /\ PhaseOf(p)
  BY <1>4 DEF ProgressInv, Underway
<1>6. ASSUME NEW s, U!Goes(p, s), PhaseOf(p)', KeysAreKnown', RowsAreKnown',
             NoKeyApplied' \/ EveryKeyApplied',
             NoRowCommitted' \/ (EveryKeyApplied' /\ EveryRowCommitted'),
             NoKeyApplied' \/ RowsAreCaptured'
      PROVE  ProgressInv'
  <2>1. \E x : Becomes(p, x)
    BY <1>1, <1>6, StepsOfOne
  <2>2. \A q \in Setups : q # p =>
           setup[q].step \notin Holding
           /\ (setup[q].step = "undone" => setup[q].held # setupJournal')
    BY <1>2, <1>3, OneHolds
  <2>3. \A q \in Setups : PhaseOf(q)'
    BY <1>6, <2>1, <2>2, PhasesOfOthers
  <2> QED  BY <1>1, <1>2, <1>4, <1>6, <2>3 DEF ProgressInv, Underway
<1>7. ASSUME NEW s, U!Goes(p, s)
      PROVE  setup'[p].step = s
  BY <1>1, <1>7, StepsOfOne DEF Becomes
<1>8. CASE UNCHANGED settings /\ U!Stops(p) /\ UNCHANGED setupConsent
  BY <1>1, <1>2, <1>8, StepsOfOne, FieldsOfIdle, ProgressOfIdle DEF Holding
<1>9. CASE U!RevertOwnSettings(setupJournal) /\ U!Goes(p, "undone") /\ UNCHANGED setupConsent
  <2>1. NoRowCommitted
    BY <1>2, <1>5 DEF PhaseOf
  <2>2. NoRowCommitted' /\ RowsAreKnown'
    BY <1>2, <1>5, <1>9, <2>1 DEF Underway, NoRowCommitted, RowsAreKnown
  <2>3. NoKeyApplied' /\ KeysAreKnown'
    BY <1>1, <1>2, <1>4, <1>5, <1>9, RevertedAreKnown DEF Underway, JournalIsWhole
  <2>4. PhaseOf(p)'
    BY <1>7, <1>9, <2>2, <2>3 DEF PhaseOf
  <2> QED  BY <1>6, <1>9, <2>2, <2>3, <2>4
<1>10. CASE Writes(p)
  <2>1. setup[p].step = "fresh" /\ U!Goes(p, "written") /\ UNCHANGED setupConsent
    BY <1>10 DEF Writes
  <2>2. NoKeyApplied /\ NoRowCommitted /\ RowsAreCaptured
    BY <1>5, <2>1 DEF PhaseOf
  <2>3. NoRowCommitted' /\ RowsAreKnown' /\ RowsAreCaptured'
    BY <1>2, <1>5, <2>1, <2>2
       DEF Underway, NoRowCommitted, RowsAreKnown, RowsAreCaptured, U!Explicit, U!SameRow
  <2>4. EveryKeyApplied' /\ KeysAreKnown'
    <3>1. ASSUME NEW k \in latest.keys
          PROVE  /\ settings[k].by = "before" => settings[k].value = setupJournal.previous[k]
                 /\ setupJournal.previous[k] # setupJournal.plan.settings[k]
                 /\ settings[k].by # "apply" /\ k \in U!Keys
                 /\ k \in DOMAIN setup[p].plan.settings
      BY <1>1, <1>4, <1>5, <2>2 DEF Underway, KeysAreKnown, NoKeyApplied, JournalIsWhole
    <3>2. CASE UNCHANGED settings /\ ~U!WritesSettings(p)
      <4>1. latest.keys = {}
        BY <3>1, <3>2 DEF U!WritesSettings
      <4> QED  BY <1>2, <4>1 DEF EveryKeyApplied, KeysAreKnown
    <3>3. CASE U!SetSettings(setup[p].plan.settings, "apply")
      <4>1. ASSUME NEW k \in latest.keys
            PROVE  IF setup[p].plan.settings[k] # settings[k].value
                   THEN settings'[k] = [value |-> setup[p].plan.settings[k], by |-> "apply"]
                   ELSE settings'[k] = settings[k]
        BY <1>1, <3>1, <3>3, SettingsAreWritten DEF Authors
      <4>2. ASSUME NEW k \in latest.keys
            PROVE  /\ settings'[k].by # "before"
                   /\ settings'[k].by = "apply" =>
                        settings'[k].value = setupJournal.plan.settings[k]
        <5>1. setup[p].plan.settings[k] = setupJournal.plan.settings[k]
          BY <1>4
        <5>2. CASE setupJournal.plan.settings[k] # settings[k].value
          <6>1. settings'[k] = [value |-> setupJournal.plan.settings[k], by |-> "apply"]
            BY <4>1, <4>2, <5>1, <5>2
          <6> QED  BY <6>1
        <5>3. CASE setupJournal.plan.settings[k] = settings[k].value
          <6>1. settings'[k] = settings[k]
            BY <4>1, <4>2, <5>1, <5>3
          <6> QED  BY <3>1, <4>2, <5>3, <6>1
        <5> QED  BY <5>2, <5>3
      <4> QED  BY <1>2, <1>5, <4>2 DEF Underway, EveryKeyApplied, KeysAreKnown
    <3> QED  BY <1>10, <3>2, <3>3 DEF Writes
  <2>5. PhaseOf(p)'
    BY <1>7, <2>1, <2>3, <2>4 DEF PhaseOf
  <2> QED  BY <1>6, <2>1, <2>3, <2>4, <2>5
<1>11. CASE Checks(p)
  <2>1. /\ setup[p].step = "written" /\ U!Goes(p, "checked")
        /\ UNCHANGED <<settings, setupConsent>>
    BY <1>11 DEF Checks
  <2>2. EveryKeyApplied /\ NoRowCommitted /\ RowsAreCaptured
    BY <1>5, <2>1 DEF PhaseOf
  <2>3. PhaseOf(p)'
    BY <1>2, <1>7, <2>1, <2>2, ProgressIsSame DEF PhaseOf
  <2> QED  BY <1>2, <1>5, <1>6, <2>1, <2>3, ProgressIsSame DEF Underway
<1>12. CASE CommitsRows(p)
  <2>1. /\ setup[p].step = "checked" /\ U!Goes(p, "committed") /\ UNCHANGED settings
    BY <1>12 DEF CommitsRows
  <2>2. EveryKeyApplied
    BY <1>5, <2>1 DEF PhaseOf
  <2>3. EveryKeyApplied' /\ KeysAreKnown'
    BY <1>2, <1>5, <2>1, <2>2 DEF Underway, EveryKeyApplied, KeysAreKnown
  <2>4. ASSUME NEW r \in latest.roots
        PROVE  /\ setupConsent'[r].by = "apply" /\ setupConsent'[r].at = setupChanges + 1
               /\ setupJournal.rows[r].at <= setupChanges /\ setupJournal.rows[r].at \in Nat
    <3>1. r \in U!Named(setup[p].plan) /\ r \in U!Roots /\ r \in DOMAIN setupJournal.rows
      BY <1>1, <1>4, <1>5 DEF Underway, RowsAreKnown, JournalIsWhole
    <3>2. setupConsent'[r].by = "apply" /\ setupConsent'[r].at = setupChanges + 1
      BY <1>12, <3>1, RowsAreCommitted
    <3> QED  BY <1>4, <3>1, <3>2 DEF JournalIsWhole, ConsentRows
  <2>5. EveryRowCommitted' /\ RowsAreCaptured'
    BY <1>2, <2>4 DEF EveryRowCommitted, RowsAreCaptured
  <2>6. RowsAreKnown'
    BY <1>1, <1>2, <1>5, <2>4 DEF Underway, RowsAreKnown
  <2>7. PhaseOf(p)'
    BY <1>7, <2>1, <2>3, <2>5 DEF PhaseOf
  <2> QED  BY <1>6, <2>1, <2>3, <2>5, <2>6, <2>7
<1> QED  BY <1>2, <1>8, <1>9, <1>10, <1>11, <1>12 DEF Undoes

\* A recovery finds an apply that is done, one that is undone, or an overlap.
LEMMA ProgressOfRecovery ==
    ASSUME SetupTypes, JournalInv, ProgressInv, NEW p \in Setups, RecoveryStep(p)
    PROVE  ProgressInv'
<1>1. U!Recovers(p)
  BY DEF RecoveryStep, U!FindsConflict, U!FindsCommitted, U!FindsUndone
<1>2. /\ setupJournal # U!NoJournal /\ JournalIsWhole(setupJournal, setupChanges)
      /\ setup[p].step = "idle" /\ setup[setupJournal.owner].step = "idle"
      /\ SetupShape /\ WorldShape /\ Underway
      /\ latest.keys \subseteq U!Keys /\ latest.roots \subseteq U!Roots
  BY <1>1 DEF U!Recovers, U!OwnerIsLive, JournalInv, SetupTypes, ProgressInv
<1>3. \A q \in Setups : setup[q].step \notin Holding
  BY <1>2, HeldJournal DEF Holding
<1>4. latest.roots = DOMAIN setupJournal.rows
  BY <1>2 DEF Underway, RowsAreKnown
<1>5. ASSUME NEW r \in latest.roots, r \notin U!Untouched
      PROVE  ~U!SameRow(r)
  BY <1>4, <1>5 DEF U!Untouched
<1>6. ASSUME NEW r \in U!Committed
      PROVE  U!Explicit(r) /\ r \in latest.roots /\ r \notin U!Untouched
  BY <1>4 DEF U!Committed, U!Target, U!Explicit
<1>7. ASSUME NEW r \in latest.roots, setupConsent[r].by = "apply"
      PROVE  r \notin U!Untouched
  <2>1. /\ setupConsent[r].at > setupJournal.rows[r].at /\ U!Explicit(r)
        /\ setupConsent[r] \in ConsentRows /\ setupJournal.rows[r] \in ConsentRows
    BY <1>2, <1>4, <1>7
       DEF Underway, RowsAreKnown, WorldShape, ConsentShape, JournalIsWhole
  <2>2. ~U!SameRow(r)
    <3>1. ~SameAs(setupConsent[r], setupJournal.rows[r])
      BY <2>1 DEF SameAs, ConsentRows
    <3> QED  BY <2>1, <3>1, WithoutAuthor DEF U!SameRow
  <2> QED  BY <2>1, <2>2 DEF U!Untouched, U!Explicit
<1>8. CASE U!FindsConflict(p)
  <2>1. /\ UNCHANGED <<settings, setupConsent, setup>> /\ setupJournal' = U!NoJournal
        /\ latest' = [latest EXCEPT !.overlaps = TRUE]
    BY <1>8 DEF U!FindsConflict
  <2>2. latest'.overlaps /\ latest'.keys = latest.keys /\ latest'.roots = latest.roots
    BY <1>2, <2>1 DEF WorldShape, LatestShape
  <2> QED  BY <1>2, <2>1, <2>2 DEF ProgressInv
<1>9. CASE U!FindsCommitted(p)
  <2>1. /\ UNCHANGED <<settings, setupConsent, latest>> /\ setupJournal' = U!NoJournal
        /\ U!PlanCommitted
    BY <1>9 DEF U!FindsCommitted
  <2>2. Whole
    <3>1. CASE DOMAIN setupJournal.rows # {}
      <4>1. U!Committed = latest.roots
        BY <1>4, <2>1, <3>1 DEF U!PlanCommitted
      <4>2. RowsAreCaptured => EveryRowCommitted
        BY <1>5, <1>6, <4>1 DEF RowsAreCaptured, EveryRowCommitted
      <4> QED  BY <1>2, <4>2 DEF Underway, Whole
    <3>2. CASE DOMAIN setupJournal.rows = {}
      <4>1. \A k \in DOMAIN setupJournal.previous :
               U!Values[k] = setupJournal.plan.settings[k]
        BY <2>1, <3>2 DEF U!PlanCommitted, U!SettingsCommitted
      <4>2. \A k \in latest.keys : settings[k].value = setupJournal.plan.settings[k]
        BY <1>2, <4>1 DEF U!Values, Underway, KeysAreKnown
      <4>3. EveryKeyApplied
        BY <1>2, <4>2 DEF EveryKeyApplied, Underway, KeysAreKnown
      <4> QED  BY <1>4, <3>2, <4>3 DEF Whole, EveryRowCommitted
    <3> QED  BY <3>1, <3>2
  <2> QED  BY <1>2, <2>1, <2>2, ProgressIsSame DEF ProgressInv
<1>10. CASE U!FindsUndone(p)
  <2>1. /\ UNCHANGED <<setupConsent, latest, setupJournal>> /\ ~U!PlanCommitted /\ ~U!Overlaps
        /\ U!RevertOwnSettings(setupJournal)
        /\ setup' = [setup EXCEPT ![p] = [U!Idle EXCEPT !.step = "undone",
                                                       !.held = setupJournal]]
    BY <1>10 DEF U!FindsUndone
  <2>2. NoRowCommitted
    <3>1. CASE latest.roots = {}
      BY <3>1 DEF NoRowCommitted
    <3>2. CASE latest.roots # {}
      <4>1. /\ latest.roots \subseteq U!Untouched \union U!Committed
            /\ U!Committed = {} \/ U!Untouched = {}
        BY <1>4, <2>1 DEF U!Overlaps
      <4>2. U!Committed # latest.roots
        BY <1>4, <2>1, <3>2 DEF U!PlanCommitted
      <4>3. latest.roots \subseteq U!Untouched
        BY <1>6, <4>1, <4>2
      <4> QED  BY <1>7, <4>3 DEF NoRowCommitted
    <3> QED  BY <3>1, <3>2
  <2>3. NoRowCommitted' /\ RowsAreKnown'
    BY <1>2, <2>1, <2>2 DEF Underway, NoRowCommitted, RowsAreKnown
  <2>4. NoKeyApplied' /\ KeysAreKnown'
    BY <1>2, <2>1, RevertedAreKnown DEF Underway, JournalIsWhole
  <2>5. PICK x : Becomes(p, x) /\ x.step = "undone"
    BY <1>2, <2>1, UndoesFromIdle
  <2>6. PhaseOf(p)'
    BY <2>3, <2>4, <2>5 DEF PhaseOf, Becomes
  <2>7. \A q \in Setups : PhaseOf(q)'
    BY <1>3, <2>3, <2>4, <2>5, <2>6, PhasesOfOthers
  <2> QED  BY <1>2, <2>1, <2>3, <2>4, <2>7 DEF ProgressInv, Underway
<1> QED  BY <1>8, <1>9, <1>10 DEF RecoveryStep

LEMMA SetupStepKeeps ==
    ASSUME SetupInv, U!SetupNext
    PROVE  SetupInv'
<1>1. SetupTypes /\ JournalInv /\ ReviewedInv /\ ProgressInv /\ SetupShape
  BY DEF SetupInv, SetupTypes
<1>2. SetupTypes' /\ JournalInv' /\ ReviewedInv'
  BY <1>1, SetupTypesAreKept, JournalIsKept, ReviewedIsKept
<1>3. ASSUME NEW p \in Setups, NEW mode, NEW selected, NEW tools, NEW search,
             U!Reviews(p, mode, selected, tools, search)
      PROVE  ProgressInv'
  <2>1. PICK plan : /\ Becomes(p, Review(plan, U!PreviewState))
                    /\ UNCHANGED <<settings, setupConsent, setupJournal, latest, setupChanges>>
    BY <1>1, <1>3, ReviewsAre
  <2>2. Review(plan, U!PreviewState).step = "reviewed"
    BY ReviewIs
  <2> QED  BY <1>1, <2>1, <2>2, ProgressOfIdle DEF Holding
<1>4. ASSUME NEW p \in Setups, QuietStep(p)
      PROVE  ProgressInv'
  <2>1. UNCHANGED <<settings, setupConsent, setupJournal, latest, setupChanges>>
    BY <1>4, QuietIs
  <2>2. CASE U!Stops(p)
    BY <1>1, <2>1, <2>2, StepsOfOne, FieldsOfIdle, ProgressOfIdle DEF Holding
  <2>3. ASSUME NEW s \in {"preparing", "prepared"}, U!Goes(p, s)
        PROVE  ProgressInv'
    <3>1. Becomes(p, At(p, s)) /\ At(p, s).step = s
      BY <1>1, <2>3, StepsOfOne
    <3> QED  BY <1>1, <2>1, <3>1, ProgressOfIdle DEF Holding
  <2>4. CASE setup' = [setup EXCEPT ![p] = [setup[p] EXCEPT !.step = "captured",
                                                           !.held = U!NewJournal(p)]]
    <3> DEFINE x == [setup[p] EXCEPT !.step = "captured", !.held = U!NewJournal(p)]
    <3>1. Becomes(p, x)
      BY <1>1, <2>4, StepsOfOne
    <3>2. setup[p] = [step |-> setup[p].step, plan |-> setup[p].plan, seen |-> setup[p].seen,
                      since |-> setup[p].since, held |-> setup[p].held,
                      import |-> setup[p].import]
      BY <1>1 DEF SetupShape, IsSetup
    <3>3. x.step = "captured"
      BY <3>2
    <3> HIDE DEF x
    <3> QED  BY <1>1, <2>1, <3>1, <3>3, ProgressOfIdle DEF Holding
  <2> QED  BY <1>4, <2>2, <2>3, <2>4, QuietIs
<1>5. ProgressInv'
  BY <1>1, <1>3, <1>4, StepsOfSetup, ProgressWithOthers, ProgressOfPublication,
     ProgressOfRelease, ProgressOfWriting, ProgressOfRecovery
<1> QED  BY <1>2, <1>5 DEF SetupInv

\* Whatever else happens, the part "setup" takes the steps of Setup and no others.
LEMMA SetupFollowed == [Next]_vars => [U!SetupNext]_(U!setupVars)
BY DEF Next, vars, setupVars, U!setupVars, U!worldVars, U!boundVars, LifecycleSteps,
   ArchiveSteps, MigrationSteps, SourceSteps, OpencodeSteps, TaskStateSteps, RulesSteps,
   ParanoidSteps, EvidenceSteps, SetupSteps, InstallSteps, OpenTurnSteps

LEMMA SetupIsKept == SetupInv /\ [Next]_vars => SetupInv'
<1>1. ASSUME SetupInv, UNCHANGED U!setupVars
      PROVE  SetupInv'
  <2>1. UNCHANGED <<settings, setupConsent, setupJournal, latest, setup, setupChanges>>
    BY <1>1 DEF U!setupVars, U!boundVars
  <2>2. SetupTypes'
    BY <1>1, <2>1, WorldIsSame DEF SetupInv, SetupTypes, SetupShape
  <2>3. JournalInv' /\ ReviewedInv'
    BY <1>1, <2>1 DEF SetupInv, JournalInv, HoldsJournal, HoldsNewer, ReviewedInv, ReviewedBefore,
       CapturedBefore, U!Explicit
  <2>4. ProgressInv'
    <3>1. \A p \in Setups : PhaseOf(p) => PhaseOf(p)'
      BY <2>1, ProgressIsSame DEF PhaseOf
    <3> QED  BY <1>1, <2>1, <3>1, ProgressIsSame DEF SetupInv, ProgressInv, Underway
  <2> QED  BY <2>2, <2>3, <2>4 DEF SetupInv
<1> QED  BY <1>1, SetupStepKeeps, SetupFollowed

\* An apply commits consent only if every decision in effect was taken before its review,
\* for any number of processes, commands, roots, tools, applies, changes and crashes
\* (init-apply.ts: the fingerprint is compared inside the transaction that commits).
THEOREM CommitsWhatWasReviewedHolds == Spec => CommitsWhatWasReviewed
<1>1. Init => SetupInv
  BY SetupStarts DEF Init
<1>2. SetupInv /\ [Next]_vars => [U!CommitsReviewed]_(U!setupVars)
  BY SetupFollowed, CommitsAreReviewed DEF SetupInv
<1>3. Spec => [][U!CommitsReviewed]_(U!setupVars)
  BY <1>1, <1>2, SetupIsKept, PTL DEF Spec
<1> QED  BY <1>3 DEF CommitsWhatWasReviewed, U!CommitsWhatWasReviewed

\* When no journal is left, the settings and the consent of the last apply are in effect
\* together or not at all, wherever it was interrupted and whoever recovered it, for any
\* number of processes, commands, roots, tools, applies, changes and crashes
\* (init-apply.ts: the journal decides by the rows that were committed).
THEOREM AllOrNothingHolds == Spec => []AllOrNothing
<1>1. Init => SetupInv
  BY SetupStarts DEF Init
<1>2. SetupInv => AllOrNothing
  <2> SUFFICES ASSUME SetupInv, setupJournal = U!NoJournal, ~latest.overlaps
               PROVE  \E others \in {"before", "apply"} :
                         /\ \A k \in latest.keys : settings[k].by \in {others, "user"}
                         /\ \A r \in latest.roots : setupConsent[r].by \in {others, "user"}
    BY DEF AllOrNothing, U!AllOrNothing
  <2>1. Whole /\ latest.keys \subseteq U!Keys /\ latest.roots \subseteq U!Roots
    BY DEF SetupInv, ProgressInv
  <2>2. /\ \A k \in latest.keys : settings[k].by \in Authors
        /\ \A r \in latest.roots : setupConsent[r].by \in Authors
    BY <2>1 DEF SetupInv, SetupTypes, WorldShape, SettingsShape, ConsentShape, ConsentRows
  <2>3. CASE NoKeyApplied /\ NoRowCommitted
    BY <2>2, <2>3 DEF NoKeyApplied, NoRowCommitted, Authors
  <2>4. CASE EveryKeyApplied /\ EveryRowCommitted
    BY <2>2, <2>4 DEF EveryKeyApplied, EveryRowCommitted, Authors
  <2> QED  BY <2>1, <2>3, <2>4 DEF Whole
<1> QED  BY <1>1, <1>2, SetupIsKept, PTL DEF Spec

------------------------------------------------------------------------------
\* Registering with the tools (Install).  A file's content is the user's text and
\* Elepha's entry.
IsContent(c) == DOMAIN c = {"text", "entry"}
Present(c)   == c.entry # 0

\* In every tool or in none, but for those where the name is the user's.
Even(contents) ==
    \A f, g \in Files : ~contents[f].text.own /\ ~contents[g].text.own =>
        (Present(contents[f]) <=> Present(contents[g]))

\* What a command that finds the journal goes back to.
Base == IF installJournal = I!None THEN config ELSE installJournal.config

FilesInv ==
    /\ text = [f \in Files |-> text[f]] /\ config = [f \in Files |-> config[f]]
    /\ \A f \in Files : IsContent(config[f]) /\ config[f].text = text[f]
    /\ installJournal # I!None =>
          \A f \in Files : /\ IsContent(installJournal.config[f])
                           /\ installJournal.config[f].text = text[f]
    /\ snapshots = [f \in Files |-> snapshots[f]]
    /\ \A f \in Files : snapshots[f] # I!None =>
          /\ IsContent(snapshots[f].original)
          /\ snapshots[f].original.text = snapshots[f].installed.text
    /\ package \in Nat \ {0}
EvenInv == blemish = "none" => Even(Base)

\* The files a command still has to write are `todo`; the others are what it wants.
IsPlan(plan, files) ==
    \A f \in files : f \in Files /\ IsContent(plan[f]) /\ plan[f].text = text[f]
AllWritten == {"registered", "launching", "starting", "finishing"}

Installing(c) ==
    /\ c.kind = "install"
    /\ c.step \in {"stopped", "counted", "replaying", "recovered", "writing",
                   "compensating", "failed"} \union AllWritten
    /\ c.step = "recovered" => installJournal = I!None
    /\ c.step \in {"replaying", "compensating"} =>
          /\ installJournal # I!None
          /\ \A f \in Files \ c.todo : config[f] = installJournal.config[f]
    /\ c.step \in {"writing"} \union AllWritten =>
          /\ installJournal # I!None /\ IsPlan(c.plan, Files) /\ IsPlan(c.was, Files)
          /\ \A f \in Files : Present(c.plan[f])
    /\ c.step = "writing" => \A f \in Files \ c.todo : config[f] = c.plan[f]
    /\ c.step \in AllWritten => \A f \in Files : config[f] = c.plan[f]

\* An uninstall that met no failure has a journal, and cleans every file.
Uninstalling(c) ==
    /\ c.kind = "uninstall"
    /\ c.step \in {"recovering", "planning", "stopping", "cleaning", "removed"}
    /\ c.step = "recovering" =>
          IF installJournal = I!None THEN c.todo = {}
          ELSE blemish = "none" =>
                  \A f \in Files \ c.todo : config[f] = installJournal.config[f]
    /\ c.step = "planning" => (blemish # "now" => installJournal = I!None)
    /\ c.step \in {"stopping", "cleaning", "removed"} =>
          /\ IsPlan(c.plan, DOMAIN c.plan) /\ c.todo \subseteq DOMAIN c.plan
          /\ \A f \in DOMAIN c.plan : ~Present(c.plan[f])
          /\ blemish # "now" => /\ installJournal # I!None
                                /\ \A f \in Files \ c.todo : ~Present(config[f])
    /\ c.step = "removed" => c.todo = {}

\* An update writes only where there is an entry, and puts back an entry.
Updating(c) ==
    /\ c.kind = "update" /\ c.from \in Nat \ {0}
    /\ c.step \in {"refreshing", "restarting", "reverting", "restoring", "reverted",
                   "returning"}
    /\ c.todo \subseteq DOMAIN c.plan
    /\ \A f \in DOMAIN c.plan : f \in Files /\ IsContent(c.plan[f]) /\ Present(c.plan[f])
    /\ \A f \in DOMAIN c.was :
          /\ f \in DOMAIN c.plan /\ IsContent(c.was[f]) /\ Present(c.was[f])
          /\ c.was[f].text = c.plan[f].text
    /\ c.step = "refreshing" =>
          IsPlan(c.plan, DOMAIN c.plan) /\ \A f \in DOMAIN c.plan : Present(config[f])

IsCommand(c) ==
    \/ c = I!NoCommand
    \/ /\ DOMAIN c = {"kind", "step", "todo", "plan", "was", "prior", "counted", "from"}
       /\ Installing(c) \/ Uninstalling(c) \/ Updating(c)
InstallInv == FilesInv /\ EvenInv /\ IsCommand(installCommand)

------------------------------------------------------------------------------
LEMMA InstallStarts == I!InstallInit => InstallInv
<1> SUFFICES ASSUME I!InstallInit PROVE InstallInv
  OBVIOUS
<1>1. /\ text = [f \in Files |-> [edit |-> 0, own |-> FALSE]]
      /\ config = [f \in Files |-> [text |-> text[f], entry |-> 0]]
      /\ snapshots = [f \in Files |-> I!None] /\ installJournal = I!None /\ package = 1
      /\ installCommand = I!NoCommand
  BY DEF I!InstallInit
<1>2. FilesInv
  <2>1. text = [f \in Files |-> text[f]] /\ config = [f \in Files |-> config[f]]
        /\ snapshots = [f \in Files |-> snapshots[f]]
    BY <1>1
  <2>2. \A f \in Files : /\ IsContent(config[f]) /\ config[f].text = text[f]
                         /\ snapshots[f] = I!None
    BY <1>1 DEF IsContent
  <2> QED  BY <1>1, <2>1, <2>2 DEF FilesInv
<1>3. EvenInv
  BY <1>1 DEF EvenInv, Even, Base, Present
<1> QED  BY <1>1, <1>2, <1>3 DEF InstallInv, IsCommand

\* Who takes a step.
LEMMA WhoseCommand ==
    ASSUME InstallInv
    PROVE  /\ installCommand.kind = "install" => Installing(installCommand)
           /\ installCommand.kind = "uninstall" => Uninstalling(installCommand)
           /\ installCommand.kind = "update" => Updating(installCommand)
           /\ installCommand # I!NoCommand =>
                 DOMAIN installCommand = {"kind", "step", "todo", "plan", "was", "prior",
                                          "counted", "from"}
BY DEF InstallInv, IsCommand, Installing, Uninstalling, Updating, I!NoCommand

Fields == {"kind", "step", "todo", "plan", "was", "prior", "counted", "from"}

\* A step that touches no file.
LEMMA FilesStay ==
    ASSUME InstallInv, UNCHANGED <<text, config, installJournal, snapshots>>,
           package' \in Nat \ {0}, blemish' = "none" => blemish = "none",
           IsCommand(installCommand)'
    PROVE  InstallInv'
BY DEF InstallInv, FilesInv, EvenInv, Even, Base

\* A command ends anywhere.
LEMMA CommandEnds ==
    ASSUME InstallInv, I!Ends, UNCHANGED <<text, config, installJournal, snapshots>>,
           package' \in Nat \ {0}, blemish' = "none" => blemish = "none"
    PROVE  InstallInv'
BY FilesStay DEF I!Ends, IsCommand

------------------------------------------------------------------------------
\* elepha install.
LEMMA InstallBegins ==
    ASSUME InstallInv, I!StartsInstall \/ I!CountsApproved \/ I!ReplaysJournal \/ I!FailsToInstall
    PROVE  InstallInv'
<1>1. /\ UNCHANGED <<text, config, installJournal, snapshots, package, blemish>>
      /\ package \in Nat \ {0}
  BY DEF I!StartsInstall, I!CountsApproved, I!ReplaysJournal, I!FailsToInstall, I!filesVars,
         I!userVars, InstallInv, FilesInv
<1>2. DOMAIN installCommand' = Fields /\ Installing(installCommand)'
  <2>1. CASE I!StartsInstall
    BY <2>1 DEF I!StartsInstall, I!NoCommand, Installing, AllWritten, Fields
  <2>2. CASE I!CountsApproved
    BY <2>2, WhoseCommand
       DEF I!CountsApproved, I!At, I!Goes, I!NoCommand, Installing, AllWritten, Fields
  <2>3. CASE I!ReplaysJournal
    BY <2>3, WhoseCommand
       DEF I!ReplaysJournal, I!At, I!Goes, I!GoesOver, I!NoCommand, Installing, AllWritten, Fields
  <2>4. CASE I!FailsToInstall
    BY <1>1, <2>4, WhoseCommand
       DEF I!FailsToInstall, I!GoesOver, I!NoCommand, Installing, AllWritten, Fields
  <2> QED  BY <2>1, <2>2, <2>3, <2>4
<1> QED  BY <1>1, <1>2, FilesStay DEF IsCommand, Fields

LEMMA InstallReplays ==
    ASSUME InstallInv, I!RestoresService \/ \E f \in Files : I!RestoresFile(f)
    PROVE  InstallInv'
<1>1. /\ UNCHANGED <<text, snapshots, package, blemish>> /\ DOMAIN installCommand = Fields
      /\ Installing(installCommand) /\ installJournal # I!None
      /\ installCommand.step \in {"replaying", "compensating"}
      /\ installCommand # I!NoCommand
  BY WhoseCommand DEF I!RestoresService, I!RestoresFile, I!Restoring, I!userVars, Installing,
         I!NoCommand, Fields
<1>2. CASE \E f \in Files : I!RestoresFile(f)
  <2>1. PICK f \in Files : I!RestoresFile(f)
    BY <1>2
  <2>2. UNCHANGED installJournal
    BY <2>1 DEF I!RestoresFile
  <2>3. DOMAIN installCommand' = Fields /\ Installing(installCommand)'
    BY <1>1, <2>1, <2>2 DEF I!RestoresFile, I!Goes, InstallInv, FilesInv, Installing, AllWritten,
       Fields
  <2>4. FilesInv'
    BY <1>1, <2>1, <2>2 DEF I!RestoresFile, InstallInv, FilesInv
  <2>5. EvenInv'
    BY <1>1, <2>2 DEF InstallInv, EvenInv, Even, Base
  <2> QED  BY <2>3, <2>4, <2>5 DEF InstallInv, IsCommand, Fields
<1>3. CASE I!RestoresService
  <2>1. UNCHANGED config /\ \A f \in Files : config[f] = installJournal.config[f]
    BY <1>1, <1>3 DEF I!RestoresService, Installing
  <2>2. /\ installJournal' \in {I!None, installJournal}
        /\ DOMAIN installCommand' = Fields /\ installCommand'.kind = "install"
        /\ installCommand'.step = "failed"
             \/ (installCommand'.step = "recovered" /\ installJournal' = I!None)
    BY <1>1, <1>3 DEF I!RestoresService, I!Goes, Fields, Installing
  <2>3. Installing(installCommand)'
    BY <2>2 DEF Installing, AllWritten
  <2>4. FilesInv'
    BY <1>1, <2>1, <2>2 DEF InstallInv, FilesInv
  <2>5. EvenInv'
    BY <1>1, <2>1, <2>2 DEF InstallInv, EvenInv, Even, Base
  <2> QED  BY <2>2, <2>3, <2>4, <2>5 DEF InstallInv, IsCommand, Fields
<1> QED  BY <1>2, <1>3

LEMMA InstallPlans ==
    ASSUME InstallInv, I!PlansInstall
    PROVE  InstallInv'
<1> DEFINE plan == [f \in Files |-> I!Registered(f)]
<1>1. /\ UNCHANGED <<text, config, snapshots, package, blemish>> /\ installJournal = I!None
      /\ DOMAIN installCommand = Fields /\ Installing(installCommand)
  BY WhoseCommand DEF I!PlansInstall, I!filesVars, I!userVars, I!At, Installing, Fields,
     I!NoCommand
<1>2. /\ \A f \in Files : IsContent(config[f]) /\ config[f].text = text[f]
      /\ package # 0 /\ (blemish = "none" => Even(config))
  BY <1>1 DEF InstallInv, FilesInv, EvenInv, Base
<1>3. /\ I!Snapshot # I!None /\ I!Snapshot.config = config
      /\ I!UnknownService # I!None /\ I!UnknownService.config = config
  BY DEF I!Snapshot, I!UnknownService, I!None
<1>4. installJournal' = I!None \/ (installJournal' # I!None /\ installJournal'.config = config)
  BY <1>1, <1>3 DEF I!PlansInstall
<1>5. FilesInv' /\ EvenInv'
  <2>1. FilesInv'
    BY <1>1, <1>2, <1>4 DEF InstallInv, FilesInv
  <2>2. EvenInv'
    BY <1>1, <1>2, <1>4 DEF EvenInv, Even, Base
  <2> QED  BY <2>1, <2>2
<1>6. CASE I!Goes("failed")
  <2>1. DOMAIN installCommand' = Fields /\ Installing(installCommand)'
    BY <1>1, <1>6 DEF I!Goes, Fields, Installing, AllWritten
  <2> QED  BY <1>5, <2>1 DEF InstallInv, IsCommand, Fields
<1>7. CASE /\ installJournal' # I!None
           /\ installCommand' = [installCommand EXCEPT !.step = "writing", !.plan = plan,
                                   !.was = config, !.todo = I!Differing(plan)]
  <2>1. /\ DOMAIN installCommand' = Fields /\ installCommand'.kind = "install"
        /\ installCommand'.step = "writing" /\ installCommand'.plan = plan
        /\ installCommand'.was = config /\ installCommand'.todo = I!Differing(plan)
    BY <1>1, <1>7 DEF Fields, Installing
  <2>2. \A f \in Files : IsContent(plan[f]) /\ plan[f].text = text[f] /\ Present(plan[f])
    BY <1>2 DEF I!Registered, I!WithEntry, IsContent, Present
  <2>3. \A f \in Files \ I!Differing(plan) : config[f] = plan[f]
    BY DEF I!Differing
  <2>4. Installing(installCommand)'
    BY <1>1, <1>2, <1>7, <2>1, <2>2, <2>3 DEF Installing, AllWritten, IsPlan
  <2> QED  BY <1>5, <2>1, <2>4 DEF InstallInv, IsCommand, Fields
<1> QED  BY <1>3, <1>6, <1>7 DEF I!PlansInstall

LEMMA InstallWrites ==
    ASSUME InstallInv, NEW f \in Files, I!Registers(f)
    PROVE  InstallInv'
<1>1. /\ UNCHANGED <<text, snapshots, package, blemish, installJournal>>
      /\ DOMAIN installCommand = Fields /\ Installing(installCommand)
      /\ installCommand.step = "writing" /\ installJournal # I!None
      /\ config' = [config EXCEPT ![f] = installCommand.plan[f]]
      /\ installCommand' = [installCommand EXCEPT !.todo = installCommand.todo \ {f}]
  BY WhoseCommand DEF I!Registers, I!WritesFile, I!userVars, I!At, Installing, Fields,
     I!NoCommand
<1>2. DOMAIN installCommand' = Fields /\ Installing(installCommand)'
  BY <1>1 DEF InstallInv, FilesInv, Installing, IsPlan, AllWritten, Fields
<1>3. FilesInv'
  BY <1>1 DEF InstallInv, FilesInv, Installing, IsPlan
<1>4. EvenInv'
  BY <1>1 DEF InstallInv, EvenInv, Even, Base
<1> QED  BY <1>2, <1>3, <1>4 DEF InstallInv, IsCommand, Fields

LEMMA InstallGoesOn ==
    ASSUME InstallInv, I!ChecksArtifacts \/ I!WritesLauncher \/ I!WritesManifest \/ I!Starts
    PROVE  InstallInv'
<1>1. /\ UNCHANGED <<text, config, installJournal, snapshots, package, blemish>>
      /\ package \in Nat \ {0}
      /\ DOMAIN installCommand = Fields /\ Installing(installCommand)
  BY WhoseCommand
     DEF I!ChecksArtifacts, I!WritesLauncher, I!WritesManifest, I!Starts, I!filesVars,
         I!userVars, I!At, InstallInv, FilesInv, Fields, I!NoCommand
<1>2. CASE I!ChecksArtifacts
  <2>1. /\ installCommand.step = "writing" /\ installCommand.todo = {}
        /\ \/ I!GoesOver("compensating", Files)
           \/ \E s \in AllWritten : I!Goes(s)
    BY <1>2 DEF I!ChecksArtifacts, I!At, AllWritten
  <2>2. DOMAIN installCommand' = Fields /\ Installing(installCommand)'
    BY ZenonT(40), <1>1, <2>1 DEF I!Goes, I!GoesOver, Installing, AllWritten, IsPlan, Fields
  <2> QED  BY <1>1, <2>2, FilesStay DEF IsCommand, Fields
<1>3. CASE I!WritesLauncher \/ I!WritesManifest \/ I!Starts
  <2>1. /\ installCommand.step \in AllWritten
        /\ \E s \in AllWritten : I!Goes(s) \/ \E t : I!GoesOver(s, t)
    BY <1>3 DEF I!WritesLauncher, I!WritesManifest, I!Starts, I!At, AllWritten
  <2>2. DOMAIN installCommand' = Fields /\ Installing(installCommand)'
    BY ZenonT(40), <1>1, <2>1 DEF I!Goes, I!GoesOver, Installing, AllWritten, IsPlan, Fields
  <2> QED  BY <1>1, <2>2, FilesStay DEF IsCommand, Fields
<1> QED  BY <1>2, <1>3

LEMMA InstallRemembers ==
    ASSUME InstallInv, NEW f \in Files, I!Remembers(f)
    PROVE  InstallInv'
<1>1. /\ UNCHANGED <<text, config, package, blemish, installJournal>>
      /\ DOMAIN installCommand = Fields /\ Installing(installCommand)
      /\ installCommand.step = "finishing"
      /\ snapshots' = [snapshots EXCEPT ![f] =
                          [kind |-> "snapshot", original |-> installCommand.was[f],
                           installed |-> installCommand.plan[f]]]
      /\ installCommand' = [installCommand EXCEPT !.todo = installCommand.todo \ {f}]
  BY WhoseCommand DEF I!Remembers, I!filesVars, I!userVars, I!At, Installing, Fields,
     I!NoCommand
<1>2. DOMAIN installCommand' = Fields /\ Installing(installCommand)'
  BY <1>1 DEF InstallInv, FilesInv, Installing, IsPlan, AllWritten, Fields
<1>3. FilesInv'
  <2>1. IsPlan(installCommand.plan, Files) /\ IsPlan(installCommand.was, Files)
    BY <1>1 DEF Installing, AllWritten
  <2>2. IsContent(installCommand.was[f])
        /\ installCommand.was[f].text = installCommand.plan[f].text
    BY <2>1 DEF IsPlan
  <2> QED  BY <1>1, <2>2 DEF InstallInv, FilesInv
<1>4. EvenInv'
  BY <1>1 DEF InstallInv, EvenInv, Even, Base
<1> QED  BY <1>2, <1>3, <1>4 DEF InstallInv, IsCommand, Fields

\* A finished install has an entry in every file.
LEMMA InstallFinishes ==
    ASSUME InstallInv, I!FinishesInstall
    PROVE  InstallInv'
<1>1. /\ UNCHANGED <<text, config, snapshots, package>> /\ installJournal' = I!None
      /\ Installing(installCommand) /\ installCommand.step = "finishing"
      /\ installCommand' = I!NoCommand
  BY WhoseCommand DEF I!FinishesInstall, I!filesVars, I!userVars, I!At, I!Ends, Installing,
     I!NoCommand
<1>2. \A f \in Files : Present(config[f])
  BY <1>1 DEF Installing, AllWritten
<1>3. FilesInv'
  BY <1>1 DEF InstallInv, FilesInv
<1>4. EvenInv'
  BY <1>1, <1>2 DEF EvenInv, Even, Base
<1> QED  BY <1>1, <1>3, <1>4 DEF InstallInv, IsCommand

------------------------------------------------------------------------------
\* elepha uninstall.
LEMMA UninstallBegins ==
    ASSUME InstallInv, I!StartsUninstall
    PROVE  InstallInv'
<1>1. /\ UNCHANGED <<text, config, installJournal, snapshots, package>>
      /\ package \in Nat \ {0} /\ (blemish' = "none" => blemish = "none")
  BY DEF I!StartsUninstall, I!filesVars, I!userVars, InstallInv, FilesInv
<1>2. DOMAIN installCommand' = Fields /\ Uninstalling(installCommand)'
  BY <1>1 DEF I!StartsUninstall, I!NoCommand, Uninstalling, Fields
<1> QED  BY <1>1, <1>2, FilesStay DEF IsCommand, Fields

LEMMA UninstallRecovers ==
    ASSUME InstallInv, I!DropsJournal \/ \E f \in Files : I!RecoversFile(f)
    PROVE  InstallInv'
<1>1. /\ UNCHANGED <<text, snapshots, package>> /\ DOMAIN installCommand = Fields
      /\ Uninstalling(installCommand) /\ installCommand.step = "recovering"
      /\ blemish' = blemish \/ blemish' = "now"
  BY WhoseCommand DEF I!DropsJournal, I!RecoversFile, I!At, I!userVars, Uninstalling,
         I!NoCommand, Fields, I!Cleanly, I!Blemishes
<1>2. CASE \E f \in Files : I!RecoversFile(f)
  <2>1. PICK f \in Files : I!RecoversFile(f)
    BY <1>2
  <2>2. /\ UNCHANGED installJournal /\ installJournal # I!None
        /\ installCommand' = [installCommand EXCEPT !.todo = installCommand.todo \ {f}]
        /\ \/ UNCHANGED blemish /\ config' = [config EXCEPT ![f] = installJournal.config[f]]
           \/ blemish' = "now" /\ UNCHANGED config
    BY <1>1, <2>1 DEF I!RecoversFile, I!IsNext, Uninstalling, I!Cleanly, I!Blemishes
  <2>3. DOMAIN installCommand' = Fields /\ Uninstalling(installCommand)'
    BY <1>1, <2>2 DEF InstallInv, FilesInv, Uninstalling, Fields
  <2>4. FilesInv'
    BY <1>1, <2>2 DEF InstallInv, FilesInv
  <2>5. EvenInv'
    BY <1>1, <2>2 DEF InstallInv, EvenInv, Even, Base
  <2> QED  BY <2>3, <2>4, <2>5 DEF InstallInv, IsCommand, Fields
<1>3. CASE I!DropsJournal
  <2>1. /\ UNCHANGED config /\ installCommand.todo = {}
        /\ installCommand' = [installCommand EXCEPT !.step = "planning"]
        /\ \/ UNCHANGED blemish /\ installJournal' = I!None
           \/ blemish' = "now" /\ UNCHANGED installJournal
    BY <1>3 DEF I!DropsJournal, I!Goes, I!Cleanly, I!Blemishes
  <2>2. blemish = "none" /\ installJournal # I!None =>
            \A f \in Files : config[f] = installJournal.config[f]
    BY <1>1, <2>1 DEF Uninstalling
  <2>3. DOMAIN installCommand' = Fields /\ Uninstalling(installCommand)'
    BY <1>1, <2>1 DEF Uninstalling, Fields
  <2>4. FilesInv'
    BY <1>1, <2>1 DEF InstallInv, FilesInv
  <2>5. EvenInv'
    BY <1>1, <2>1, <2>2 DEF InstallInv, EvenInv, Even, Base
  <2> QED  BY <2>3, <2>4, <2>5 DEF InstallInv, IsCommand, Fields
<1> QED  BY <1>2, <1>3

LEMMA UninstallPlans ==
    ASSUME InstallInv, I!PlansUninstall
    PROVE  InstallInv'
<1> DEFINE plan == [f \in {g \in Files : ~I!Foreign(g)} |-> I!Cleaned(f)]
<1>1. /\ UNCHANGED <<text, config, snapshots, package>> /\ DOMAIN installCommand = Fields
      /\ Uninstalling(installCommand) /\ installCommand.step = "planning"
      /\ installCommand' = [installCommand EXCEPT !.step = "stopping", !.plan = plan,
                                                  !.todo = DOMAIN plan]
      /\ \/ /\ installJournal' = I!Snapshot
            /\ blemish' = (IF I!Conflicts THEN "now" ELSE blemish)
         \/ installJournal' \in {installJournal, I!Snapshot} /\ blemish' = "now"
  BY WhoseCommand DEF I!PlansUninstall, I!filesVars, I!At, I!userVars, Uninstalling,
         I!NoCommand, Fields, I!Blemishes
<1>2. \A f \in Files : IsContent(config[f]) /\ config[f].text = text[f]
  BY DEF InstallInv, FilesInv
<1>3. I!Snapshot # I!None /\ I!Snapshot.config = config
  BY DEF I!Snapshot, I!None
<1>4. ASSUME NEW f \in DOMAIN plan
      PROVE  /\ f \in Files /\ IsContent(plan[f]) /\ plan[f].text = text[f]
             /\ ~Present(plan[f])
  <2>1. f \in Files /\ plan[f] = I!Cleaned(f)
    OBVIOUS
  <2>2. CASE I!Untouched(f)
    <3>1. /\ IsContent(snapshots[f].original)
          /\ snapshots[f].original.text = snapshots[f].installed.text
          /\ snapshots[f].installed = config[f]
      BY <2>1, <2>2 DEF I!Untouched, I!HasSnapshot, InstallInv, FilesInv
    <3>2. plan[f] = [snapshots[f].original EXCEPT !.entry = 0]
      BY <2>1, <2>2 DEF I!Cleaned
    <3> HIDE DEF plan
    <3> QED  BY <1>2, <2>1, <3>1, <3>2 DEF IsContent, Present
  <2>3. CASE ~I!Untouched(f)
    <3>1. plan[f] = [config[f] EXCEPT !.entry = 0]
      BY <2>1, <2>3 DEF I!Cleaned, I!Removed, I!WithEntry
    <3> HIDE DEF plan
    <3> QED  BY <1>2, <2>1, <3>1 DEF IsContent, Present
  <2> QED  BY <2>2, <2>3
<1>5. ~I!Conflicts => DOMAIN plan = Files
  BY DEF I!Conflicts
<1> HIDE DEF plan
<1>6. DOMAIN installCommand' = Fields /\ Uninstalling(installCommand)'
  <2>1. /\ DOMAIN installCommand' = Fields /\ installCommand'.kind = "uninstall"
        /\ installCommand'.step = "stopping" /\ installCommand'.plan = plan
        /\ installCommand'.todo = DOMAIN plan
    BY <1>1 DEF Fields, Uninstalling
  <2>2. blemish' # "now" => installJournal' # I!None /\ DOMAIN plan = Files
    BY <1>1, <1>3, <1>5
  <2> QED  BY <1>1, <1>4, <2>1, <2>2 DEF Uninstalling, IsPlan
<1>7. FilesInv'
  BY <1>1, <1>2, <1>3 DEF InstallInv, FilesInv
<1>8. EvenInv'
  BY <1>1, <1>3 DEF InstallInv, EvenInv, Even, Base, Uninstalling
<1> QED  BY <1>6, <1>7, <1>8 DEF InstallInv, IsCommand, Fields

LEMMA UninstallStops ==
    ASSUME InstallInv, I!StopsService \/ I!RemovesArtifacts
    PROVE  InstallInv'
<1>1. /\ UNCHANGED <<text, config, installJournal, snapshots, package>>
      /\ package \in Nat \ {0} /\ blemish' \in {blemish, "now"}
      /\ DOMAIN installCommand = Fields /\ Uninstalling(installCommand)
      /\ \/ installCommand.step = "stopping" /\ I!Goes("cleaning")
         \/ /\ installCommand.step = "cleaning" /\ installCommand.todo = {}
            /\ I!Goes("removed")
  BY WhoseCommand DEF I!StopsService, I!RemovesArtifacts, I!filesVars, I!At, I!userVars,
         Uninstalling, I!NoCommand, Fields, I!Cleanly, I!Blemishes, InstallInv, FilesInv
<1>2. DOMAIN installCommand' = Fields /\ Uninstalling(installCommand)'
  BY <1>1 DEF I!Goes, Uninstalling, IsPlan, Fields
<1> QED  BY <1>1, <1>2, FilesStay DEF IsCommand, Fields

LEMMA UninstallCleans ==
    ASSUME InstallInv, NEW f \in Files, I!Cleans(f)
    PROVE  InstallInv'
<1>1. /\ UNCHANGED <<text, installJournal, package>> /\ DOMAIN installCommand = Fields
      /\ Uninstalling(installCommand) /\ installCommand.step = "cleaning"
      /\ f \in installCommand.todo
      /\ installCommand' = [installCommand EXCEPT !.todo = installCommand.todo \ {f}]
      /\ \/ /\ UNCHANGED blemish /\ snapshots' = [snapshots EXCEPT ![f] = I!None]
            /\ config' = [config EXCEPT ![f] = installCommand.plan[f]]
         \/ blemish' = "now" /\ UNCHANGED <<config, snapshots>>
  BY WhoseCommand DEF I!Cleans, I!At, I!userVars, Uninstalling, I!IsNext, I!WritesFile,
         I!NoCommand, Fields, I!Cleanly, I!Blemishes
<1>2. /\ IsPlan(installCommand.plan, DOMAIN installCommand.plan)
      /\ f \in DOMAIN installCommand.plan /\ ~Present(installCommand.plan[f])
      /\ blemish # "now" => installJournal # I!None
  BY <1>1 DEF Uninstalling
<1>3. DOMAIN installCommand' = Fields /\ Uninstalling(installCommand)'
  <2>1. /\ DOMAIN installCommand' = Fields /\ installCommand'.kind = "uninstall"
        /\ installCommand'.step = "cleaning" /\ installCommand'.plan = installCommand.plan
        /\ installCommand'.todo = installCommand.todo \ {f}
    BY <1>1 DEF Fields, Uninstalling
  <2>2. blemish' # "now" => \A g \in Files \ installCommand'.todo : ~Present(config'[g])
    BY <1>1, <1>2, <2>1 DEF Uninstalling, InstallInv, FilesInv
  <2> QED  BY <1>1, <1>2, <2>1, <2>2 DEF Uninstalling, IsPlan
<1>4. FilesInv'
  BY ZenonT(40), <1>1, <1>2 DEF InstallInv, FilesInv, IsPlan
<1>5. EvenInv'
  BY <1>1, <1>2 DEF InstallInv, EvenInv, Even, Base
<1> QED  BY <1>3, <1>4, <1>5 DEF InstallInv, IsCommand, Fields

\* A finished uninstall that met no failure has no entry in any file.
LEMMA UninstallFinishes ==
    ASSUME InstallInv, I!FinishesUninstall
    PROVE  InstallInv'
<1>1. /\ UNCHANGED <<text, config, snapshots, package>> /\ installCommand' = I!NoCommand
      /\ Uninstalling(installCommand) /\ installCommand.step = "removed"
      /\ \/ /\ installJournal' = I!None
            /\ blemish' = (IF blemish = "before" THEN "none" ELSE blemish)
         \/ UNCHANGED installJournal /\ blemish' = "now"
  BY WhoseCommand DEF I!FinishesUninstall, I!filesVars, I!userVars, I!At, I!Ends,
     Uninstalling, I!NoCommand, I!Blemishes
<1>2. blemish # "now" => \A f \in Files : ~Present(config[f])
  BY <1>1 DEF Uninstalling
<1>3. FilesInv'
  BY <1>1 DEF InstallInv, FilesInv
<1>4. EvenInv'
  BY <1>1, <1>2 DEF EvenInv, Even, Base
<1> QED  BY <1>1, <1>3, <1>4 DEF InstallInv, IsCommand

------------------------------------------------------------------------------
\* elepha update, and what the user does.
LEMMA UpdateBegins ==
    ASSUME InstallInv, I!StartsUpdate
    PROVE  InstallInv'
<1> DEFINE plan == [f \in {g \in Files : I!Owned(g)} |-> I!WithEntry(f, package + 1)]
           was  == [f \in I!Differing(plan) |-> config[f]]
<1>1. /\ UNCHANGED <<text, config, installJournal, snapshots, blemish>>
      /\ package' = package + 1 /\ package \in Nat \ {0}
      /\ installCommand' = [I!NoCommand EXCEPT !.kind = "update", !.step = "refreshing",
                               !.from = package, !.plan = plan, !.was = was,
                               !.todo = I!Differing(plan)]
  BY DEF I!StartsUpdate, I!filesVars, I!userVars, InstallInv, FilesInv
<1>2. \A f \in Files : IsContent(config[f]) /\ config[f].text = text[f]
  BY DEF InstallInv, FilesInv
<1>3. \A f \in DOMAIN plan : /\ f \in Files /\ IsContent(plan[f]) /\ plan[f].text = text[f]
                             /\ Present(plan[f]) /\ Present(config[f])
  BY <1>1, <1>2 DEF I!Owned, I!WithEntry, IsContent, Present
<1>4. /\ I!Differing(plan) \subseteq DOMAIN plan /\ DOMAIN was = I!Differing(plan)
      /\ \A f \in DOMAIN was : was[f] = config[f]
  BY DEF I!Differing
<1> HIDE DEF plan, was
<1>5. DOMAIN installCommand' = Fields /\ Updating(installCommand)'
  <2>1. /\ DOMAIN installCommand' = Fields /\ installCommand'.kind = "update"
        /\ installCommand'.step = "refreshing" /\ installCommand'.plan = plan
        /\ installCommand'.was = was /\ installCommand'.todo = I!Differing(plan)
        /\ installCommand'.from = package
    BY <1>1 DEF Fields, I!NoCommand
  <2> QED  BY <1>1, <1>2, <1>3, <1>4, <2>1 DEF Updating, IsPlan
<1> QED  BY <1>1, <1>5, FilesStay DEF IsCommand, Fields

\* What an update does leaves an entry where there was one.
LEMMA EntriesStay ==
    ASSUME InstallInv, UNCHANGED <<text, installJournal, snapshots, package, blemish>>,
           config' = [f \in Files |-> config'[f]],
           \A f \in Files : /\ IsContent(config'[f]) /\ config'[f].text = text[f]
                            /\ Present(config'[f]) <=> Present(config[f]),
           IsCommand(installCommand)'
    PROVE  InstallInv'
<1>1. FilesInv'
  BY DEF InstallInv, FilesInv
<1>2. Even(config) => Even(config)'
  BY DEF Even, InstallInv, FilesInv
<1>3. Base' = IF installJournal = I!None THEN config' ELSE installJournal.config
  BY DEF Base
<1>4. installJournal # I!None => (Even(installJournal.config) => Even(Base)')
  BY <1>3 DEF Even
<1>5. installJournal = I!None => Even(Base)' = Even(config)'
  BY <1>3 DEF Even
<1>6. EvenInv'
  BY <1>2, <1>4, <1>5 DEF EvenInv, InstallInv, Base
<1> QED  BY <1>1, <1>6 DEF InstallInv

LEMMA UpdateWrites ==
    ASSUME InstallInv, NEW f \in Files, I!Refreshes(f)
    PROVE  InstallInv'
<1>1. /\ UNCHANGED <<text, installJournal, snapshots, package, blemish>>
      /\ DOMAIN installCommand = Fields /\ Updating(installCommand)
      /\ installCommand.step = "refreshing" /\ f \in installCommand.todo
      /\ config' = [config EXCEPT ![f] = installCommand.plan[f]]
      /\ installCommand' = [installCommand EXCEPT !.todo = installCommand.todo \ {f}]
  BY WhoseCommand DEF I!Refreshes, I!At, I!userVars, Updating, I!IsNext, I!WritesFile,
         I!NoCommand, Fields
<1>2. /\ IsPlan(installCommand.plan, DOMAIN installCommand.plan)
      /\ f \in DOMAIN installCommand.plan /\ Present(installCommand.plan[f])
      /\ Present(config[f])
  BY <1>1 DEF Updating
<1>3. config = [g \in Files |-> config[g]]
      /\ \A g \in Files : IsContent(config[g]) /\ config[g].text = text[g]
  BY DEF InstallInv, FilesInv
<1>4. DOMAIN installCommand' = Fields /\ Updating(installCommand)'
  BY <1>1, <1>2, <1>3 DEF Updating, IsPlan, Fields
<1> QED  BY <1>1, <1>2, <1>3, <1>4, EntriesStay DEF IsCommand, Fields, IsPlan

\* The files go back to what they were where the update wrote them.
PutBack ==
    config' = [f \in Files |-> IF f \in DOMAIN installCommand.was
                               THEN installCommand.was[f] ELSE config[f]]

LEMMA UpdatePutsBack ==
    ASSUME InstallInv, I!FailsToRefresh \/ I!RestoresRefreshed
    PROVE  InstallInv'
<1>1. /\ UNCHANGED <<text, installJournal, snapshots, package, blemish>>
      /\ DOMAIN installCommand = Fields /\ Updating(installCommand)
  BY WhoseCommand DEF I!FailsToRefresh, I!RestoresRefreshed, I!At, I!userVars, Updating,
         I!NoCommand, Fields
<1>2. config = [g \in Files |-> config[g]]
      /\ \A g \in Files : IsContent(config[g]) /\ config[g].text = text[g]
  BY DEF InstallInv, FilesInv
<1>3. ASSUME PutBack, \A f \in DOMAIN installCommand.was :
                         config[f].text = installCommand.was[f].text /\ Present(config[f]),
             DOMAIN installCommand' = Fields /\ Updating(installCommand)'
      PROVE  InstallInv'
  <2>1. config' = [f \in Files |-> config'[f]]
    BY <1>3 DEF PutBack
  <2>2. \A f \in DOMAIN installCommand.was :
            f \in Files /\ IsContent(installCommand.was[f]) /\ Present(installCommand.was[f])
    BY <1>1 DEF Updating
  <2>3. \A f \in Files : /\ IsContent(config'[f]) /\ config'[f].text = text[f]
                         /\ Present(config'[f]) <=> Present(config[f])
    BY <1>2, <1>3, <2>2 DEF PutBack
  <2> QED  BY <1>1, <1>3, <2>1, <2>3, EntriesStay DEF IsCommand, Fields
<1>4. CASE I!FailsToRefresh
  <2>1. /\ PutBack /\ installCommand.step = "refreshing"
        /\ installCommand' = [installCommand EXCEPT !.step = "reverting", !.was = <<>>]
    BY <1>4 DEF I!FailsToRefresh, I!At, PutBack
  <2>2. \A f \in DOMAIN installCommand.was :
            config[f].text = installCommand.was[f].text /\ Present(config[f])
    BY <1>1, <1>2, <2>1 DEF Updating, IsPlan
  <2>3. DOMAIN installCommand' = Fields /\ Updating(installCommand)'
    BY <1>1, <2>1 DEF Updating, Fields
  <2> QED  BY <1>3, <2>1, <2>2, <2>3
<1>5. CASE I!RestoresRefreshed
  <2>1. CASE I!Unedited
    <3>1. PutBack /\ I!Goes("reverted")
      BY <1>5, <2>1 DEF I!RestoresRefreshed, PutBack
    <3>2. \A f \in DOMAIN installCommand.was :
              config[f].text = installCommand.was[f].text /\ Present(config[f])
      BY <1>1, <2>1 DEF I!Unedited, Updating
    <3>3. DOMAIN installCommand' = Fields /\ Updating(installCommand)'
      BY <1>1, <3>1 DEF Updating, Fields, I!Goes
    <3> QED  BY <1>3, <3>1, <3>2, <3>3
  <2>2. CASE ~I!Unedited
    <3>1. I!Ends /\ UNCHANGED config
      BY <1>5, <2>2 DEF I!RestoresRefreshed
    <3> QED  BY <1>1, <3>1, CommandEnds DEF InstallInv, FilesInv
  <2> QED  BY <2>1, <2>2
<1> QED  BY <1>4, <1>5

LEMMA UpdateGoesOn ==
    ASSUME InstallInv,
           I!StopsForUpdate \/ I!Restarts \/ I!FailsToRestart \/ I!RevertsPackage
    PROVE  InstallInv'
<1>1. /\ UNCHANGED <<text, config, installJournal, snapshots, blemish>>
      /\ DOMAIN installCommand = Fields /\ Updating(installCommand)
      /\ installCommand.from \in Nat \ {0} /\ package \in Nat \ {0}
      /\ package' = package \/ package' = installCommand.from
      /\ I!Ends \/ \E s \in {"restarting", "returning", "reverting", "restoring"} : I!Goes(s)
  BY WhoseCommand DEF I!StopsForUpdate, I!Restarts, I!FailsToRestart, I!RevertsPackage, I!At,
         I!userVars, I!filesVars, Updating, I!NoCommand, Fields, InstallInv, FilesInv
<1>2. CASE I!Ends
  BY <1>1, <1>2, CommandEnds
<1>3. CASE \E s \in {"restarting", "returning", "reverting", "restoring"} : I!Goes(s)
  <2>1. DOMAIN installCommand' = Fields /\ Updating(installCommand)'
    BY <1>1, <1>3 DEF Updating, Fields, I!Goes
  <2> QED  BY <1>1, <2>1, FilesStay DEF IsCommand, Fields
<1> QED  BY <1>1, <1>2, <1>3

\* A file is edited while no command would overwrite it.
LEMMA UserEdits ==
    ASSUME InstallInv, NEW f \in Files, NEW own \in BOOLEAN, I!Edits(f, own)
    PROVE  InstallInv'
<1>1. /\ installJournal = I!None
      /\ UNCHANGED <<installJournal, snapshots, package, blemish, installCommand>>
      /\ text' = [text EXCEPT ![f] = [edit |-> text[f].edit + 1, own |-> own]]
      /\ config' = [config EXCEPT ![f] =
                       [text |-> text'[f], entry |-> IF own THEN 0 ELSE config[f].entry]]
      /\ text[f].own => own
      /\ installCommand = I!NoCommand
            \/ installCommand.step \in {"restarting", "reverting", "returning"}
  BY DEF I!Edits, I!MayEdit
<1>2. FilesInv'
  BY <1>1 DEF InstallInv, FilesInv, IsContent
<1>3. EvenInv'
  <2>1. ASSUME Even(config)
        PROVE  Even(config)'
    <3>1. /\ config'[f].text.own = own
          /\ ~own => Present(config'[f]) = Present(config[f]) /\ ~config[f].text.own
      BY <1>1 DEF InstallInv, FilesInv, Present
    <3>2. \A g \in Files : g # f => config'[g] = config[g]
      BY <1>1
    <3> QED  BY <2>1, <3>1, <3>2 DEF Even
  <2>2. Base' = config' /\ Base = config
    BY <1>1 DEF Base
  <2>3. Even(Base)' = Even(config)'
    BY <2>2 DEF Even
  <2> QED  BY <1>1, <2>1, <2>2, <2>3 DEF InstallInv, EvenInv
<1>4. IsCommand(installCommand)'
  <2>1. CASE installCommand = I!NoCommand
    BY <1>1, <2>1 DEF IsCommand
  <2>2. CASE installCommand # I!NoCommand
    <3>1. DOMAIN installCommand = Fields /\ Updating(installCommand)
      BY <1>1, <2>2, WhoseCommand
         DEF InstallInv, IsCommand, Installing, Uninstalling, AllWritten, Fields
    <3>2. Updating(installCommand)'
      BY <1>1, <2>2, <3>1 DEF Updating, IsPlan
    <3> QED  BY <1>1, <3>1, <3>2 DEF IsCommand, Fields
  <2> QED  BY <2>1, <2>2
<1> QED  BY <1>2, <1>3, <1>4 DEF InstallInv

LEMMA InstallStep == InstallInv /\ [I!InstallNext]_(I!installVars) => InstallInv'
<1> SUFFICES ASSUME InstallInv, [I!InstallNext]_(I!installVars)
             PROVE  InstallInv'
  OBVIOUS
<1>1. package \in Nat \ {0}
  BY DEF InstallInv, FilesInv
<1>2. ASSUME UNCHANGED <<text, config, installJournal, snapshots, installCommand, blemish,
                         package>>
      PROVE  InstallInv'
  <2>1. IsCommand(installCommand)'
    BY <1>2 DEF InstallInv, IsCommand, Installing, Uninstalling, Updating, IsPlan
  <2> QED  BY <1>1, <1>2, <2>1, FilesStay
<1>3. CASE UNCHANGED I!installVars
  BY <1>2, <1>3 DEF I!installVars, I!filesVars, I!userVars
<1>4. CASE I!DecidesConsent \/ I!PausesCapture \/ I!ResumesCapture \/ I!ModifiesLauncher
  BY <1>2, <1>4
     DEF I!DecidesConsent, I!PausesCapture, I!ResumesCapture, I!ModifiesLauncher,
         I!filesVars, I!userVars
<1>5. CASE I!IsKilled \/ I!GivesUpInstall
  BY <1>1, <1>5, CommandEnds DEF I!IsKilled, I!GivesUpInstall, I!filesVars, I!userVars
<1>6. CASE \/ I!StartsInstall \/ I!CountsApproved \/ I!ReplaysJournal \/ I!FailsToInstall
           \/ I!RestoresService \/ I!PlansInstall \/ I!FinishesInstall
           \/ I!ChecksArtifacts \/ I!WritesLauncher \/ I!WritesManifest \/ I!Starts
  BY <1>6, InstallBegins, InstallReplays, InstallPlans, InstallGoesOn, InstallFinishes
<1>7. CASE \/ I!StartsUninstall \/ I!DropsJournal \/ I!PlansUninstall \/ I!StopsService
           \/ I!RemovesArtifacts \/ I!FinishesUninstall
  BY <1>7, UninstallBegins, UninstallRecovers, UninstallPlans, UninstallStops,
     UninstallFinishes
<1>8. CASE \/ I!StartsUpdate \/ I!FailsToRefresh \/ I!StopsForUpdate \/ I!Restarts
           \/ I!FailsToRestart \/ I!RevertsPackage \/ I!RestoresRefreshed
  BY <1>8, UpdateBegins, UpdatePutsBack, UpdateGoesOn
<1>9. ASSUME NEW f \in Files,
             \/ I!RestoresFile(f) \/ I!Registers(f) \/ I!Remembers(f)
             \/ I!RecoversFile(f) \/ I!Cleans(f) \/ I!Refreshes(f)
             \/ \E own \in BOOLEAN : I!Edits(f, own)
      PROVE  InstallInv'
  BY <1>9, InstallReplays, InstallWrites, InstallRemembers, UninstallRecovers,
     UninstallCleans, UpdateWrites, UserEdits
<1> QED  BY <1>3, <1>4, <1>5, <1>6, <1>7, <1>8, <1>9 DEF I!InstallNext

LEMMA InstallFollowed == [Next]_vars => [I!InstallNext]_(I!installVars)
BY DEF Next, vars, installVars, I!installVars, I!filesVars, I!userVars, LifecycleSteps,
   ArchiveSteps, MigrationSteps, SourceSteps, OpencodeSteps, TaskStateSteps, RulesSteps,
   ParanoidSteps, EvidenceSteps, SetupSteps, InstallSteps, OpenTurnSteps

\* No edit of the user is lost, and with no command running, no journal and no failure
\* reported there is an entry in every tool or in none, for any files, versions, edits,
\* failures and kills (installer.ts: the journal is published before the first write and
\* released after the last).
THEOREM NoHalfInstallHolds == Spec => []NoHalfInstall
<1>1. Init => InstallInv
  BY InstallStarts DEF Init
<1>2. InstallInv /\ [Next]_vars => InstallInv'
  BY InstallFollowed, InstallStep
<1>3. InstallInv => NoHalfInstall
  <2> SUFFICES ASSUME InstallInv PROVE I!NoHalfInstall
    BY DEF NoHalfInstall
  <2>1. \A f \in Files : config[f].text = text[f]
    BY DEF InstallInv, FilesInv
  <2>2. ASSUME installJournal = I!None, blemish = "none",
               NEW f \in {h \in Files : ~I!Foreign(h)}, NEW g \in {h \in Files : ~I!Foreign(h)}
        PROVE  (config[f].entry = 0) = (config[g].entry = 0)
    <3>1. Even(config)
      BY <2>2 DEF InstallInv, EvenInv, Base
    <3> QED  BY <3>1 DEF Even, Present, I!Foreign
  <2> QED  BY <2>1, <2>2 DEF I!NoHalfInstall
<1> QED  BY <1>1, <1>2, <1>3, PTL DEF Spec

------------------------------------------------------------------------------
\* What TurnProofs proves of the open turn and of the transcripts by themselves carries over:
\* every behaviour of the whole is one of each, whose variables no other part touches.
TP == INSTANCE TurnProofs WITH source <- openTurnSource, consent <- openTurnConsent,
      barred <- openTurnBarred, stored <- openTurnStored, cursor <- openTurnCursor,
      row <- openTurnRow, scan <- openTurnScan, troubles <- openTurnTroubles,
      MaxTurns <- OpenTurnMaxTurns, MaxChanges <- OpenTurnMaxChanges,
      MaxTroubles <- OpenTurnMaxTroubles

\* The part "openTurn" takes the steps of OpenTurn and no others.
LEMMA OpenTurnFollowed == Spec => TP!OpenTurnSpec
<1>1. Init => TP!OpenTurnInit
  BY DEF Init, N!OpenTurnInit, N!Plain, N!NoRow, N!NoScan, N!Procs, N!NoTroubles,
     TP!OpenTurnInit, TP!Plain, TP!NoRow, TP!NoScan, TP!Procs, TP!NoTroubles
<1>2. N!OpenTurnNext => TP!OpenTurnNext
  BY DEF N!OpenTurnNext, N!sourceVars, N!userVars, N!storeVars, N!daemonVars, N!openTurnVars,
     N!Procs, N!Plain, N!NoRow, N!NoScan, N!NoTroubles, N!Troubled, N!Changes, N!Fails,
     N!Retries, N!Ends, N!Rewrites, N!BecomesQuiet, N!Known, N!Bumped, N!IsCurrent, N!More,
     N!BeginsValidation, N!Invalidated, N!HandlesEvent, N!OpenTurnTimerFires, N!Goes, N!Done,
     N!Opens, N!Begins, N!Collides, N!Bars, N!Refuses, N!Parses, N!Records, N!MayWrite,
     N!Stores, N!SameRevision, N!SameTurn, N!Observed, N!Observable, N!Observes, N!LeavesOpen,
     N!HandlesOpenTail, N!HasNoOpenTail, N!Stageable, N!Stages, N!ScanFails, N!Restarts,
     N!Decides, N!Grants, N!IsBarred, N!ProviderSteps, N!ScanSteps, N!UserSteps,
     TP!OpenTurnNext, TP!sourceVars, TP!userVars, TP!storeVars, TP!daemonVars,
     TP!openTurnVars, TP!Procs, TP!Plain, TP!NoRow, TP!NoScan, TP!NoTroubles, TP!Troubled,
     TP!Changes, TP!Fails, TP!Retries, TP!Ends, TP!Rewrites, TP!BecomesQuiet, TP!Known,
     TP!Bumped, TP!IsCurrent, TP!More, TP!BeginsValidation, TP!Invalidated, TP!HandlesEvent,
     TP!OpenTurnTimerFires, TP!Goes, TP!Done, TP!Opens, TP!Begins, TP!Collides, TP!Bars,
     TP!Refuses, TP!Parses, TP!Records, TP!MayWrite, TP!Stores, TP!SameRevision, TP!SameTurn,
     TP!Observed, TP!Observable, TP!Observes, TP!LeavesOpen, TP!HandlesOpenTail,
     TP!HasNoOpenTail, TP!Stageable, TP!Stages, TP!ScanFails, TP!Restarts, TP!Decides,
     TP!Grants, TP!IsBarred, TP!ProviderSteps, TP!ScanSteps, TP!UserSteps
<1>3. [Next]_vars => [TP!OpenTurnNext]_(TP!openTurnVars)
  BY <1>2 DEF Next, vars, openTurnVars, TP!openTurnVars, TP!sourceVars, TP!userVars,
     TP!storeVars, TP!daemonVars, LifecycleSteps, ArchiveSteps, MigrationSteps, SourceSteps,
     OpencodeSteps, TaskStateSteps, RulesSteps, ParanoidSteps, EvidenceSteps, SetupSteps,
     InstallSteps, OpenTurnSteps
<1> QED  BY <1>1, <1>3, PTL DEF Spec, TP!OpenTurnSpec

\* What is served of an open turn is a summary of the text its row describes, and no
\* older than what was noticed last (open-turn-store.ts: the two epochs), for any
\* number of turns, changes, collisions and troubles.
THEOREM SnapshotIsOfTheTurnInParts ==
    ASSUME OpenTurnMaxTurns \in Nat, MaxDue \in Nat \ {0}
    PROVE  Spec => []SnapshotIsOfTheTurn
<1>1. TP!SnapshotIsOfTheTurn => SnapshotIsOfTheTurn
  BY DEF SnapshotIsOfTheTurn, N!SnapshotIsOfTheTurn, TP!SnapshotIsOfTheTurn,
     N!Served, TP!Served, N!Plain, TP!Plain
<1>2. TP!OpenTurnSpec => []TP!SnapshotIsOfTheTurn
  BY TP!SnapshotIsOfTheTurnHolds
<1> QED  BY <1>1, <1>2, OpenTurnFollowed, PTL

\* A turn that failed is served, or the daemon has a reason to look at it again,
\* whatever events, collisions, timers and restarts come in between (daemon/index.ts:
\* handleOpenTail arms the timer, a change queues a scan, a restart sweeps).
THEOREM FailedTurnIsNotForgottenInParts ==
    ASSUME OpenTurnMaxTurns \in Nat, MaxDue \in Nat \ {0}
    PROVE  Spec => []FailedTurnIsNotForgotten
<1>1. TP!FailedTurnIsNotForgotten => FailedTurnIsNotForgotten
  BY DEF FailedTurnIsNotForgotten, N!FailedTurnIsNotForgotten, TP!FailedTurnIsNotForgotten,
     N!Served, TP!Served, N!Plain, TP!Plain, N!MayWrite, TP!MayWrite
<1>2. TP!OpenTurnSpec => []TP!FailedTurnIsNotForgotten
  BY TP!FailedTurnIsNotForgottenHolds
<1> QED  BY <1>1, <1>2, OpenTurnFollowed, PTL

------------------------------------------------------------------------------
\* The parser of the component is that of the part, record by record.
LEMMA MarkersAlike ==
    ASSUME NEW s, NEW i
    PROVE  /\ TP!S!NotesHeader(s, i) = S!NotesHeader(s, i)
           /\ TP!S!Signalled(s, i) = S!Signalled(s, i)
           /\ TP!S!Retried(s, i) = S!Retried(s, i)
           /\ TP!S!Observed(s, i) = S!Observed(s, i)
           /\ TP!S!Folded(s, i) = S!Folded(s, i)
<1>1. TP!S!NotesHeader(s, i) = S!NotesHeader(s, i)
  BY DEF TP!S!NotesHeader, S!NotesHeader, TP!S!LastIn, S!LastIn
<1>2. TP!S!Signalled(s, i) = S!Signalled(s, i)
  BY DEF TP!S!Signalled, S!Signalled
<1>3. TP!S!Retried(s, i) = S!Retried(s, i)
  BY DEF TP!S!Retried, S!Retried, TP!S!Content, S!Content
<1>4. TP!S!Observed(s, i) = S!Observed(s, i)
  BY DEF TP!S!Observed, S!Observed, TP!S!Records, S!Records, TP!S!Registers, S!Registers
<1>5. TP!S!Folded(s, i) = S!Folded(s, i)
  BY DEF TP!S!Folded, S!Folded, TP!S!Content, S!Content
<1> QED  BY <1>1, <1>2, <1>3, <1>4, <1>5

LEMMA CutsAlike ==
    ASSUME NEW s, NEW end
    PROVE  /\ TP!S!Yields(s, end, TRUE) = S!Yields(s, end, TRUE)
           /\ TP!S!Yields(s, end, FALSE) = S!Yields(s, end, FALSE)
<1>1. TP!S!ContextAt(s, end) = S!ContextAt(s, end)
  BY DEF TP!S!ContextAt, S!ContextAt, TP!S!LastIn, S!LastIn
<1> QED  BY <1>1 DEF TP!S!Yields, S!Yields

LEMMA ReadsAlike ==
    ASSUME NEW s, NEW i
    PROVE  TP!S!Read(s, i) = S!Read(s, i)
<1>1. \A z : TP!S!Opened(z, i) = S!Opened(z, i)
  BY CutsAlike DEF TP!S!Opened, S!Opened, TP!S!NoTurn, S!NoTurn
<1> QED  BY <1>1, MarkersAlike DEF TP!S!Read, S!Read

LEMMA ResumedAlike ==
    ASSUME NEW c
    PROVE  TP!S!Resumed(c) = S!Resumed(c)
BY DEF TP!S!Resumed, S!Resumed, TP!S!NoTurn, S!NoTurn

\* A parse is the only function of its kind, so the two are one.
LEMMA ParsesAlike ==
    ASSUME NEW c, c.at \in Nat, NEW end \in Nat, c.at <= end
    PROVE  TP!S!Parsed(c, end) = S!Parsed(c, end)
<1> DEFINE Is(p) == p = [i \in c.at..end |-> IF i = c.at THEN S!Resumed(c) ELSE S!Read(p[i - 1], i)]
<1>1. \A p : TP!ParseOf(p, c, end) <=> Is(p)
  <2> TAKE p
  <2>1. [i \in c.at..end |-> IF i = c.at THEN TP!S!Resumed(c) ELSE TP!S!Read(p[i - 1], i)]
          = [i \in c.at..end |-> IF i = c.at THEN S!Resumed(c) ELSE S!Read(p[i - 1], i)]
    BY ResumedAlike, ReadsAlike
  <2> QED  BY <2>1 DEF TP!ParseOf
<1>2. PICK p : TP!ParseOf(p, c, end)
  BY TP!ParseExists
<1> DEFINE q == CHOOSE x : Is(x)
           r == CHOOSE x : TP!ParseOf(x, c, end)
<1>3. Is(q)
  BY <1>1, <1>2
<1>4. TP!ParseOf(q, c, end) /\ TP!ParseOf(r, c, end)
  BY <1>1, <1>2, <1>3
<1>5. S!Parsed(c, end) = q[end]
  BY DEF S!Parsed
<1>6. TP!S!Parsed(c, end) = r[end]
  BY TP!ParsedIsChosen
<1> HIDE DEF q, r, Is
<1>7. \A i \in c.at..end : q[i] = r[i]
  BY <1>4, TP!ParsesAgree
<1>8. end \in c.at..end
  OBVIOUS
<1> QED  BY <1>5, <1>6, <1>7, <1>8

\* The part "source" takes the steps of Source and no others.
LEMMA ScansAlike ==
    ASSUME TP!SourceInv, S!SourceNext
    PROVE  TP!S!SourceNext
<1>1. sourceCursor.at \in Nat /\ Len(lines) \in Nat
  BY DEF TP!SourceInv, TP!SourceShape, TP!Cursors
<1>2. CASE S!WritesHeader
  <2>1. S!Appends("header", 0) => TP!S!Appends("header", 0)
    BY DEF S!Appends, TP!S!Appends
  <2>2. TP!S!WritesHeader
    BY <1>2, <2>1 DEF S!WritesHeader, TP!S!WritesHeader, S!Cardinality, TP!S!Cardinality
  <2> QED  BY <2>2 DEF TP!S!SourceNext
<1>3. CASE S!StartsAttempt
  BY <1>3 DEF S!StartsAttempt, S!Appends, TP!S!SourceNext, TP!S!StartsAttempt, TP!S!Appends
<1>4. CASE S!Prompts
  BY <1>4 DEF S!Prompts, S!Appends, TP!S!SourceNext, TP!S!Prompts, TP!S!Appends
<1>5. CASE S!Returns
  BY <1>5 DEF S!Returns, S!Appends, TP!S!SourceNext, TP!S!Returns, TP!S!Appends
<1>6. CASE S!IsReplaced
  BY <1>6 DEF S!IsReplaced, TP!S!SourceNext, TP!S!IsReplaced
<1>7. ASSUME NEW kind \in S!Content, S!Contributes(kind)
      PROVE  TP!S!SourceNext
  BY <1>7 DEF S!Contributes, S!Content, S!Appends, TP!S!SourceNext, TP!S!Contributes,
     TP!S!Content, TP!S!Appends
<1>8. ASSUME NEW how \in {"finish", "abort", "fail"}, S!EndsAttempt(how)
      PROVE  TP!S!SourceNext
  BY <1>8 DEF S!EndsAttempt, S!Appends, TP!S!SourceNext, TP!S!EndsAttempt, TP!S!Appends
<1>9. S!Trusted => TP!S!Trusted
  BY DEF S!Trusted, TP!S!Trusted, S!ContextTrusted, TP!S!ContextTrusted
<1>10. ASSUME NEW end \in 1..MaxRecords, S!Scans(end)
       PROVE  TP!S!SourceNext
  <2>1. sourceCursor.at < end
    BY <1>10 DEF S!Scans
  <2>2. TP!S!Parsed(sourceCursor, end) = S!Parsed(sourceCursor, end)
    BY <1>1, <2>1, ParsesAlike
  <2>3. TP!S!Scans(end)
    BY <1>9, <1>10, <2>2 DEF S!Scans, TP!S!Scans, S!providerVars, TP!S!providerVars
  <2> QED  BY <2>3 DEF TP!S!SourceNext
<1>11. CASE S!ScansIdle
  <2>1. sourceCursor.at < Len(lines)
    BY <1>11 DEF S!ScansIdle
  <2>2. TP!S!Parsed(sourceCursor, Len(lines)) = S!Parsed(sourceCursor, Len(lines))
    BY <1>1, <2>1, ParsesAlike
  <2>3. PICK s : s = S!Parsed(sourceCursor, Len(lines))
    OBVIOUS
  <2>4. TP!S!Yields(s, Len(lines), TRUE) = S!Yields(s, Len(lines), TRUE)
    BY CutsAlike
  <2>5. TP!S!Closable(s.turn) <=> S!Closable(s.turn)
    BY DEF TP!S!Closable, S!Closable
  <2>6. TP!S!ScansIdle
    BY <1>9, <1>11, <2>2, <2>3, <2>4, <2>5 DEF S!ScansIdle, TP!S!ScansIdle, S!providerVars,
       TP!S!providerVars
  <2> QED  BY <2>6 DEF TP!S!SourceNext
<1> QED  BY <1>2, <1>3, <1>4, <1>5, <1>6, <1>7, <1>8, <1>10, <1>11 DEF S!SourceNext

TranscriptInv == TP!SourceInv /\ TP!ResumeInv

LEMMA TranscriptIsKept ==
    ASSUME MaxAttempts \in Nat
    PROVE  Spec => []TranscriptInv
<1>1. Init => TranscriptInv
  <2>1. S!SourceInit => TP!S!SourceInit
    BY DEF S!SourceInit, TP!S!SourceInit, S!Start, TP!S!Start
  <2> QED  BY <2>1, TP!SourceStarts, TP!ResumingStarts DEF Init, TranscriptInv
<1>2. [Next]_vars => [S!SourceNext]_(S!sourceVars)
  BY DEF Next, vars, sourceVars, S!sourceVars, S!providerVars, LifecycleSteps, ArchiveSteps,
     MigrationSteps, SourceSteps, OpencodeSteps, TaskStateSteps, RulesSteps, ParanoidSteps,
     EvidenceSteps, SetupSteps, InstallSteps, OpenTurnSteps
<1>3. TranscriptInv /\ [Next]_vars => [TP!S!SourceNext]_(TP!S!sourceVars)
  BY <1>2, ScansAlike DEF TranscriptInv, S!sourceVars, TP!S!sourceVars, S!providerVars,
     TP!S!providerVars
<1>4. TranscriptInv /\ [Next]_vars => TranscriptInv'
  BY <1>3, TP!SourceStep, TP!ResumingStep DEF TranscriptInv
<1> QED  BY <1>1, <1>4, PTL DEF Spec

\* A turn in which Elepha answered is never handed on with its text, and no turn is while an
\* answer is awaited, for any transcript and however many scans read it (adapters/base.ts:
\* a turn with an unanswered question ends the scan, one with an answer loses its text).
THEOREM AnswersAreWithheldHolds ==
    ASSUME MaxAttempts \in Nat
    PROVE  Spec => []AnswersAreWithheld
<1>1. TranscriptInv => AnswersAreWithheld
  BY DEF TranscriptInv, TP!SourceInv, AnswersAreWithheld, S!AnswersAreWithheld, TP!Behind,
     TP!Asked
<1> QED  BY <1>1, TranscriptIsKept, PTL

\* The turns of a transcript come from one file: behind the cursor of a file that was
\* replaced nothing is ever cut from the one that took its place, however it grows
\* (adapters/base.ts: a cursor carries a hash of the bytes before it).
THEOREM TurnsAreOfOneFileHolds ==
    ASSUME MaxAttempts \in Nat
    PROVE  Spec => []TurnsAreOfOneFile
<1>1. TranscriptInv => TurnsAreOfOneFile
  BY DEF TranscriptInv, TP!SourceInv, TurnsAreOfOneFile, S!TurnsAreOfOneFile
<1> QED  BY <1>1, TranscriptIsKept, PTL

\* However many scans read a transcript with markers, and wherever each of them stopped,
\* their turns are those of one parse of the whole: the same records, in the same directory,
\* under the same index (adapters/base.ts: the cursor of a turn lies behind what the next
\* scan need not read again), for any records, headers, retries, failures and late answers.
THEOREM ResumingIsInvisibleHolds ==
    ASSUME MaxAttempts \in Nat
    PROVE  Spec => []ResumingIsInvisible
<1>1. TranscriptInv => ResumingIsInvisible
  <2> SUFFICES ASSUME TranscriptInv
               PROVE  ResumingIsInvisible
    OBVIOUS
  <2>1. TP!S!ResumingIsInvisible /\ Len(lines) \in Nat
    BY TP!ResumedIsInvisible DEF TranscriptInv, TP!SourceInv, TP!SourceShape
  <2>2. S!Start.at = 0 /\ TP!S!Start = S!Start
    BY DEF S!Start, TP!S!Start
  <2>3. TP!S!Parsed(S!Start, Len(lines)) = S!Parsed(S!Start, Len(lines))
    BY <2>1, <2>2, ParsesAlike
  <2>4. PICK s : s = S!Parsed(S!Start, Len(lines))
    OBVIOUS
  <2>5. PICK t : t = [s EXCEPT !.turn.asked = 0]
    OBVIOUS
  <2>6. TP!S!Yields(t, Len(lines), FALSE) = S!Yields(t, Len(lines), FALSE)
    BY CutsAlike
  <2>7. TP!S!Whole = S!Whole
    BY <2>2, <2>3, <2>4, <2>5, <2>6 DEF TP!S!Whole, S!Whole
  <2> QED  BY <2>1, <2>7 DEF ResumingIsInvisible, S!ResumingIsInvisible,
           TP!S!ResumingIsInvisible, S!Matches, TP!S!Matches
<1> QED  BY <1>1, TranscriptIsKept, PTL
=============================================================================
