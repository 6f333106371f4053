--------------------------------- MODULE Rules ---------------------------------
(* Standing rules: text the user saves for a project, or for one chat in one   *)
(* checkout (serving/standing-rules.ts, storage/standing-rules-store.ts,       *)
(* session-rules-store.ts, standing-rules-import.ts).  What a project is comes *)
(* from the stored rows and from Git (project-resolver.ts, project-store.ts),  *)
(* who may read and write from the consent roots (consent-store.ts).  Each of  *)
(* command, delivery and import prepares its authority before its transaction  *)
(* and asks again inside; other processes run in between.                      *)
EXTENDS Integers, Sequences, FiniteSets, SequencesExt, FiniteSetsExt

CONSTANTS
    Clones, Nested,     \* checkouts, and those that have a folder
    Chats, Texts,       \* chats; a rule's text is its length
    MaxRules, MaxChars, \* STANDING_RULES_MAX_ACTIVE, _MAX_TOTAL_CHARS
    MaxChanges          \* bound

VARIABLES
    repos,    \* the checkouts that are Git repositories
    shared,   \* they have the same remote
    row,      \* projects
    decision, \* consent_roots
    rules,    \* standing_rules and session_rules
    job,      \* what is prepared and not yet committed
    served,   \* what the last step handed to a chat
    changes   \* decisions, repositories, rows and rules made

rulesVars == <<repos, shared, row, decision, rules, job, served, changes>>

Paths     == {<<c>> : c \in Clones} \union {<<c, 1>> : c \in Nested}
None      == <<>>    \* no Git root, no anchor
Origin    == <<0, 0>> \* the identity a shared remote gives
Absent    == [root |-> <<0>>, remote |-> FALSE]
NoChat    == "project"
Idle      == [kind |-> "idle"]
Nothing   == [rules |-> {}]

Within(a, p) == IsPrefix(a, p) \* a is p or above it
Toplevel(p)  == IF p[1] \in repos THEN <<p[1]>> ELSE None

----------------------------------------------------------------------------
\* Consent and projects.

Explicit(p) == {a \in Paths : Within(a, p) /\ decision[a] # "pending"}
Closest(S)  == CHOOSE a \in S : \A b \in S : Within(b, a)

State(p)     == IF Explicit(p) = {} THEN "pending" ELSE decision[Closest(Explicit(p))]
Approved(S)  == \A p \in S : State(p) = "approved"
Denied(root) == root # None /\ State(root) = "denied"

Rows == {p \in Paths : row[p] # Absent}

Shallower(p, q) == Len(p) < Len(q) \/ (Len(p) = Len(q) /\ p[1] <= q[1])
Shallowest(S)   == CHOOSE p \in S : \A q \in S : Shallower(p, q)

\* What groups a row with others: its remote, else its root.
Key(p, roots) == IF row[p].remote THEN Origin ELSE roots[p]

\* Rows without identity go together below the same row.
Top(p, roots) == Shallowest({q \in Rows : Key(q, roots) = None /\ Within(q, p)})

Together(p, roots) ==
    IF Key(p, roots) # None
    THEN {q \in Rows : Key(q, roots) = Key(p, roots)}
    ELSE {q \in Rows : Key(q, roots) = None /\ Top(q, roots) = Top(p, roots)}

StoredRoots == [p \in Paths |-> row[p].root]
StoredSet(p) == Together(p, StoredRoots)

\* The resolver of a command asks Git only below an approved path.
LiveRoots == [p \in Paths |-> IF State(p) = "approved" THEN Toplevel(p) ELSE None]

\* The list of all projects keeps the stored root elsewhere.
ListRoots == [p \in Paths |-> IF State(p) = "approved" THEN Toplevel(p) ELSE row[p].root]

\* One denied member vetoes the set; members without a decision are left out.
Consented(S) ==
    IF \E p \in S : State(p) = "denied" THEN {} ELSE {p \in S : State(p) = "approved"}

LiveSets == {Together(p, LiveRoots) : p \in Rows}

\* By a member's path, else by its Git root, else by a part of a path.
Matching(cwd, sets) ==
    LET byPath == {S \in sets : cwd \in S}
        byRoot == {S \in sets : \E p \in S : LiveRoots[p] = cwd}
        byPart == {S \in sets : \E p \in S : Within(cwd, p)}
    IN CASE byPath # {} -> byPath
         [] byPath = {} /\ byRoot # {} -> byRoot
         [] OTHER -> byPart

\* A match that is the same set in the stored rows counts with all its stored
\* members, any other with all the members it has on disk.
Resolved(cwd) ==
    LET found == Matching(cwd, {Consented(S) : S \in LiveSets} \ {{}})
    IN IF State(cwd) # "approved" \/ \A S \in found : found # {S} THEN {}
       ELSE LET p == CHOOSE p \in UNION found : TRUE
            IN Consented(IF row[p].remote THEN StoredSet(p) ELSE Together(p, ListRoots))

Rootless == [root |-> None, remote |-> FALSE]
Backed(root) == [root |-> root, remote |-> shared]

\* upsertProject: a repository has one row, at its root.
Upserted(rows, path, root) ==
    IF root = None
    THEN IF rows[path] = Absent THEN [rows EXCEPT ![path] = Rootless] ELSE rows
    ELSE IF \E q \in Paths : rows[q].root = root THEN rows
    ELSE [rows EXCEPT ![root] = Backed(root)]

RulesInit ==
    /\ repos \in {{}, Clones} /\ shared \in BOOLEAN
    /\ row \in {[p \in Paths |-> Absent],
                [p \in Paths |-> IF Len(p) > 1 THEN Absent
                                 ELSE IF p[1] \in repos THEN Backed(p) ELSE Rootless]}
    /\ \E depth \in 1 .. 2 : \* the checkouts or their folders are approved
          decision = [p \in Paths |-> IF Len(p) = depth THEN "approved" ELSE "pending"]
    /\ rules = {} /\ job = Idle /\ served = Nothing /\ changes = 0

----------------------------------------------------------------------------
\* Other processes.

Change == changes < MaxChanges /\ changes' = changes + 1

Grants(p) ==
    /\ Change /\ decision' = [decision EXCEPT ![p] = "approved"] /\ served' = Nothing
    /\ UNCHANGED <<repos, shared, row, rules, job>>

Revokes(p) ==
    /\ Change /\ decision[p] # "denied"
    /\ decision' = [decision EXCEPT ![p] = "denied"] /\ served' = Nothing
    /\ UNCHANGED <<repos, shared, row, rules, job>>

RemovesRoot(p) ==
    /\ Change /\ decision[p] # "pending"
    /\ decision' = [decision EXCEPT ![p] = "pending"] /\ served' = Nothing
    /\ UNCHANGED <<repos, shared, row, rules, job>>

Captures(p) ==
    /\ Change /\ State(p) = "approved"
    /\ row' = Upserted(row, p, Toplevel(p)) /\ row' # row /\ served' = Nothing
    /\ UNCHANGED <<repos, shared, decision, rules, job>>

InitializesRepository(c) ==
    /\ Change /\ c \notin repos /\ repos' = repos \union {c} /\ served' = Nothing
    /\ UNCHANGED <<shared, row, decision, rules, job>>

----------------------------------------------------------------------------
\* The stores.

RulesOf(S, chat, anchor) ==
    {r \in rules : r.owner \in S /\ r.chat = chat /\ r.anchor = anchor}
ProjectRules(S) == RulesOf(S, NoChat, None)

Chars(R)   == FoldSet(LAMBDA r, n : n + r.text, 0, R)
Fits(R)    == Cardinality(R) <= MaxRules /\ Chars(R) <= MaxChars
NextId     == 1 + Cardinality({r.id : r \in rules})
FreshId    == CHOOSE n \in 1 .. NextId : \A r \in rules : r.id # n

NewRule(owner, chat, anchor, text) ==
    [id |-> FreshId, owner |-> owner, chat |-> chat, anchor |-> anchor, text |-> text]

AddsRule(seen, owner, chat, anchor, text) ==
    LET new == NewRule(owner, chat, anchor, text) IN
    /\ \A r \in seen : r.text # text
    /\ Fits(seen \union {new})
    /\ rules' = rules \union {new} /\ served' = [rules |-> {new}]

RemovesRule(seen) == \E r \in seen :
    rules' = rules \ {r} /\ served' = [rules |-> {r}]

ReplacesRule(seen, text) == \E r \in seen :
    LET new == [r EXCEPT !.text = text] IN
    /\ \A q \in seen \ {r} : q.text # text
    /\ Chars((seen \ {r}) \union {new}) <= MaxChars
    /\ rules' = (rules \ {r}) \union {new} /\ served' = [rules |-> {new}]

----------------------------------------------------------------------------
\* The directory a chat's rules are bound to.

Anchors(S, chat) == {r.anchor : r \in {r \in rules : r.chat = chat /\ r.owner \in S}}

EligibleAnywhere(S, chat, cwd, root, default) == Anchors(S, chat)

\* The anchors in use that still hold for this directory in this checkout.
Eligible(S, chat, cwd, root, default) ==
    {a \in Anchors(S, chat) :
        /\ Within(a, cwd)
        /\ IF root = None THEN Within(default, a) ELSE Within(root, a)}

\* None when there is no place to bind to, or more than one.
Anchor(S, chat, cwd, root, default) ==
    LET use == Eligible(S, chat, cwd, root, default) IN
    IF default = None \/ Cardinality(use) > 1 THEN None
    ELSE IF use = {} THEN default ELSE CHOOSE a \in use : TRUE

\* The Git root, else the shallowest member above the directory.
Default(S, cwd) ==
    LET above == {p \in S : Within(p, cwd)} IN
    IF Toplevel(cwd) # None THEN Toplevel(cwd)
    ELSE IF above = {} THEN None ELSE Shallowest(above)

----------------------------------------------------------------------------
\* A rule command of a chat.

\* key, projectIds and paths of the set, as JSON.
Identity(S) == [p \in S |-> IF row[p].remote THEN Origin ELSE row[p].root]

PreparesCommand(cwd, project, chat) ==
    LET root    == Toplevel(cwd)
        owner   == Shallowest(project)
        stored  == StoredSet(owner)
    IN /\ State(cwd) = "approved" /\ ~Denied(root)
       /\ project # {} /\ project \subseteq stored /\ Approved(stored)
       /\ chat = NoChat \/ Anchor(stored, chat, cwd, root, Default(stored, cwd)) # None
       /\ job' = [kind |-> "command", cwd |-> cwd, chat |-> chat, root |-> root,
                  owner |-> owner, set |-> stored, identity |-> Identity(stored),
                  default |-> Default(stored, cwd),
                  anchor |-> IF chat = NoChat THEN None
                             ELSE Anchor(stored, chat, cwd, root, Default(stored, cwd))]
       /\ served' = Nothing
       /\ UNCHANGED <<repos, shared, row, decision, rules, changes>>

ConsentedAtPreparation(j) == TRUE

\* stillConsented, for every member of the scope.
StillConsented(j) ==
    /\ ~Denied(j.root)
    /\ \A p \in j.set :
          /\ row[p] # Absent /\ StoredSet(p) = j.set /\ Identity(j.set) = j.identity
          /\ Approved(j.set)

StillAuthorized(j) ==
    /\ StillConsented(j) /\ State(j.cwd) = "approved"
    /\ Anchor(j.set, j.chat, j.cwd, j.root, j.default) = j.anchor

Writes(seen, owner, chat, anchor, text) ==
    \/ AddsRule(seen, owner, chat, anchor, text)
    \/ RemovesRule(seen)
    \/ ReplacesRule(seen, text)

\* The rule and the receipt of its answer, in one transaction.
CommitsCommand(text) ==
    /\ job.kind = "command" /\ job.chat = NoChat /\ Change /\ StillConsented(job)
    /\ Writes(ProjectRules(job.set), job.owner, NoChat, None, text)
    /\ job' = Idle
    /\ UNCHANGED <<repos, shared, row, decision>>

CommitsChatCommand(text) ==
    /\ job.kind = "command" /\ job.chat # NoChat /\ Change /\ StillAuthorized(job)
    /\ Writes(RulesOf(job.set, job.chat, job.anchor), job.owner, job.chat, job.anchor, text)
    /\ job' = Idle
    /\ UNCHANGED <<repos, shared, row, decision>>

\* Refused inside the transaction, or its receipt is: nothing is written.
GivesUp ==
    /\ job # Idle /\ job' = Idle /\ served' = Nothing
    /\ UNCHANGED <<repos, shared, row, decision, rules, changes>>

----------------------------------------------------------------------------
\* The first rule of a directory that no project has yet.

OwnerPath(cwd)   == IF Toplevel(cwd) # None /\ State(Toplevel(cwd)) = "approved"
                    THEN Toplevel(cwd) ELSE cwd
OwnerRow(cwd)    == IF OwnerPath(cwd) = Toplevel(cwd) THEN Backed(Toplevel(cwd)) ELSE Rootless

\* A captured root without a decision stays a project of its own.
StaysApart(p, cwd) ==
    /\ OwnerRow(cwd) = Rootless /\ p = Toplevel(cwd)
    /\ row[p].root = p /\ State(p) = "pending"

\* Rows the new one could be grouped with.
Related(cwd) ==
    {p \in Rows :
        /\ ~StaysApart(p, cwd)
        /\ \/ OwnerRow(cwd).remote /\ row[p].remote
           \/ Toplevel(cwd) # None /\ row[p].root = Toplevel(cwd)
           \/ Within(p, OwnerPath(cwd)) \/ Within(OwnerPath(cwd), p)}

PreparesFirst(cwd, project, chat) ==
    /\ State(cwd) = "approved" /\ ~Denied(Toplevel(cwd))
    /\ project = {} /\ Matching(cwd, LiveSets) = {}
    /\ Approved(Related(cwd) \union {OwnerPath(cwd)})
    /\ job' = [kind |-> "first", cwd |-> cwd, chat |-> chat, root |-> Toplevel(cwd),
               owner |-> OwnerPath(cwd), identity |-> OwnerRow(cwd),
               known |-> Related(cwd) \union {OwnerPath(cwd)}]
    /\ served' = Nothing
    /\ UNCHANGED <<repos, shared, row, decision, rules, changes>>

\* The transaction asks again, makes the row, and asks for the set it is in.
CommitsFirst(text) ==
    LET root   == job.identity.root
        anchor == IF job.chat = NoChat THEN None ELSE IF job.root # None THEN job.root ELSE job.owner
    IN /\ job.kind = "first" /\ Change
       /\ ~Denied(job.root) /\ Approved(job.known) /\ row[job.owner] = Absent
       /\ row' = Upserted(row, job.owner, root)
       /\ \E owner \in {job.owner} : \E set \in {StoredSet(owner)'} :
          /\ row'[owner] # Absent /\ set \subseteq job.known /\ Approved(set)
          /\ job.chat = NoChat \/ State(job.cwd) = "approved"
          /\ AddsRule(RulesOf(set, job.chat, anchor), owner, job.chat, anchor, text)
       /\ job' = Idle
       /\ UNCHANGED <<repos, shared, decision>>

----------------------------------------------------------------------------
\* Delivery, when a chat starts and with every request of OpenCode.

\* The deepest row without identity above the directory.
RootlessAbove(cwd) == {p \in Rows : row[p] = Rootless /\ Within(p, cwd)}

Owner(cwd, project) ==
    LET live    == Shallowest(project)
        closest == Closest(RootlessAbove(cwd))
    IN CASE project # {} /\ project \subseteq StoredSet(live) -> live
         [] /\ ~(project # {} /\ project \subseteq StoredSet(live))
            /\ RootlessAbove(cwd) # {} /\ ~Denied(Toplevel(cwd))
            /\ project = {} \/ closest \in project -> closest
         [] OTHER -> None

PreparesDelivery(cwd, project, chat) ==
    LET owner == Owner(cwd, project)
        set   == StoredSet(owner)
    IN /\ State(cwd) = "approved" /\ owner # None
       /\ job' = [kind |-> "delivery", cwd |-> cwd, chat |-> chat, root |-> Toplevel(cwd),
                  owner |-> owner, set |-> set, identity |-> Identity(set),
                  fallback |-> project = {}, default |-> Default(set, cwd)]
       /\ served' = Nothing
       /\ UNCHANGED <<repos, shared, row, decision, rules, changes>>

ServableAtPreparation(j) == TRUE

\* The reader that runs inside the transaction of the receipt.
StillServable(j) ==
    /\ row[j.owner] # Absent /\ StoredSet(j.owner) = j.set /\ Identity(j.set) = j.identity
    /\ State(j.cwd) = "approved" /\ (j.fallback => ~Denied(j.root))
    /\ Approved(j.set)

\* An aggregate that has outgrown the bounds is served not at all.
ChatRules(j) ==
    LET anchor == Anchor(j.set, j.chat, j.cwd, j.root, j.default)
        found  == RulesOf(j.set, j.chat, anchor)
    IN IF anchor = None \/ Denied(j.root) \/ ~Fits(found) THEN {} ELSE found

Delivers ==
    LET body == ProjectRules(job.set) \union ChatRules(job) IN
    /\ job.kind = "delivery" /\ StillServable(job)
    /\ Fits(ProjectRules(job.set)) /\ body # {}
    /\ served' = [rules |-> body, cwd |-> job.cwd, chat |-> job.chat]
    /\ job' = Idle
    /\ UNCHANGED <<repos, shared, row, decision, rules, changes>>

----------------------------------------------------------------------------
\* Rules of a backup, one project of it: one rule, under the id it has there.

ImportId(text) == -text

\* A local project that has the path, or a new one that touches no other.
PreviewsImport(path, text) ==
    LET set == IF row[path] # Absent THEN StoredSet(path) ELSE {} IN
    /\ job = Idle /\ State(path) = "approved"
    /\ set = {} => \A q \in Rows : ~Within(q, path) /\ ~Within(path, q)
    /\ \A p \in set : State(p) = "approved"
    /\ job' = [kind |-> "import", path |-> path, text |-> text, set |-> set,
               identity |-> [p \in set |-> row[p]], existing |-> ProjectRules(set)]
    /\ served' = Nothing
    /\ UNCHANGED <<repos, shared, row, decision, rules, changes>>

\* assertStandingRuleImportAuthorized, inside the transaction.
TargetUnchanged(j) ==
    /\ State(j.path) = "approved"
    /\ IF j.set = {} THEN \A q \in Rows : ~Within(q, j.path) /\ ~Within(j.path, q)
       ELSE \A p \in j.set : /\ row[p] = j.identity[p] /\ StoredSet(p) = j.set
                             /\ State(p) = "approved"
    /\ ProjectRules(j.set) = j.existing

\* planImport: the same rule again is skipped, any collision ends the import.
Merges(seen, owner, text) ==
    LET new  == [NewRule(owner, NoChat, None, text) EXCEPT !.id = ImportId(text)]
        same == {r \in rules : r.id = new.id}
    IN IF same # {} THEN same \subseteq seen /\ rules' = rules
       ELSE /\ \A r \in seen : r.text # text
            /\ Fits(seen \union {new})
            /\ rules' = rules \union {new}

\* A row that is the checkout itself takes the identity Git has for it now.
OwnerOf(j)  == IF j.set = {} THEN j.path ELSE Shallowest(j.set)
Adopted(j)  ==
    LET root == IF Toplevel(j.path) = j.path THEN j.path ELSE None IN
    IF j.set = {} \/ (root # None /\ OwnerOf(j) = j.path /\ row[j.path].root = None)
    THEN Upserted(row, j.path, root) ELSE row

\* The sessions of the same import may add rows, but not to the rules' project.
Imports(path) ==
    /\ job.kind = "import" /\ Change /\ TargetUnchanged(job) /\ State(path) = "approved"
    /\ row' \in {Adopted(job), Upserted(Adopted(job), path, Toplevel(path))}
    /\ \E owner \in {OwnerOf(job)} : \E set \in {StoredSet(owner)'} :
       /\ row'[owner] # Absent
       /\ IF job.set = {} THEN set = {job.path} ELSE set = job.set
       /\ Approved(set)
       /\ Merges(ProjectRules(set), owner, job.text)
    /\ job' = Idle /\ served' = Nothing
    /\ UNCHANGED <<repos, shared, decision>>

----------------------------------------------------------------------------
\* A chat's command or its start: the project is resolved first.
Prepares ==
    /\ job = Idle
    /\ \E p \in Paths : \E project \in {Resolved(p)} :
          \/ \E chat \in Chats \union {NoChat} :
                PreparesCommand(p, project, chat) \/ PreparesFirst(p, project, chat)
          \/ \E chat \in Chats : PreparesDelivery(p, project, chat)

RulesNext ==
    \/ \E p \in Paths : Grants(p) \/ Revokes(p) \/ RemovesRoot(p) \/ Captures(p)
    \/ \E c \in Clones : InitializesRepository(c)
    \/ Prepares
    \/ \E text \in Texts : CommitsCommand(text) \/ CommitsChatCommand(text) \/ CommitsFirst(text)
    \/ \E p \in Paths, text \in Texts : PreviewsImport(p, text)
    \/ \E p \in Paths : Imports(p)
    \/ GivesUp \/ Delivers

----------------------------------------------------------------------------
\* What goes to a chat is all of its project's rules, of a project with no
\* member that is not approved at that moment, and of the chat's own rules only
\* those saved at or above the directory it works in.
DeliversInPlace ==
    served'.rules # {} /\ job.kind = "delivery" =>
        LET r == CHOOSE r \in served'.rules : TRUE IN
        /\ Approved(StoredSet(r.owner)) /\ State(job.cwd) = "approved"
        /\ ProjectRules(StoredSet(r.owner)) \subseteq served'.rules
        /\ \A q \in served'.rules :
              /\ q.owner \in StoredSet(r.owner)
              /\ q.chat # NoChat => q.chat = job.chat /\ Within(q.anchor, job.cwd)

ServedInPlace == [][DeliversInPlace]_rulesVars

\* No write makes a project exceed its limits or hold a text twice, however its
\* members and its rules have changed since the write was prepared.
WritesWithinBounds ==
    \A r \in rules' \ rules :
        LET set    == StoredSet(r.owner)'
            beside == {q \in rules \union rules' :
                          q.owner \in set /\ q.chat = r.chat /\ q.anchor = r.anchor}
            before == beside \intersect rules
            after  == beside \intersect rules'
        IN /\ Approved(StoredSet(r.owner))'
           /\ Fits(before) => Fits(after)
           /\ \A q \in after : q # r => q.text # r.text

WrittenWithinBounds == [][WritesWithinBounds]_rulesVars
=============================================================================
