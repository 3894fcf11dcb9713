------------------------------ MODULE RentScore ------------------------------
(***************************************************************************)
(* The rent score policy and its overrides, as administrators change them,  *)
(* beside one renter's record (rent-score.service.ts).                      *)
(*                                                                         *)
(* A change of points or of a maximum is checked against what the other     *)
(* rows say and then written, in one transaction that locks nothing it has  *)
(* only read: check and write are two steps.  So are the search for an      *)
(* active override and its creation.  What a renter's record holds comes    *)
(* from other parts of the system and may change between any two steps.     *)
(***************************************************************************)
EXTENDS RentScoreEngine

CONSTANTS
    Admin,          \* administrators' requests that may be in flight at once
    EditedRule,     \* rules whose points are changed, or which are deleted
    EditedCategory, \* categories whose maximum is changed, or which are deleted
    OverriddenItem, \* codes of the breakdown that are overridden
    NewPoints,      \* the points they choose from (the route admits -900..900)
    NewMax,         \* the maxima they choose from (the route admits 0..900)
    Facts,          \* what may be on record of the renter
    Overrides       \* bound: overrides ever created

ASSUME PolicyAssumption ==
    /\ EditedRule \subseteq Rule /\ EditedCategory \subseteq Category
    /\ NewPoints \subseteq -900..900 /\ NewMax \subseteq 0..900
ASSUME RecordAssumption == Facts # {} /\ Facts \subseteq Record /\ Overrides \in Nat

VARIABLES
    points, active,     \* per rule: its points; the rules with isActive
    max, enabled,       \* per category: maxScore; the categories with isActive
    facts,              \* what is on record of the renter now
    overrides,          \* active overrides of the renter
    created,            \* overrides ever created
    pc, task,           \* per request: where it is, and what it asks for
    stale,              \* requests whose reads another's write has overtaken
    skewed              \* the kinds of rows that were written after such a read
                        \*   (stale and skewed are history variables)

policy == <<points, active, max, enabled>>
process == <<pc, task>>
history == <<stale, skewed>>
vars == <<policy, facts, overrides, created, process, history>>

Scope == {"CATEGORY", "BREAKDOWN_ITEM"}
Target == Category \cup UNION {ItemCodes(f) : f \in Facts}

\* What a request has been asked for.
RuleTask == [rule : Rule, points : -900..900]
CategoryTask == [category : Category, max : 0..900]
OverrideTask == [scope : Scope, target : Target]
NoTask == <<>>
Task == RuleTask \cup CategoryTask \cup OverrideTask \cup {NoTask}

Init ==
    /\ points = DefaultPoints /\ active = Rule
    /\ max = DefaultMax /\ enabled = Category
    /\ facts \in Facts
    /\ overrides = {} /\ created = 0
    /\ pc = [h \in Admin |-> "idle"]
    /\ task = [h \in Admin |-> NoTask]
    /\ stale = {} /\ skewed = {}

-----------------------------------------------------------------------------
(* Steps of a request.                                                      *)

Begin(h, at, t) ==
    /\ pc[h] = "idle"
    /\ pc' = [pc EXCEPT ![h] = at]
    /\ task' = [task EXCEPT ![h] = t]

\* Mutant: the request's data outlives it.
Leave(h) == pc' = [pc EXCEPT ![h] = "idle"] /\ UNCHANGED task

Finish(h) ==
    /\ pc' = [pc EXCEPT ![h] = "idle"]
    /\ task' = [task EXCEPT ![h] = NoTask]

Concerns(at) == IF at \in {"rule", "category"} THEN "policy" ELSE "overrides"

\* h's write: requests about the same rows that are past their reads are stale now.
Written(h, rows) ==
    /\ skewed' = IF h \in stale THEN skewed \cup {rows} ELSE skewed
    /\ stale' = (stale \cup {g \in Admin : pc[g] # "idle" /\ Concerns(pc[g]) = rows}) \ {h}

\* The transaction fails or the process dies: nothing is written.
Abort(h) ==
    /\ pc[h] # "idle"
    /\ Finish(h)
    /\ stale' = stale \ {h}
    /\ UNCHANGED <<policy, facts, overrides, created, skewed>>

-----------------------------------------------------------------------------
(* updateRentScoreRule, deleteRentScoreRule.                                *)

\* Mutant: the check looks at the points the rule has, not at those it gets.
FitsBefore(c, r, p) == ConfiguredPoints(points, active, c) <= max[c]

Fits(c, r, p) == ConfiguredPoints([points EXCEPT ![r] = p], active, c) <= max[c]

RuleCheck(h, r, p) ==
    /\ CategoryOf(r) \in enabled
    /\ Fits(CategoryOf(r), r, p)
    /\ Begin(h, "rule", [rule |-> r, points |-> p])
    /\ UNCHANGED <<policy, facts, overrides, created, history>>

RuleCommit(h) ==
    /\ pc[h] = "rule"
    /\ points' = [points EXCEPT ![task[h].rule] = task[h].points]
    /\ Finish(h)
    /\ Written(h, "policy")
    /\ UNCHANGED <<active, max, enabled, facts, overrides, created>>

\* A deleted rule stays, inactive; no route makes it active again.
RuleDelete(r) ==
    /\ active' = active \ {r}
    /\ UNCHANGED <<points, max, enabled, facts, overrides, created, process, history>>

-----------------------------------------------------------------------------
(* updateRentScoreCategory, deleteRentScoreCategory.                        *)

Admits(c, m) == ConfiguredPoints(points, active, c) <= m

\* Whether the category is active is not asked.
CategoryCheck(h, c, m) ==
    /\ Admits(c, m)
    /\ Begin(h, "category", [category |-> c, max |-> m])
    /\ UNCHANGED <<policy, facts, overrides, created, history>>

CategoryCommit(h) ==
    /\ pc[h] = "category"
    /\ max' = [max EXCEPT ![task[h].category] = task[h].max]
    /\ Finish(h)
    /\ Written(h, "policy")
    /\ UNCHANGED <<points, active, enabled, facts, overrides, created>>

CategoryDelete(c) ==
    /\ enabled' = enabled \ {c}
    /\ UNCHANGED <<points, active, max, facts, overrides, created, process, history>>

-----------------------------------------------------------------------------
(* createRentScoreOverride, deleteRentScoreOverride.                        *)

\* The target is looked for in the breakdown as it is before the transaction.
OverrideCheck(h, scope, target) ==
    /\ target \in IF scope = "CATEGORY" THEN Category ELSE ItemCodes(facts)
    /\ Begin(h, "search", [scope |-> scope, target |-> target])
    /\ UNCHANGED <<policy, facts, overrides, created, history>>

\* Mutant: inactive and active are mixed up, so that no active override is found.
NoneStanding(scope, target) == {}

Standing(scope, target) == {o \in overrides : o.scope = scope /\ o.target = target}

OverrideSearch(h) ==
    /\ pc[h] = "search"
    /\ IF Standing(task[h].scope, task[h].target) # {}
       THEN Finish(h)
       ELSE pc' = [pc EXCEPT ![h] = "create"] /\ UNCHANGED task
    /\ UNCHANGED <<policy, facts, overrides, created>>
    /\ stale' = stale \ {h}        \* what it has read is read now
    /\ UNCHANGED skewed

OverrideCreate(h) ==
    /\ pc[h] = "create" /\ created < Overrides
    /\ created' = created + 1
    /\ overrides' = overrides \cup
            {[id |-> created', scope |-> task[h].scope, target |-> task[h].target]}
    /\ Finish(h)
    /\ Written(h, "overrides")
    /\ UNCHANGED <<policy, facts>>

OverrideDelete(o) ==
    /\ overrides' = overrides \ {o}
    /\ UNCHANGED <<policy, facts, created, process, history>>

\* Profile, payments, reviews and references: see RenterRecord.
RecordChanges ==
    /\ facts' \in Facts
    /\ UNCHANGED <<policy, overrides, created, process, history>>

-----------------------------------------------------------------------------
EditPolicy(h) ==
    \/ \E r \in EditedRule, p \in NewPoints : RuleCheck(h, r, p)
    \/ \E c \in EditedCategory, m \in NewMax : CategoryCheck(h, c, m)
    \/ RuleCommit(h) \/ CategoryCommit(h)

EditOverrides(h) ==
    \/ \E c \in EditedCategory : OverrideCheck(h, "CATEGORY", c)
    \/ \E code \in OverriddenItem : OverrideCheck(h, "BREAKDOWN_ITEM", code)
    \/ OverrideSearch(h) \/ OverrideCreate(h)

Next ==
    \/ \E h \in Admin : EditPolicy(h) \/ EditOverrides(h) \/ Abort(h)
    \/ \E r \in EditedRule : RuleDelete(r)
    \/ \E c \in EditedCategory : CategoryDelete(c)
    \/ \E o \in overrides : OverrideDelete(o)
    \/ RecordChanges

Spec == Init /\ [][Next]_vars

-----------------------------------------------------------------------------
(* Correctness.                                                             *)

Targets(scope) == {o.target : o \in {x \in overrides : x.scope = scope}}

\* The renter's breakdown now.
Breakdown ==
    Contribution(points, active, enabled, facts, Targets("CATEGORY"), Targets("BREAKDOWN_ITEM"))

\* Every variable has its type, and a request's task fits the place it is at.
TypeOK ==
    /\ points \in [Rule -> -900..900] /\ active \subseteq Rule
    /\ max \in [Category -> 0..900] /\ enabled \subseteq Category
    /\ facts \in Facts
    /\ created \in 0..Overrides
    /\ overrides \subseteq [id : 1..created, scope : Scope, target : Target]
    /\ pc \in [Admin -> {"idle", "rule", "category", "search", "create"}]
    /\ task \in [Admin -> Task]
    /\ \A h \in Admin :
        /\ pc[h] = "idle" => task[h] = NoTask
        /\ pc[h] = "rule" => task[h] \in RuleTask
        /\ pc[h] = "category" => task[h] \in CategoryTask
        /\ pc[h] \in {"search", "create"} => task[h] \in OverrideTask
    /\ stale \subseteq Admin /\ skewed \subseteq {"policy", "overrides"}

\* "allows at most N points": unless a write followed a read that another write had
\* overtaken, what the rules of a category can come to stays within its maximum,
\* through any series of changes, deletions included.
ConfiguredFits ==
    "policy" \notin skewed =>
        \A c \in enabled : ConfiguredPoints(points, active, c) <= max[c]

\* The check is about what renters get: whatever is on record of a renter, no category
\* cuts anything off, and the score is the total of the breakdown's items, within 0..900.
ScoreIsTotal ==
    "policy" \notin skewed =>
        LET value == Breakdown
            total == MapThenSumSet(LAMBDA item : value[item], Item) IN
        /\ RawScore(max, enabled, value) = total
        /\ Score(max, enabled, value) = Min({900, Max({0, total})})

\* An override that is lifted is gone: there is no second one for the same target.
OneOverridePerTarget ==
    "overrides" \notin skewed =>
        \A o, q \in overrides : o.scope = q.scope /\ o.target = q.target => o = q
=============================================================================
