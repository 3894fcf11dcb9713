------------------------- MODULE ApplicationDecision -------------------------
(***************************************************************************)
(* The landlord's decision on a renter's application, the renter's answer   *)
(* to a request for more information, the renter's own answer to the link,  *)
(* and the occupancy of the units of one property:                          *)
(*   decideWorkspaceProposedRenter, updateWorkspaceProperty                 *)
(*                    (src/src/modules/workspace/workspace.service.ts),     *)
(*   submitAdditionalInformation                                            *)
(*                    (src/src/modules/renter/additional-information.ts),   *)
(*   respondToLinkedProperty (src/src/modules/renter/renter.service.ts).    *)
(*                                                                         *)
(* A request handler is a transaction: it reads and checks, then commits    *)
(* its writes (Postgres at READ COMMITTED: reads see what others have       *)
(* committed, updates by id overwrite).  Handlers interleave between the    *)
(* two.  A check that fails throws and leaves no state, so it is a guard.   *)
(* decisionAt is a timestamp; each new one is the next number.              *)
(***************************************************************************)
EXTENDS Naturals, FiniteSets

CONSTANTS
    Case,           \* proposed renters (applications), all linked to an account
    Unit,           \* units of the property
    NoUnit,         \* null propertyUnitId
    Renter,         \* who applies: the e-mail, phone and name a unit row repeats
    RenterOf,       \* the renter of each case
    Landlord,       \* landlord members of the property
    NoLandlord,     \* null decisionByAccountId
    Note, NoNote,   \* decision notes, and the empty one
    Item,           \* what a landlord may ask for: work history, reference letter
    Vacant,         \* occupancy: isOccupied is FALSE
    Unnamed,        \* occupancy: isOccupied with no tenant details
    Handler,        \* request handlers that may be in flight at once
    NoHandler,      \* an advisory lock nobody holds
    Responding,     \* bound: the cases whose renter answers the link
    Entered,        \* bound: what an edit of the property may say of a unit
    MaxDecisions,   \* bound: distinct decisionAt per case
    MaxEdits        \* bound: edits of the property

ASSUME CaseAssumption == RenterOf \in [Case -> Renter]
ASSUME NullAssumption ==
    /\ NoUnit \notin Unit /\ NoLandlord \notin Landlord /\ NoHandler \notin Handler
    /\ Vacant # Unnamed /\ {Vacant, Unnamed} \cap Renter = {}
ASSUME BoundAssumption ==
    /\ Responding \subseteq Case /\ Entered \subseteq {Vacant, Unnamed} \cup Renter
    /\ MaxDecisions \in Nat \ {0} /\ MaxEdits \in Nat

VARIABLES
    decision,       \* "NONE", "HOLD", "APPROVED" or "DECLINED"
    at,             \* decisionAt, 0 for null
    by, note,       \* decisionByAccountId and decisionNote
    requested,      \* requestedInformation
    response,       \* additionalInformationResponse, or NoResponse
    link,           \* renterLinkResponseStatus
    unitOf,         \* propertyUnitId
    occupancy,      \* per unit: Vacant, Unnamed or the tenant
    house,          \* the same for the property row
    lock,           \* per case: holder of the advisory lock additional-information:<id>
    pc, task,       \* per handler: where it is, and what it has read and will write
    edits,          \* property edits so far
    answers,        \* per case and request: COMMENT activities that record an answer
    stale,          \* history: handlers whose check a later commit has overtaken
    skewed          \* history: units approved on such a check

file == <<decision, at, by, note, requested, response>>
property == <<unitOf, occupancy, house, edits>>
process == <<lock, pc, task>>
history == <<stale, skewed>>
vars == <<file, link, property, process, answers, history>>

Occupancy == {Vacant, Unnamed} \cup Renter
Decision == {"HOLD", "APPROVED", "DECLINED"}
Final == {"APPROVED", "DECLINED"}
Stamp == 0..MaxDecisions

NoResponse == [at |-> 0, items |-> {}]
Response == [at : Stamp, items : SUBSET Item]

DecideTask ==
    [case : Case, decision : Decision, by : Landlord, note : Note \cup {NoNote}, items : SUBSET Item,
     same : BOOLEAN, unit : Unit \cup {NoUnit}, summary : Occupancy]
SubmitTask == [case : Case, at : Stamp, items : SUBSET Item]
RespondTask == [case : Case, next : {"ACCEPTED", "WITHDRAWN"}]
NoTask == <<>>
Task == DecideTask \cup SubmitTask \cup RespondTask \cup {NoTask}

\* A case is new, or was put on hold before structured requests existed.
Init ==
    /\ \E old \in SUBSET Case :
        /\ decision = [c \in Case |-> IF c \in old THEN "HOLD" ELSE "NONE"]
        /\ at = [c \in Case |-> IF c \in old THEN 1 ELSE 0]
        /\ \E l \in Landlord : by = [c \in Case |-> IF c \in old THEN l ELSE NoLandlord]
    /\ note = [c \in Case |-> NoNote]
    /\ requested = [c \in Case |-> {}]
    /\ response = [c \in Case |-> NoResponse]
    /\ link = [c \in Case |-> "PENDING"]
    /\ unitOf \in [Case -> Unit]
    /\ occupancy \in [Unit -> {Vacant, Unnamed}]
    /\ house = IF \A u \in Unit : occupancy[u] = Vacant THEN Vacant ELSE Unnamed
    /\ lock = [c \in Case |-> NoHandler]
    /\ pc = [h \in Handler |-> "idle"]
    /\ task = [h \in Handler |-> NoTask]
    /\ edits = 0
    /\ answers = [c \in Case |-> [v \in Stamp |-> 0]]
    /\ stale = {} /\ skewed = {}

-----------------------------------------------------------------------------
(* The landlord decides: decideWorkspaceProposedRenter.                    *)

\* A structured request the renter has not answered.
AwaitsRenter(c) ==
    decision[c] = "HOLD" /\ requested[c] # {} /\ response[c] = NoResponse

\* The unit is occupied, by somebody whose details differ.  Details that are all
\* null differ from nothing: the filters are SQL comparisons.
Conflict(c) ==
    unitOf[c] # NoUnit /\ occupancy[unitOf[c]] \in Renter \ {RenterOf[c]}

Unchanged(c, d, l, n, items) ==
    d = decision[c] /\ l = by[c] /\ n = note[c] /\ items = requested[c]

\* Mutant: no look at who has the unit.
MayOverbook(c, d) == ~AwaitsRenter(c)

\* While the renter's answer is awaited the handler returns or throws, so nothing happens.
MayDecide(c, d) ==
    /\ ~AwaitsRenter(c)
    /\ d = "APPROVED" => ~Conflict(c)

\* Lock, read and check.
DecideCheck(h, c, d, l, n, items) ==
    /\ pc[h] = "idle" /\ lock[c] = NoHandler
    /\ (d = "HOLD") <=> (items # {})
    /\ MayDecide(c, d)
    /\ Unchanged(c, d, l, n, items) \/ at[c] < MaxDecisions
    /\ lock' = [lock EXCEPT ![c] = h]
    /\ pc' = [pc EXCEPT ![h] = "decide"]
    /\ task' = [task EXCEPT ![h] =
            [case |-> c, decision |-> d, by |-> l, note |-> n, items |-> items,
             same |-> Unchanged(c, d, l, n, items), unit |-> unitOf[c], summary |-> Vacant]]
    /\ UNCHANGED <<file, link, property, answers, history>>

\* Mutant: the property is occupied when exactly one unit is.
SoleSummary(o) ==
    LET occupied == {u \in Unit : o[u] # Vacant}
    IN  IF Cardinality(occupied) = 1 THEN o[CHOOSE u \in occupied : TRUE] ELSE Vacant

\* What the property row says of units occupied like o.
Summary(o) ==
    LET occupied == {u \in Unit : o[u] # Vacant}
    IN  IF occupied = {} THEN Vacant
        ELSE IF \E u \in occupied : occupied = {u} THEN o[CHOOSE u \in occupied : TRUE]
        ELSE Unnamed

ApprovesUnit(h) ==
    pc[h] = "decide" /\ task[h].decision = "APPROVED" /\ task[h].unit # NoUnit

Occupied(h) == [occupancy EXCEPT ![task[h].unit] = RenterOf[task[h].case]]

\* The occupied units as the transaction reads them after its own write.
ReadUnits(h) == Summary(Occupied(h))

\* Approval of a unit: the unit's row is written (and locked until the commit), and
\* the occupied units are read, its own write among them and no other's.
OccupyUnit(h) ==
    /\ ApprovesUnit(h)
    /\ unitOf[task[h].case] = task[h].unit
    /\ \A g \in Handler : pc[g] = "occupy" => task[g].unit # task[h].unit
    /\ pc' = [pc EXCEPT ![h] = "occupy"]
    /\ task' = [task EXCEPT ![h].summary = ReadUnits(h)]
    /\ UNCHANGED <<file, link, property, lock, answers, history>>

\* The transaction ends, whatever came of it.
Finish(h) ==
    /\ pc' = [pc EXCEPT ![h] = "idle"]
    /\ task' = [task EXCEPT ![h] = NoTask]
    /\ lock' = [c \in Case |-> IF lock[c] = h THEN NoHandler ELSE lock[c]]

\* Mutant: a repeated decision is stamped anew.
AlwaysStamp(t) == at[t.case] + 1

\* decisionAt moves unless the request is the same again.
StampOf(t) == IF t.same THEN at[t.case] ELSE at[t.case] + 1

\* Mutant: every decision drops the answer.
AlwaysClears(t) == TRUE

\* Only a new hold asks anew and clears the answer.
Clears(t) == t.decision = "HOLD" /\ ~t.same

\* The case's row.
WriteFile(h) ==
    LET t == task[h] c == t.case IN
    /\ decision' = [decision EXCEPT ![c] = t.decision]
    /\ at' = [at EXCEPT ![c] = StampOf(t)]
    /\ by' = [by EXCEPT ![c] = t.by]
    /\ note' = [note EXCEPT ![c] = t.note]
    /\ requested' = [requested EXCEPT ![c] = IF t.decision = "HOLD" THEN t.items ELSE @]
    /\ response' = [response EXCEPT ![c] = IF Clears(t) THEN NoResponse ELSE @]

Approves(h) == pc[h] \in {"decide", "occupy"} /\ task[h].decision = "APPROVED"

\* History: the requests that h's commit overtakes.  An answer to the link was checked
\* against the link, a withdrawal against the decision too, an approval against the
\* tenant of its unit.
Overtaken(h) ==
    {g \in Handler \ {h} :
        \/ /\ pc[g] = "respond" /\ task[g].case = task[h].case
           /\ pc[h] = "respond" \/ (task[h].decision \in Final /\ task[g].next = "WITHDRAWN")
        \/ /\ pc[h] = "occupy" /\ Approves(g) /\ task[g].unit = task[h].unit
           /\ RenterOf[task[g].case] # RenterOf[task[h].case]}

Overtakes(h) == stale' = (stale \cup Overtaken(h)) \ {h}

\* Commit of a decision that gives no unit to the renter; an approval of a case
\* without a unit occupies the property itself.
DecideCommit(h) ==
    /\ pc[h] = "decide" /\ ~ApprovesUnit(h)
    /\ WriteFile(h)
    /\ house' = IF task[h].decision = "APPROVED" THEN RenterOf[task[h].case] ELSE house
    /\ Finish(h) /\ Overtakes(h)
    /\ UNCHANGED <<link, unitOf, occupancy, edits, answers, skewed>>

\* Commit of an approval: the unit, and the property as summarised before.
ApproveCommit(h) ==
    /\ pc[h] = "occupy"
    /\ WriteFile(h)
    /\ occupancy' = Occupied(h)
    /\ house' = task[h].summary
    /\ Finish(h) /\ Overtakes(h)
    /\ skewed' = IF h \in stale THEN skewed \cup {task[h].unit} ELSE skewed
    /\ UNCHANGED <<link, unitOf, edits, answers>>

-----------------------------------------------------------------------------
(* The renter answers the request: submitAdditionalInformation.            *)

\* Mutant: a request that was answered may be answered again.
MayAnswerAgain(c, v, items) ==
    decision[c] = "HOLD" /\ at[c] = v /\ requested[c] # {} /\ items = requested[c]

MayAnswer(c, v, items) ==
    /\ decision[c] = "HOLD" /\ at[c] = v /\ requested[c] # {}
    /\ items = requested[c]
    /\ response[c] = NoResponse

\* Lock, read and check; a second answer to the same request returns at once.
SubmitCheck(h, c, v, items) ==
    /\ pc[h] = "idle" /\ lock[c] = NoHandler
    /\ MayAnswer(c, v, items)
    /\ lock' = [lock EXCEPT ![c] = h]
    /\ pc' = [pc EXCEPT ![h] = "submit"]
    /\ task' = [task EXCEPT ![h] = [case |-> c, at |-> v, items |-> items]]
    /\ UNCHANGED <<file, link, property, answers, history>>

SubmitCommit(h) ==
    /\ pc[h] = "submit"
    /\ LET t == task[h] IN
        /\ response' = [response EXCEPT ![t.case] = [at |-> t.at, items |-> t.items]]
        /\ answers' = [answers EXCEPT ![t.case][t.at] = @ + 1]
    /\ Finish(h)
    /\ UNCHANGED <<decision, at, by, note, requested, link, property, history>>

(* The renter accepts or leaves the link: respondToLinkedProperty.  It reads *)
(* outside its transaction and takes no lock.                               *)

\* Mutant: no look at the decision.
MayLeaveLate(c, next) ==
    link[c] = "PENDING" \/ (next = "WITHDRAWN" /\ link[c] = "ACCEPTED")

MayRespond(c, next) ==
    /\ next = "ACCEPTED" => link[c] = "PENDING"
    /\ next = "WITHDRAWN" =>
        link[c] \in {"PENDING", "ACCEPTED"} /\ decision[c] \notin Final

RespondCheck(h, c, next) ==
    /\ pc[h] = "idle" /\ c \in Responding
    /\ MayRespond(c, next)
    /\ pc' = [pc EXCEPT ![h] = "respond"]
    /\ task' = [task EXCEPT ![h] = [case |-> c, next |-> next]]
    /\ UNCHANGED <<file, link, property, lock, answers, history>>

RespondCommit(h) ==
    /\ pc[h] = "respond"
    /\ link' = [link EXCEPT ![task[h].case] = task[h].next]
    /\ Finish(h) /\ Overtakes(h)
    /\ UNCHANGED <<file, property, answers, skewed>>

-----------------------------------------------------------------------------
(* The landlord edits the property: updateWorkspaceProperty deletes every   *)
(* unit and creates the submitted ones, so cases lose theirs (onDelete:     *)
(* SetNull).  It waits for rows an approval has written.                    *)

EditProperty(o) ==
    /\ edits < MaxEdits
    /\ \A h \in Handler : pc[h] # "occupy"
    /\ edits' = edits + 1
    /\ occupancy' = o
    /\ house' = Summary(o)
    /\ unitOf' = [c \in Case |-> NoUnit]
    /\ UNCHANGED <<file, link, process, answers, history>>

\* A transaction that fails is rolled back: a unit that is gone, a timeout, a crash.
Abort(h) ==
    /\ pc[h] # "idle"
    /\ Finish(h)
    /\ stale' = stale \ {h}
    /\ UNCHANGED <<file, link, property, answers, skewed>>

-----------------------------------------------------------------------------
Decide(h) ==
    \/ \E c \in Case, d \in Decision, l \in Landlord, n \in Note \cup {NoNote}, items \in SUBSET Item :
            DecideCheck(h, c, d, l, n, items)
    \/ OccupyUnit(h) \/ DecideCommit(h) \/ ApproveCommit(h)

Answer(h) ==
    \/ \E c \in Case, v \in Stamp, items \in SUBSET Item : SubmitCheck(h, c, v, items)
    \/ SubmitCommit(h)

Respond(h) ==
    \/ \E c \in Case, next \in {"ACCEPTED", "WITHDRAWN"} : RespondCheck(h, c, next)
    \/ RespondCommit(h)

Next ==
    \/ \E h \in Handler : Decide(h) \/ Answer(h) \/ Respond(h) \/ Abort(h)
    \/ \E o \in [Unit -> Entered] : EditProperty(o)

Spec == Init /\ [][Next]_vars

-----------------------------------------------------------------------------
(* Correctness.                                                            *)

\* Every variable has its type, and a handler's task fits the place it is at.
TypeOK ==
    /\ decision \in [Case -> Decision \cup {"NONE"}]
    /\ at \in [Case -> Stamp]
    /\ by \in [Case -> Landlord \cup {NoLandlord}]
    /\ note \in [Case -> Note \cup {NoNote}]
    /\ requested \in [Case -> SUBSET Item]
    /\ response \in [Case -> Response]
    /\ link \in [Case -> {"PENDING", "ACCEPTED", "WITHDRAWN"}]
    /\ unitOf \in [Case -> Unit \cup {NoUnit}]
    /\ occupancy \in [Unit -> Occupancy]
    /\ house \in Occupancy
    /\ lock \in [Case -> Handler \cup {NoHandler}]
    /\ pc \in [Handler -> {"idle", "decide", "occupy", "submit", "respond"}]
    /\ task \in [Handler -> Task]
    /\ edits \in 0..MaxEdits
    /\ answers \in [Case -> [Stamp -> Nat]]
    /\ \A h \in Handler :
        /\ pc[h] = "idle" => task[h] = NoTask
        /\ pc[h] \in {"decide", "occupy"} => task[h] \in DecideTask
        /\ pc[h] = "submit" => task[h] \in SubmitTask
        /\ pc[h] = "respond" => task[h] \in RespondTask
    /\ stale \subseteq Handler /\ skewed \subseteq Unit

\* "One immutable response per request": no request is answered twice, in however
\* many handlers the renter's retries run.
OneAnswerPerRequest == \A c \in Case, v \in Stamp : answers[c][v] <= 1

\* An occupied unit makes the property occupied, through concurrent approvals and edits.
OccupiedUnitOccupiesHouse ==
    (\E u \in Unit : occupancy[u] # Vacant) => house # Vacant

\* The check "already marked as occupied by another renter" at :2831 is there so that a
\* unit goes to one renter: no two renters hold an approval of the same unit.
OneTenantPerUnit ==
    \A c, d \in Case :
        /\ decision[c] = "APPROVED" /\ decision[d] = "APPROVED"
        /\ unitOf[c] = unitOf[d] /\ unitOf[c] # NoUnit
        => RenterOf[c] = RenterOf[d]

\* That check does what it can: two renters hold an approval of the same unit only if one
\* approval of it was checked before another was committed, and committed after it.
OneTenantInTurn ==
    \A c, d \in Case :
        /\ decision[c] = "APPROVED" /\ decision[d] = "APPROVED"
        /\ unitOf[c] = unitOf[d] /\ unitOf[c] \notin skewed \cup {NoUnit}
        => RenterOf[c] = RenterOf[d]

\* "This application already has a final landlord decision": no withdrawal takes
\* effect after one.
NoLateWithdrawal ==
    [][\A c \in Case : link[c] # "WITHDRAWN" /\ link'[c] = "WITHDRAWN" => decision[c] \notin Final]_vars

\* A link goes from PENDING to ACCEPTED or WITHDRAWN, from ACCEPTED to WITHDRAWN, and to
\* WITHDRAWN only while there is no final decision, unless the very answer that is
\* committed was overtaken: by another answer, or by a decision if it is a withdrawal.
LinkInOrder ==
    [][\A c \in Case : link'[c] # link[c] =>
        \/ link[c] = "PENDING" /\ link'[c] = "ACCEPTED"
        \/ link[c] # "WITHDRAWN" /\ link'[c] = "WITHDRAWN" /\ decision[c] \notin Final
        \/ \E h \in stale \ stale' : pc[h] = "respond" /\ task[h].case = c]_vars

\* The handlers implement the alternation of requests and answers.
Dialog == INSTANCE InformationDialog WITH
    open <- [c \in Case |-> AwaitsRenter(c)],
    asked <- requested,
    answer <- [c \in Case |-> response[c].items]
DialogKept == Dialog!Spec
=============================================================================
