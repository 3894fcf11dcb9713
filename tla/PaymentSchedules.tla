-------------------------- MODULE PaymentSchedules --------------------------
(***************************************************************************)
(* The payment schedules of one approved case whose renter has an account,  *)
(* as landlord and renter write them, and the utility event that follows    *)
(* them: workspace.service.ts, renter.service.ts, and                       *)
(* syncUtilityPaymentHistoryEvent of rent-score.service.ts.                 *)
(*                                                                         *)
(* Dates are days.  A transaction of the landlord's side is cut at its read,*)
(* at its update (with the schedules the recalculation reads then), at each *)
(* replacement and at its commit; the renter's confirmation runs without a  *)
(* transaction, each of its statements is committed by itself.              *)
(***************************************************************************)
EXTENDS ScoreEvents

CONSTANTS
    PaymentType,    \* of "RENT", "UTILITY", "ESTATE_DUE"
    Grace,          \* days after the due date in which a payment still counts (60)
    Due,            \* due dates a landlord or agent chooses from
    Period,         \* days from one due date of a recurring payment to the next
    Cycles,         \* future cycles a recurring payment may have
    LastDay,        \* bound: dates
    Rows            \* bound: rows of PaymentSchedule

Day == 0..LastDay

ASSUME ScheduleAssumption ==
    /\ PaymentType \subseteq {"RENT", "UTILITY", "ESTATE_DUE"}
    /\ {Grace, Period, LastDay, Rows} \subseteq Nat /\ Due \subseteq Nat /\ Cycles \subseteq Nat

VARIABLES
    rows,           \* the schedules, in the order of their creation
    today

scheduleVars == <<rows, today>>

Paid == {"FULL", "PARTIAL"}         \* PaymentConfirmationOutcome
Columns == [type : PaymentType, due : Nat, status : {"PENDING", "PAID", "OVERDUE"},
            paid : Day \cup {Null},     \* paidAt
            sent : BOOLEAN,             \* confirmationInitiatedAt is set
            outcome : Paid \cup {"NONE"}]

\* A PAID row has its date; a date stands on a PAID row or on one whose renter gave it
\* with a proof.
Dated(r) ==
    /\ r.status = "PAID" => r.paid # Null
    /\ r.paid # Null => r.status = "PAID" \/ r.sent

Row == {r \in Columns : Dated(r)}

\* What a request has read and is about to write: a transaction's rows, a review, and
\* the renter's confirmation, recalculation and proof.
PaymentWork == [about : {"payment"}, lock : {"row"} \X Nat, row : Nat, to : Seq(Row) \ {<<>>},
                todo : Seq(Job), seen : SUBSET Event, met : SUBSET Event, made : SUBSET Event]
ReviewTask == {t \in [about : {"payment"}, row : Nat, outcome : Paid, paid : Day \cup {Null}] :
                  (t.outcome = "FULL") <=> (t.paid # Null)}
ConfirmTask == [about : {"payment"}, row : Nat]
SyncTask == [about : {"payment"}, rule : UtilityRules \cup {NoRule}, met : SUBSET Event]
ProofTask == [about : {"proof"}, row : Nat]

SchedulesInit == rows = <<>> /\ today = 0

-----------------------------------------------------------------------------
(* What the payments come to.                                               *)

OfType(rs, type) == {rs[i] : i \in {j \in DOMAIN rs : rs[j].type = type}}

Latest(some) == {r \in some : \A q \in some : q.due <= r.due}

\* latestRelevantSchedule; of rows due on one day the order is the database's.
LatestRelevant(some) ==
    Latest({r \in some : r.status = "PAID" \/ r.outcome = "PARTIAL" \/ r.due <= today})

\* The recalculation does not select the outcome, so it is blind to it.
LatestSelected(some) == Latest({r \in some : r.status = "PAID" \/ r.due <= today})

DaysLate(r) == Max({0, r.paid - r.due})

\* paymentRuleCodeFromLatestSchedule; a PAID row has a date (TypeOK).
UtilityRuleOf(r) ==
    CASE r.status # "PAID" -> "UTILITY_MISSED"
      [] r.status = "PAID" /\ DaysLate(r) = 0 -> "UTILITY_PAID_ON_TIME"
      [] r.status = "PAID" /\ DaysLate(r) \in 1..Grace -> "UTILITY_PAID_WITHIN_GRACE_PERIOD"
      [] OTHER -> "UTILITY_MISSED"

RulesFor(some) == IF some = {} THEN {NoRule} ELSE {UtilityRuleOf(r) : r \in some}

\* The rules the score may show for the utility payments.
ScoredRules(rs) == RulesFor(LatestRelevant(OfType(rs, "UTILITY")))

\* Mutant: the rows as the transaction found them.
SyncBeforeWrite(rs) == RulesFor(LatestSelected(OfType(rows, "UTILITY")))

\* The rules syncUtilityPaymentHistoryEvent may find.
SyncedRules(rs) == RulesFor(LatestSelected(OfType(rs, "UTILITY")))

\* A change of a row brings a recalculation with it if the row's type is UTILITY.
Syncs(type, rs) == IF type = "UTILITY" THEN SyncedRules(rs) ELSE {NoRule}

Jobs(type, rule) == IF type = "UTILITY" THEN <<[codes |-> UtilityRules, rule |-> rule]>> ELSE <<>>

-----------------------------------------------------------------------------
(* The landlord's and agents' side.                                         *)

\* The transaction's rows: the committed ones and its own.
View(i, to) == IF i = 0 THEN rows \o to ELSE [rows EXCEPT ![i] = to[1]]

\* h's transaction appends rows (i = 0) or has updated row i, and reads on.
Opened(i, to, rule) ==
    [about |-> "payment", lock |-> <<"row", i>>, row |-> i, to |-> to,
     todo |-> Jobs(to[1].type, rule), seen |-> {}, met |-> {}, made |-> {}]

Fresh(type, due) ==
    [type |-> type, due |-> due, status |-> "PENDING", paid |-> Null, sent |-> FALSE, outcome |-> "NONE"]

\* createWorkspacePaymentSchedule
Schedule(h, type, due, cycles) ==
    LET to == [k \in 1..(cycles + 1) |-> Fresh(type, due + (k - 1) * Period)] IN
    /\ Len(rows) + Len(to) <= Rows
    /\ \E rule \in Syncs(type, View(0, to)) :
        Begin(h, "open", Opened(0, to, rule))
    /\ UNCHANGED <<events, stale, skewed, scheduleVars>>

\* updateWorkspacePaymentSchedule, whatever the row's status and outcome.
Update(h, i, status, paid) ==
    LET to == <<[rows[i] EXCEPT !.status = status, !.paid = IF status = "PAID" THEN paid ELSE Null]>> IN
    /\ Free(h, <<"row", i>>)
    /\ \E rule \in Syncs(rows[i].type, View(i, to)) :
        Begin(h, "open", Opened(i, to, rule))
    /\ UNCHANGED <<events, stale, skewed, scheduleVars>>

\* Mutant: a proof that was reviewed may be reviewed again.
SentReviewable(i) == rows[i].sent

Reviewable(i) == rows[i].sent /\ rows[i].outcome = "NONE"

\* confirmWorkspacePaymentSchedule: the read, with the date a full payment gets
\* (of the request, of the row, or now).
ReviewCheck(h, i, outcome, paid) ==
    /\ Reviewable(i)
    /\ Begin(h, "review", [about |-> "payment", row |-> i, outcome |-> outcome,
                           paid |-> IF outcome = "FULL" THEN paid ELSE Null])
    /\ UNCHANGED <<events, stale, skewed, scheduleVars>>

ReviewWrite(h) ==
    /\ Move(h, "review", "open")
    /\ LET i == task[h].row
           to == <<[rows[i] EXCEPT !.status = IF task[h].outcome = "FULL" THEN "PAID" ELSE "PENDING",
                                   !.paid = task[h].paid, !.outcome = task[h].outcome]>> IN
        /\ Free(h, <<"row", i>>)
        /\ \E rule \in Syncs(rows[i].type, View(i, to)) :
            task' = [task EXCEPT ![h] = Opened(i, to, rule)]
    /\ UNCHANGED <<events, stale, skewed, scheduleVars>>

PaymentCommit(h) ==
    /\ pc[h] = "open" /\ task[h].about = "payment"
    /\ Len(View(task[h].row, task[h].to)) <= Rows
    /\ CommitEvents(h)
    /\ rows' = View(task[h].row, task[h].to)
    /\ Finish(h)
    /\ Written(h, "payment")
    /\ UNCHANGED today

-----------------------------------------------------------------------------
(* The renter's side.                                                       *)

\* confirmRenterPayment: the row, then for a utility the recalculation.
Confirm(h, i, paid) ==
    /\ Free(h, <<"row", i>>)
    /\ rows' = [rows EXCEPT ![i].status = "PAID", ![i].paid = paid]
    /\ Begin(h, "paid", [about |-> "payment", row |-> i])
    /\ Written(h, "payment")
    /\ UNCHANGED <<events, today>>

SyncRead(h) ==
    /\ pc[h] = "paid"
    /\ IF rows[task[h].row].type = "UTILITY"
       THEN /\ Move(h, "paid", "delete")
            /\ \E rule \in SyncedRules(rows) :
                task' = [task EXCEPT ![h] = [about |-> "payment", rule |-> rule, met |-> {}]]
       ELSE Finish(h)
    /\ stale' = stale \ {h}        \* what it has read is read now
    /\ UNCHANGED <<events, skewed, scheduleVars>>

SyncWait(h) == pc[h] = "delete" /\ Wait(h, Family(UtilityRules)) /\ UNCHANGED scheduleVars

SyncDelete(h) ==
    /\ Move(h, "delete", "create")
    /\ LET gone == Met(h, Family(UtilityRules)) IN
        /\ Deletable(h, gone)
        /\ events' = events \ gone
    /\ UNCHANGED <<task, stale, skewed, scheduleVars>>

SyncCreate(h) ==
    /\ pc[h] = "create"
    /\ events' = events \cup New(task[h].rule, "SYSTEM")
    /\ Finish(h)
    /\ Written(h, "payment")
    /\ UNCHANGED scheduleVars

\* initiateRenterPaymentConfirmation: the check, then the update.
ProveCheck(h, i) ==
    /\ ~rows[i].sent
    /\ Begin(h, "prove", [about |-> "proof", row |-> i])
    /\ UNCHANGED <<events, stale, skewed, scheduleVars>>

ProveWrite(h) ==
    /\ pc[h] = "prove" /\ Free(h, <<"row", task[h].row>>)
    /\ rows' = [rows EXCEPT ![task[h].row].sent = TRUE]
    /\ Finish(h)
    /\ Written(h, "proof")
    /\ UNCHANGED <<events, today>>

\* createSelfInitiatedRenterPayment: due when it was paid, no recalculation.
SelfInitiate(type, paid) ==
    /\ begun < Work /\ Len(rows) < Rows
    /\ begun' = begun + 1
    /\ rows' = Append(rows, [Fresh(type, paid) EXCEPT !.paid = paid, !.sent = TRUE])
    /\ stale' = stale \cup {g \in Handler : pc[g] # "idle" /\ task[g].about = "payment"}
    /\ UNCHANGED <<events, pc, task, skewed, today>>

NextDay ==
    /\ today < LastDay
    /\ today' = today + 1
    /\ stale' = stale \cup {g \in Handler : pc[g] # "idle" /\ task[g].about = "payment"}
    /\ UNCHANGED <<events, begun, pc, task, skewed, rows>>

-----------------------------------------------------------------------------
Landlord(h) ==
    \/ \E type \in PaymentType, due \in Due, n \in Cycles \cup {0} : Schedule(h, type, due, n)
    \/ \E i \in DOMAIN rows, status \in {"PENDING", "PAID", "OVERDUE"}, paid \in Day : Update(h, i, status, paid)
    \/ \E i \in DOMAIN rows, outcome \in Paid, paid \in Day : ReviewCheck(h, i, outcome, paid)
    \/ ReviewWrite(h) \/ PaymentCommit(h)

Renter(h) ==
    \/ \E i \in DOMAIN rows, paid \in Day : Confirm(h, i, paid)
    \/ SyncRead(h) \/ SyncWait(h) \/ SyncDelete(h) \/ SyncCreate(h)
    \/ \E i \in DOMAIN rows : ProveCheck(h, i)
    \/ ProveWrite(h)

PaymentNext ==
    \/ \E h \in Handler : Landlord(h) \/ Renter(h)
    \/ \E type \in PaymentType, paid \in Day : SelfInitiate(type, paid)
    \/ NextDay
=============================================================================
