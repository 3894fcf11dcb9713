---------------------------- MODULE RenterRecord ----------------------------
(***************************************************************************)
(* What is on record of one renter, as landlords, the renter and            *)
(* administrators write it at the same time: payment schedules, references, *)
(* reviews, the identity verdict, and the events that follow them.          *)
(***************************************************************************)
EXTENDS PaymentSchedules, LandlordReferences

vars == <<eventVars, scheduleVars, referenceVars>>

Init == EventsInit /\ SchedulesInit /\ ReferencesInit

Requests ==
    \/ PaymentNext /\ UNCHANGED referenceVars
    \/ ReferenceNext /\ UNCHANGED scheduleVars

\* The replacements of any request, its failure, and what an administrator records.
Events ==
    \/ \E h \in Handler : ReplaceWait(h) \/ Replace(h) \/ EventsAbort(h)
    \/ \E rule \in RecordedRule : RecordEvent(rule)
    \/ \E e \in events : DeleteEvent(e)

Next == Requests \/ (Events /\ UNCHANGED <<scheduleVars, referenceVars>>)

Spec == Init /\ [][Next]_vars

-----------------------------------------------------------------------------
(* Correctness.                                                             *)

Families == {UtilityRules, ReferenceRules, MaintenanceRules, ComplianceRules, {IdentityCode}}

About(family) ==
    CASE family = UtilityRules -> "payment"
      [] family = ReferenceRules -> "reference"
      [] family = {IdentityCode} -> "identity"
      [] OTHER -> "behaviour"

BySystem(all) == {e \in all : e.by = "SYSTEM"}

WorkTask == PaymentWork \cup RespondWork \cup RateWork \cup JudgingWork

Task == {NoTask} \cup WorkTask \cup ReviewTask \cup ConfirmTask \cup SyncTask \cup ProofTask
            \cup AskTask \cup JudgeTask

\* Every variable has its type, a payment's date goes with its status, and a request's task
\* fits the place it is at.
TypeOK ==
    /\ events \subseteq Event /\ begun \in 0..Work
    /\ rows \in Seq(Row) /\ Len(rows) <= Rows /\ today \in Day
    /\ requests \in Seq(Answer) /\ Len(requests) <= References
    /\ identity \in Identity
    /\ pc \in [Handler -> {"idle", "open", "review", "paid", "delete", "create", "prove", "ask", "judge"}]
    /\ task \in [Handler -> Task]
    /\ \A h \in Handler :
        /\ pc[h] = "idle" => task[h] = NoTask
        /\ pc[h] = "open" => task[h] \in WorkTask
        /\ pc[h] = "review" => task[h] \in ReviewTask
        /\ pc[h] = "paid" => task[h] \in ConfirmTask
        /\ pc[h] \in {"delete", "create"} => task[h] \in SyncTask
        /\ pc[h] = "prove" => task[h] \in ProofTask
        /\ pc[h] = "ask" => task[h] \in AskTask
        /\ pc[h] = "judge" => task[h] \in JudgeTask
    /\ stale \subseteq Handler
    /\ skewed \subseteq {"payment", "proof", "reference", "behaviour", "identity"}

\* "Replacing must not duplicate": unless a write followed a read that another had overtaken,
\* the system keeps one event of a family, whatever fails halfway.
OneEventPerFamily ==
    \A family \in Families : About(family) \notin skewed =>
        Cardinality(BySystem(Family(family))) <= 1

\* "recalculated from payment history": of the events the system keeps, a recalculation that
\* nothing overtook leaves the one of the rule the score itself applies to the utility
\* payments (none for no rule), unless a partial payment is latest that is not due yet, which
\* it does not see.  What an administrator records by hand in the meantime stays.
SyncFollowsRecord ==
    [][\A h \in Handler :
        LET utilities == OfType(rows', "UTILITY")
            scored == LatestRelevant(utilities)
            left == {e.rule : e \in BySystem({x \in events' : x.rule \in UtilityRules})} IN
        /\ pc[h] \in {"open", "create"} /\ pc'[h] = "idle" /\ events' # events
        /\ task[h].about = "payment" /\ h \notin stale
        /\ scored = LatestSelected(utilities)
        => \E rule \in ScoredRules(rows') : left = {rule} \ {NoRule}]_vars

\* The verdict on the identity and its event are one: whoever's request comes last, and
\* however stale what it read, the account is approved exactly when the event is there.
VerdictHasEvent ==
    [][\A h \in Handler :
        pc[h] = "open" /\ task[h].about = "identity" /\ (identity' # identity \/ events' # events)
            /\ pc'[h] = "idle"
        => Cardinality(BySystem({e \in events' : e.rule = IdentityCode}))
                = IF identity' = "APPROVED" THEN 1 ELSE 0]_vars

\* "This payment proof has already been reviewed": the outcome of a review stands, unless
\* the review's own read was overtaken.
ReviewStands ==
    [][\A i \in DOMAIN rows :
        rows[i].outcome # "NONE" /\ rows'[i].outcome # rows[i].outcome => "payment" \in skewed']_vars

=============================================================================
