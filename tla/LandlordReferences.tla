------------------------- MODULE LandlordReferences -------------------------
(***************************************************************************)
(* What else puts events on a renter's record: the landlord's answers to    *)
(* requests for a reference and behaviour reviews (workspace.service.ts,    *)
(* renter.service.ts), and the identity number the renter submits, of which *)
(* rows from before the automatic approval may still await an               *)
(* administrator (renter.service.ts, rent-score.service.ts).                *)
(***************************************************************************)
EXTENDS ScoreEvents

CONSTANTS
    Recommendation, \* of the four a landlord may give
    Rating,         \* of "EXCELLENT", "GOOD", "POOR"
    References      \* bound: rows of LandlordReferenceRequest

ASSUME ReferenceAssumption ==
    /\ Recommendation \subseteq {"STRONGLY_RECOMMEND", "RECOMMEND", "NEUTRAL", "DO_NOT_RECOMMEND"}
    /\ Rating \subseteq {"EXCELLENT", "GOOD", "POOR"} /\ References \in Nat

VARIABLES
    requests,       \* one case's requests to one landlord
    identity        \* the renter's identityReviewStatus

referenceVars == <<requests, identity>>

NoRecommendation == "NONE"
Answer == [status : {"PENDING", "COMPLETED", "DECLINED"},
           recommendation : Recommendation \cup {NoRecommendation}]
Identity == {"NOT_SUBMITTED", "PENDING", "APPROVED", "FAILED"}

IdentityCode == "GOVERNMENT_ID_VERIFIED"

\* What a request has read and is about to write.
AskTask == [about : {"request"}]
RespondWork == [about : {"reference"}, lock : {"request"} \X Nat, row : Nat, answer : Answer,
                todo : Seq(Job), seen : SUBSET Event, met : SUBSET Event, made : SUBSET Event]
RateWork == [about : {"behaviour"}, lock : {<<"none", 0>>},
             todo : Seq(Job), seen : SUBSET Event, met : SUBSET Event, made : SUBSET Event]
JudgeTask == [about : {"identity"}, verdict : {"APPROVED", "FAILED"}]
JudgingWork == [about : {"identity"}, lock : {<<"account", 0>>}, verdict : {"APPROVED", "FAILED"},
                todo : Seq(Job), seen : SUBSET Event, met : SUBSET Event, made : SUBSET Event]

ReferencesInit ==
    /\ requests = <<>>
    /\ identity \in {"NOT_SUBMITTED", "PENDING"}

-----------------------------------------------------------------------------
(* References.                                                              *)

SomePending == \E i \in DOMAIN requests : requests[i].status = "PENDING"

\* requestLandlordReference: the search, then the transaction that creates.
AskCheck(h) ==
    /\ ~SomePending
    /\ Begin(h, "ask", [about |-> "request"])
    /\ UNCHANGED <<events, stale, skewed, referenceVars>>

AskCommit(h) ==
    /\ pc[h] = "ask" /\ Len(requests) < References
    /\ requests' = Append(requests, [status |-> "PENDING", recommendation |-> NoRecommendation])
    /\ Finish(h)
    /\ UNCHANGED <<events, stale, skewed, identity>>

\* landlordReferenceRuleCodeFromRecommendation
ReferenceRule == [
    STRONGLY_RECOMMEND |-> "LANDLORD_REFERENCE_STRONGLY_RECOMMEND",
    RECOMMEND |-> "LANDLORD_REFERENCE_RECOMMEND",
    NEUTRAL |-> "LANDLORD_REFERENCE_NEUTRAL",
    DO_NOT_RECOMMEND |-> "LANDLORD_REFERENCE_DO_NOT_RECOMMEND"]

\* respondToLandlordReferenceRequest, whatever the request's status: the update, which
\* locks the request's row; a completed answer replaces the event.
Respond(h, i, recommendation) ==
    LET declined == recommendation = NoRecommendation IN
    /\ Free(h, <<"request", i>>)
    /\ Begin(h, "open", [
            about |-> "reference", lock |-> <<"request", i>>, row |-> i,
            answer |-> [status |-> IF declined THEN "DECLINED" ELSE "COMPLETED",
                        recommendation |-> recommendation],
            todo |-> IF declined THEN <<>>
                     ELSE <<[codes |-> ReferenceRules, rule |-> ReferenceRule[recommendation]]>>,
            seen |-> {}, met |-> {}, made |-> {}])
    /\ UNCHANGED <<events, stale, skewed, referenceVars>>

RespondCommit(h) ==
    /\ pc[h] = "open" /\ task[h].about = "reference"
    /\ CommitEvents(h)
    /\ requests' = [requests EXCEPT ![task[h].row] = task[h].answer]
    /\ Finish(h)
    /\ Written(h, "reference")
    /\ UNCHANGED identity

-----------------------------------------------------------------------------
(* submitWorkspaceRenterBehaviourReview.                                    *)

MaintenanceRule == [EXCELLENT |-> "PROPERTY_MAINTENANCE_EXCELLENT",
                    GOOD |-> "PROPERTY_MAINTENANCE_GOOD", POOR |-> "PROPERTY_MAINTENANCE_POOR"]
ComplianceRule == [EXCELLENT |-> "LEASE_COMPLIANCE_EXCELLENT",
                   GOOD |-> "LEASE_COMPLIANCE_GOOD", POOR |-> "LEASE_COMPLIANCE_POOR"]

\* Nothing is updated, so nothing is locked before the events are.
Rate(h, maintenance, compliance) ==
    /\ Begin(h, "open", [
            about |-> "behaviour", lock |-> <<"none", 0>>,
            todo |-> <<[codes |-> MaintenanceRules, rule |-> MaintenanceRule[maintenance]],
                       [codes |-> ComplianceRules, rule |-> ComplianceRule[compliance]]>>,
            seen |-> {}, met |-> {}, made |-> {}])
    /\ UNCHANGED <<events, stale, skewed, referenceVars>>

RateCommit(h) ==
    /\ pc[h] = "open" /\ task[h].about = "behaviour"
    /\ CommitEvents(h)
    /\ Finish(h)
    /\ Written(h, "behaviour")
    /\ UNCHANGED referenceVars

-----------------------------------------------------------------------------
(* Identity.                                                                *)

\* Mutant: the account's row is updated last.
JudgingUnlocked(verdict) == [
    about |-> "identity", lock |-> <<"none", 0>>, verdict |-> verdict,
    todo |-> <<[codes |-> {IdentityCode},
                rule |-> IF verdict = "APPROVED" THEN IdentityCode ELSE NoRule]>>,
    seen |-> {}, met |-> {}, made |-> {}]

\* The account's row is updated first and stays locked: verdicts come one at a time.
Judging(verdict) ==
    [about |-> "identity", lock |-> <<"account", 0>>, verdict |-> verdict,
     todo |-> <<[codes |-> {IdentityCode},
                 rule |-> IF verdict = "APPROVED" THEN IdentityCode ELSE NoRule]>>,
     seen |-> {}, met |-> {}, made |-> {}]

\* submitRenterIdentityForReview: approved at once.
SubmitIdentity(h) ==
    /\ Free(h, <<"account", 0>>)
    /\ Begin(h, "open", Judging("APPROVED"))
    /\ UNCHANGED <<events, stale, skewed, referenceVars>>

\* reviewIdentitySubmission: the read, outside the transaction.
JudgeCheck(h, verdict) ==
    /\ identity = "PENDING"
    /\ Begin(h, "judge", [about |-> "identity", verdict |-> verdict])
    /\ UNCHANGED <<events, stale, skewed, referenceVars>>

JudgeWrite(h) ==
    /\ Move(h, "judge", "open")
    /\ Free(h, <<"account", 0>>)
    /\ task' = [task EXCEPT ![h] = Judging(task[h].verdict)]
    /\ UNCHANGED <<events, stale, skewed, referenceVars>>

IdentityCommit(h) ==
    /\ pc[h] = "open" /\ task[h].about = "identity"
    /\ CommitEvents(h)
    /\ identity' = task[h].verdict
    /\ Finish(h)
    /\ Written(h, "identity")
    /\ UNCHANGED requests

-----------------------------------------------------------------------------
Refer(h) ==
    \/ AskCheck(h) \/ AskCommit(h)
    \/ \E i \in DOMAIN requests, r \in Recommendation \cup {NoRecommendation} : Respond(h, i, r)
    \/ RespondCommit(h)

Judge(h) ==
    \/ \E maintenance, compliance \in Rating : Rate(h, maintenance, compliance)
    \/ RateCommit(h)
    \/ SubmitIdentity(h)
    \/ \E verdict \in {"APPROVED", "FAILED"} : JudgeCheck(h, verdict)
    \/ JudgeWrite(h) \/ IdentityCommit(h)

ReferenceNext == \E h \in Handler : Refer(h) \/ Judge(h)
=============================================================================
